----------------------------- MODULE Migrations -----------------------------
(***************************************************************************)
(* How the database of one scope follows the releases of its application:  *)
(* seeding and stamping (sql-persistence.ts, seedScope), the scripts of    *)
(* migrations/ (migrations.ts, applyMigrations), the dump a download packs *)
(* into the container (sql-dump.ts) and the update that keeps it           *)
(* (poid.rs, update_program).  Write-behind saves run beside all of it,    *)
(* and the window may go away at any point.                                *)
(*                                                                         *)
(* SqlEngine models the engine below; here a save stores a committed state *)
(* and saves complete in order, which SqlEngineProofs shows.               *)
(***************************************************************************)
EXTENDS Naturals

CONSTANTS
    Scripts,   \* the versions the author wrote a script for
    Releases   \* the releases of the application

ASSUME MigrationsAssumption ==
    /\ Scripts \subseteq Nat \ {0}
    /\ Releases \subseteq [target : Nat, scripts : SUBSET Scripts]
    /\ \A r \in Releases : \A v \in Scripts : v <= r.target => v \in r.scripts

VARIABLES
    file,     \* the container: its release, and the dump in data/database.sql
    stored,   \* the bytes persisted for the scope
    image,    \* the copy a save under way will store
    phase,    \* where seedScope is, in the window that has the scope open
    run,      \* the container as that window opened it
    db,       \* its database, as last committed
    work,     \* the same inside the transaction of a script
    pending,  \* the scripts still to be applied
    script,   \* the one being applied
    dirty     \* something was committed since the last copy

vars == <<file, stored, image, phase, run, db, work, pending, script, dirty>>

(***************************************************************************)
(* A database: its user_version, whether the application's tables exist    *)
(* and the scripts whose effect they have.  History: raw marks data whose  *)
(* version says nothing of it: a dump not stamped yet, a dump of another   *)
(* schema, and tables built by a release older than the version.           *)
(***************************************************************************)

Versions == {0} \union {r.target : r \in Releases} \union Scripts

Database == [exists : BOOLEAN, version : Versions, tables : BOOLEAN,
             has : SUBSET Scripts, raw : BOOLEAN]

\* No bytes: a fresh scope, a container without a dump, no save under way.
Blank == [exists |-> FALSE, version |-> 0, tables |-> FALSE, has |-> {}, raw |-> FALSE]

\* The schema that the code of schema version t expects and builds.
UpTo(t) == {v \in Scripts : v <= t}

Built(d, t) == [d EXCEPT !.exists = TRUE, !.tables = TRUE, !.has = UpTo(t),
                         !.raw = t < d.version]

\* dumpSql writes out the schema and the rows, not the user_version.
Dump(d) == [d EXCEPT !.version = 0, !.raw = TRUE]

Container == [release : Releases, seed : Database]
InTx      == {"script", "bump", "commit"}
Phases    == {"closed", "seed", "stamp", "version", "next", "ready", "failed"} \union InTx

TypeOK ==
    /\ file \in Container /\ run \in Container
    /\ stored \in Database /\ image \in Database
    /\ phase \in Phases
    /\ db \in Database /\ work \in Database
    /\ pending \in SUBSET Scripts
    /\ script \in Versions
    /\ dirty \in BOOLEAN

\* A package carries no dump, or one the author made with this release.
Init ==
    /\ \E r \in Releases :
         file \in {[release |-> r, seed |-> s] : s \in {Blank, Dump(Built(Blank, r.target))}}
    /\ stored = Blank /\ image = Blank
    /\ phase = "closed" /\ run = file
    /\ db = Blank /\ work = Blank
    /\ pending = {} /\ script = 0 /\ dirty = FALSE

(***************************************************************************)
(* seedScope                                                               *)
(***************************************************************************)

Reconciles(r) == r.target > 0 \/ r.scripts # {}

Open ==
    /\ phase = "closed"
    /\ run' = file
    /\ db' = stored
    /\ phase' = IF ~stored.exists /\ file.seed.tables THEN "seed"
                ELSE IF ~Reconciles(file.release) THEN "ready"
                ELSE IF stored.exists THEN "version" ELSE "stamp"
    /\ UNCHANGED <<file, stored, image, work, pending, script, dirty>>

LoadFails ==
    /\ phase = "closed"
    /\ run' = file
    /\ phase' = "failed"
    /\ UNCHANGED <<file, stored, image, db, work, pending, script, dirty>>

\* A step of seedScope fails: the rejected promise stays, and with it every
\* call of this window.  A script's transaction is rolled back.
Fail ==
    /\ phase \in Phases \ {"closed", "ready", "failed"}
    /\ phase = "next" => pending # {}
    /\ phase' = "failed"
    /\ work' = Blank
    /\ UNCHANGED <<file, stored, image, run, db, pending, script, dirty>>

\* The dump runs as one exec; it is one transaction.
Seed ==
    /\ phase = "seed"
    /\ db' = [run.seed EXCEPT !.exists = TRUE]
    /\ dirty' = TRUE
    /\ phase' = IF Reconciles(run.release) THEN "stamp" ELSE "ready"
    /\ UNCHANGED <<file, stored, image, run, work, pending, script>>

\* stampSchemaVersion, an exec of its own.
Stamp ==
    /\ phase = "stamp"
    /\ db' = [db EXCEPT !.exists = TRUE, !.version = run.release.target,
                        !.raw = @ /\ db.has # UpTo(run.release.target)]
    /\ dirty' = TRUE
    /\ phase' = "ready"
    /\ UNCHANGED <<file, stored, image, run, work, pending, script>>

(***************************************************************************)
(* applyMigrations                                                         *)
(***************************************************************************)

\* Mutant of Pending: a number for every version, with or without a script.
PendingEvery(r, v) == {n \in 1..r.target : n > v}

\* Mutant of Pending: the script of the target itself is left out.
PendingBelow(r, v) == {n \in r.scripts : n > v /\ n < r.target}

\* Mutant of Pending: the recorded version is run once more.
PendingFrom(r, v) == {n \in r.scripts : n >= v /\ n <= r.target}

Pending(r, v) == {n \in r.scripts : n > v /\ n <= r.target}

\* Data newer than the code is refused.
ReadVersion ==
    /\ phase = "version"
    /\ IF run.release.target < db.version
       THEN phase' = "failed" /\ UNCHANGED pending
       ELSE phase' = "next" /\ pending' = Pending(run.release, db.version)
    /\ UNCHANGED <<file, stored, image, run, db, work, script, dirty>>

Begin(v) ==
    /\ phase = "next" /\ v \in pending /\ \A n \in pending : v <= n
    /\ script' = v
    /\ work' = db
    /\ phase' = "script"
    /\ UNCHANGED <<file, stored, image, run, db, pending, dirty>>

\* A script that meets no tables fails, or makes none of them.
RunScript ==
    /\ phase = "script"
    /\ work' = [work EXCEPT !.exists = TRUE,
                            !.has = IF work.tables THEN @ \union {script} ELSE @]
    /\ phase' = "bump"
    /\ UNCHANGED <<file, stored, image, run, db, pending, script, dirty>>

\* Mutant of Bump: the version goes to the target with the first script.
BumpToTarget ==
    /\ phase = "bump"
    /\ work' = [work EXCEPT !.version = run.release.target]
    /\ phase' = "commit"
    /\ UNCHANGED <<file, stored, image, run, db, pending, script, dirty>>

Bump ==
    /\ phase = "bump"
    /\ work' = [work EXCEPT !.version = script]
    /\ phase' = "commit"
    /\ UNCHANGED <<file, stored, image, run, db, pending, script, dirty>>

Commit ==
    /\ phase = "commit"
    /\ db' = work /\ work' = Blank
    /\ dirty' = TRUE
    /\ pending' = pending \ {script}
    /\ phase' = "next"
    /\ UNCHANGED <<file, stored, image, run, script>>

Migrated ==
    /\ phase = "next" /\ pending = {}
    /\ phase' = "ready"
    /\ UNCHANGED <<file, stored, image, run, db, work, pending, script, dirty>>

(***************************************************************************)
(* The application, the saves, and what happens to the container           *)
(***************************************************************************)

\* The application writes; where its tables are missing it creates them.
Write ==
    /\ phase = "ready"
    /\ db' = IF db.tables THEN db ELSE Built(db, run.release.target)
    /\ dirty' = TRUE
    /\ UNCHANGED <<file, stored, image, phase, run, work, pending, script>>

\* The persist job; inside a transaction it saves nothing.
Copy ==
    /\ phase \notin InTx /\ dirty /\ ~image.exists
    /\ image' = db
    /\ dirty' = FALSE
    /\ UNCHANGED <<file, stored, phase, run, db, work, pending, script>>

SaveEnds ==
    /\ image.exists
    /\ stored' \in {stored, image}
    /\ image' = Blank
    /\ UNCHANGED <<file, phase, run, db, work, pending, script, dirty>>

\* The window is closed or dies.  A save under way is completed or lost.
Close ==
    /\ phase # "closed"
    /\ phase' = "closed"
    /\ stored' \in {stored} \union (IF image.exists THEN {image} ELSE {})
    /\ image' = Blank /\ db' = Blank /\ work' = Blank
    /\ pending' = {} /\ script' = 0 /\ dirty' = FALSE
    /\ UNCHANGED <<file, run>>

\* "Download updated file": the copy is of the container as it was opened.
\* Without tables there is no dump, and the old one stays.
Download ==
    /\ phase = "ready"
    /\ file' = IF db.tables THEN [run EXCEPT !.seed = Dump(db)] ELSE run
    /\ UNCHANGED <<stored, image, phase, run, db, work, pending, script, dirty>>

\* update_program: the new release's program and scripts, the old data.
Update(r) ==
    /\ r # file.release
    /\ file' = [file EXCEPT !.release = r]
    /\ UNCHANGED <<stored, image, phase, run, db, work, pending, script, dirty>>

\* The container goes to a reader that has no bytes for it.
Carry ==
    /\ phase = "closed" /\ stored.exists
    /\ stored' = Blank
    /\ UNCHANGED <<file, image, phase, run, db, work, pending, script, dirty>>

Next ==
    \/ Open \/ LoadFails \/ Fail \/ Seed \/ Stamp
    \/ ReadVersion \/ (\E v \in Scripts : Begin(v)) \/ RunScript \/ Bump \/ Commit \/ Migrated
    \/ Write \/ Copy \/ SaveEnds \/ Close
    \/ Download \/ (\E r \in Releases : Update(r)) \/ Carry

Spec == Init /\ [][Next]_vars

(***************************************************************************)
(* Properties                                                              *)
(***************************************************************************)

\* The recorded version tells which scripts the data has had.
Agrees(d) == d.tables /\ ~d.raw => d.has = UpTo(d.version)

\* Each script and its version reach the disk together: whatever is saved
\* between the steps of applyMigrations, and wherever the window dies, the
\* stored version names exactly the scripts the stored data has had.
StoredAgrees == Agrees(stored)

\* When seedScope lets the first call through, the data has the schema the
\* running release expects, from whatever release and crash it comes.
ReadyIsCurrent ==
    phase = "ready" /\ Reconciles(run.release) /\ db.tables /\ ~db.raw =>
        db.has = UpTo(run.release.target)

\* applyMigrations runs no script on data that has had it.
NoRerun == phase = "script" /\ ~work.raw => script \notin work.has
=============================================================================

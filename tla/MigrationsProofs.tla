-------------------------- MODULE MigrationsProofs --------------------------
(***************************************************************************)
(* The safety properties of Migrations, for any scripts and releases.      *)
(***************************************************************************)
EXTENDS Migrations, TLAPS

(***************************************************************************)
(* The inductive invariant                                                 *)
(***************************************************************************)

\* What holds of a database wherever it is kept.
Sound(d) ==
    /\ d.tables => d.exists
    /\ ~d.tables => d.has = {}
    /\ Agrees(d)

\* A dump records no version, so its data is raw.
SeedOK(s) == Sound(s) /\ (s.tables => s.raw)

Kept == Sound(stored) /\ Sound(image) /\ Sound(db) /\ SeedOK(file.seed) /\ SeedOK(run.seed)

\* Until the stamp, all data is the dump's.
Unstamped == phase = "stamp" /\ db.tables => db.raw

\* While it migrates, what is pending is what the committed version leaves.
Migrating ==
    phase \in InTx \union {"next"} =>
        /\ db.version <= run.release.target
        /\ pending = Pending(run.release, db.version)

\* The transaction of a script, step by step.
Ran(d) == [d EXCEPT !.exists = TRUE, !.has = IF d.tables THEN @ \union {script} ELSE @]

Transaction ==
    /\ phase \in InTx => script \in pending /\ \A n \in pending : script <= n
    /\ phase = "script" => work = db
    /\ phase = "bump" => work = Ran(db)
    /\ phase = "commit" => work = [Ran(db) EXCEPT !.version = script]

\* A release with versions runs only on data with nothing pending.
Level ==
    phase = "ready" =>
        IF Reconciles(run.release)
        THEN db.version <= run.release.target /\ UpTo(db.version) = UpTo(run.release.target)
        ELSE run.release.target = 0

Inv == TypeOK /\ Kept /\ Unstamped /\ Migrating /\ Transaction /\ Level

(***************************************************************************)
(* Operators                                                               *)
(***************************************************************************)

LEMMA BlankType == Blank \in Database /\ Sound(Blank)
BY MigrationsAssumption DEF Blank, Database, Versions, Sound, Agrees

LEMMA ReleaseType ==
    ASSUME NEW r \in Releases
    PROVE  r.target \in Nat /\ r.scripts \subseteq Scripts /\ Scripts \subseteq Nat
BY MigrationsAssumption

LEMMA VersionsNat == Versions \subseteq Nat
<1>1. \A r \in Releases : r.target \in Nat
  BY ReleaseType
<1>2. SUFFICES ASSUME NEW v \in Versions PROVE v \in Nat
  OBVIOUS
<1>3. v = 0 \/ (\E r \in Releases : v = r.target) \/ v \in Scripts
  BY <1>2 DEF Versions
<1>4. CASE v = 0
  BY <1>4
<1>5. CASE \E r \in Releases : v = r.target
  BY <1>1, <1>5, Zenon
<1>6. CASE v \in Scripts
  BY <1>6, MigrationsAssumption
<1>7. QED
  BY <1>3, <1>4, <1>5, <1>6

LEMMA UpToType == ASSUME NEW t PROVE UpTo(t) \in SUBSET Scripts
BY DEF UpTo

\* Built keeps a database well formed, and its version right if the release
\* expects just the scripts the version stands for.
LEMMA BuiltSound ==
    ASSUME NEW d \in Database, NEW t \in Nat,
           t < d.version \/ UpTo(t) = UpTo(d.version)
    PROVE  Built(d, t) \in Database /\ Sound(Built(d, t)) /\ Built(d, t).version = d.version
<1> DEFINE b == Built(d, t)
<1>1. UpTo(t) \in SUBSET Scripts
  BY UpToType
<1>2. (t < d.version) \in BOOLEAN
  BY VersionsNat DEF Database
<1>3. /\ b \in Database /\ b.version = d.version /\ b.exists /\ b.tables
      /\ b.has = UpTo(t) /\ b.raw = (t < d.version)
  BY <1>1, <1>2 DEF Built, Database
<1>4. QED
  BY <1>3 DEF Sound, Agrees

LEMMA DumpSound ==
    ASSUME NEW d \in Database, Sound(d)
    PROVE  Dump(d) \in Database /\ SeedOK(Dump(d))
BY DEF Dump, Database, Versions, Sound, SeedOK, Agrees

\* With nothing pending, the version stands for all the release expects.
LEMMA NothingPending ==
    ASSUME NEW r \in Releases, NEW v \in Nat, v <= r.target, Pending(r, v) = {}
    PROVE  UpTo(v) = UpTo(r.target)
<1>1. r.target \in Nat /\ Scripts \subseteq Nat
  BY ReleaseType
<1>2. ASSUME NEW m \in Scripts PROVE (m <= v) <=> (m <= r.target)
  <2>1. m <= r.target => m \in r.scripts
    BY MigrationsAssumption
  <2>2. ~(m \in r.scripts /\ m > v /\ m <= r.target)
    BY DEF Pending
  <2>3. QED
    BY <1>1, <2>1, <2>2
<1>3. QED
  BY <1>2 DEF UpTo

\* The next script extends the scripts of the version by itself alone.
LEMMA NextScript ==
    ASSUME NEW r \in Releases, NEW v \in Nat, NEW n \in Pending(r, v),
           \A m \in Pending(r, v) : n <= m
    PROVE  /\ UpTo(v) \union {n} = UpTo(n)
           /\ Pending(r, v) \ {n} = Pending(r, n)
           /\ n <= r.target /\ n \in Scripts /\ n \notin UpTo(v)
<1>1. r.target \in Nat /\ r.scripts \subseteq Scripts /\ Scripts \subseteq Nat
  BY MigrationsAssumption
<1>2. n \in Nat /\ n \in Scripts /\ n > v /\ n <= r.target
  BY <1>1 DEF Pending
<1>3. \A m \in Scripts : m <= n => m <= v \/ m = n
  <2>1. SUFFICES ASSUME NEW m \in Scripts, m <= n, ~(m <= v) PROVE m = n
    OBVIOUS
  <2>2. m \in r.scripts
    BY <1>1, <1>2, <2>1, MigrationsAssumption
  <2>3. m \in Pending(r, v)
    BY <1>1, <1>2, <2>1, <2>2 DEF Pending
  <2>4. QED
    BY <1>1, <1>2, <2>1, <2>3
<1>4. UpTo(v) \union {n} = UpTo(n)
  <2>1. ASSUME NEW m \in Scripts PROVE (m <= v \/ m = n) <=> m <= n
    <3>1. m \in Nat /\ (m <= n => m <= v \/ m = n)
      BY <1>1, <1>3
    <3>2. QED
      BY <1>2, <3>1
  <2>2. QED
    BY <1>2, <2>1 DEF UpTo
<1>5. Pending(r, v) \ {n} = Pending(r, n)
  <2>1. ASSUME NEW m \in r.scripts
        PROVE  m > v /\ m <= r.target /\ m # n <=> m > n /\ m <= r.target
    <3>1. m \in Nat /\ m \in Scripts
      BY <1>1
    <3>2. m <= n => m <= v \/ m = n
      BY <1>3, <3>1
    <3>3. QED
      BY <1>1, <1>2, <3>1, <3>2
  <2>2. QED
    BY <2>1 DEF Pending
<1>6. QED
  BY <1>1, <1>2, <1>4, <1>5 DEF UpTo

(***************************************************************************)
(* The invariant is inductive                                              *)
(***************************************************************************)

LEMMA InitInv == Init => Inv
<1>1. SUFFICES ASSUME Init PROVE Inv
  OBVIOUS
<1>2. PICK r \in Releases :
        file \in {[release |-> r, seed |-> s] : s \in {Blank, Dump(Built(Blank, r.target))}}
  BY <1>1 DEF Init
<1>3. r.target \in Nat
  BY MigrationsAssumption
<1>4. Built(Blank, r.target) \in Database /\ Dump(Built(Blank, r.target)) \in Database
  <2>1. (r.target < 0) \in BOOLEAN /\ UpTo(r.target) \in SUBSET Scripts
    BY UpToType
  <2>2. Built(Blank, r.target) \in Database
    BY <2>1, BlankType DEF Built, Blank, Database
  <2>3. QED
    BY <2>2 DEF Dump, Database, Versions
<1>5. SeedOK(Dump(Built(Blank, r.target))) /\ SeedOK(Blank)
  BY <1>3 DEF Built, Dump, Blank, SeedOK, Sound, Agrees
<1>6. file \in Container /\ SeedOK(file.seed)
  BY <1>2, <1>4, <1>5, BlankType DEF Container
<1>7. QED
  BY <1>1, <1>6, BlankType
  DEF Init, Inv, TypeOK, Kept, Unstamped, Migrating, Transaction, Level, Phases, InTx, Versions

LEMMA NextInv == Inv /\ [Next]_vars => Inv'
<1> SUFFICES ASSUME Inv, [Next]_vars PROVE Inv'
  OBVIOUS
<1> USE DEF Inv
<1>0. /\ run.release \in Releases /\ run.release.target \in Nat
      /\ file.release.target \in Nat /\ file.release \in Releases
      /\ db.version \in Nat /\ run.seed \in Database /\ file.seed \in Database
  BY VersionsNat, MigrationsAssumption DEF TypeOK, Container, Database
<1>1. CASE Open
  <2>1. TypeOK'
    BY <1>1 DEF Open, TypeOK, Phases
  <2>2. Kept' /\ Unstamped'
    BY <1>1 DEF Open, Kept, Unstamped, Sound
  <2>3. Migrating' /\ Transaction'
    BY <1>1 DEF Open, Migrating, Transaction, InTx
  <2>4. Level'
    BY <1>0, <1>1 DEF Open, Level, Reconciles
  <2>5. QED
    BY <2>1, <2>2, <2>3, <2>4
<1>2. CASE LoadFails
  BY <1>2, BlankType
  DEF LoadFails, TypeOK, Phases, Kept, Unstamped, Migrating, Transaction, Level, InTx
<1>3. CASE Fail
  BY <1>3, BlankType
  DEF Fail, TypeOK, Phases, Kept, Unstamped, Migrating, Transaction, Level, InTx
<1>4. CASE Seed
  <2>1. TypeOK'
    BY <1>0, <1>4 DEF Seed, TypeOK, Phases, Database
  <2>2. Kept' /\ Unstamped'
    BY <1>0, <1>4 DEF Seed, Kept, Unstamped, Sound, SeedOK, Agrees, Database
  <2>3. Migrating' /\ Transaction'
    BY <1>4 DEF Seed, Migrating, Transaction, InTx
  <2>4. Level'
    BY <1>0, <1>4 DEF Seed, Level, Reconciles
  <2>5. QED
    BY <2>1, <2>2, <2>3, <2>4
<1>5. CASE Stamp
  <2>1. run.release.target \in Versions
    BY <1>0 DEF Versions
  <2>2. TypeOK'
    <3>1. db' \in Database
      <4>1. db \in Database /\ (db.raw /\ db.has # UpTo(run.release.target)) \in BOOLEAN
        BY DEF TypeOK, Database
      <4> QED
        BY <1>5, <2>1, <4>1 DEF Stamp, Database
    <3>2. phase' \in Phases /\ dirty' \in BOOLEAN
      BY <1>5 DEF Stamp, Phases
    <3>3. UNCHANGED <<file, stored, image, run, work, pending, script>>
      BY <1>5 DEF Stamp
    <3> QED
      BY <3>1, <3>2, <3>3 DEF TypeOK
  <2>3. Kept' /\ Unstamped'
    BY <1>5 DEF Stamp, Kept, Unstamped, Sound, SeedOK, Agrees, TypeOK, Database
  <2>4. Migrating' /\ Transaction'
    BY <1>5 DEF Stamp, Migrating, Transaction, InTx
  <2>5. db'.version = run.release.target
    BY <1>5 DEF Stamp, TypeOK, Database
  <2>6. Level'
    <3>1. CASE Reconciles(run.release)
      BY <1>0, <1>5, <2>5, <3>1 DEF Stamp, Level
    <3>2. CASE ~Reconciles(run.release)
      BY <1>0, <1>5, <3>2 DEF Stamp, Level, Reconciles
    <3>3. QED
      BY <3>1, <3>2
  <2>7. QED
    BY <2>2, <2>3, <2>4, <2>6
<1>6. CASE ReadVersion
  <2>1. Pending(run.release, db.version) \in SUBSET Scripts
    BY <1>0, MigrationsAssumption DEF Pending
  <2>2. TypeOK'
    BY <1>6, <2>1 DEF ReadVersion, TypeOK, Phases
  <2>3. Migrating'
    BY <1>0, <1>6 DEF ReadVersion, Migrating, InTx
  <2>4. QED
    BY <1>6, <2>2, <2>3 DEF ReadVersion, Kept, Unstamped, Transaction, Level, InTx
<1>7. ASSUME NEW v \in Scripts, Begin(v) PROVE Inv'
  <2>1. TypeOK'
    BY <1>7 DEF Begin, TypeOK, Phases, InTx, Versions
  <2>2. Kept' /\ Unstamped' /\ Level'
    BY <1>7 DEF Begin, Kept, Unstamped, Level
  <2>3. Migrating' /\ Transaction'
    BY <1>7 DEF Begin, Migrating, Transaction, InTx
  <2>4. QED
    BY <2>1, <2>2, <2>3
<1>8. CASE RunScript
  <2>1. script \in Scripts
    BY <1>8 DEF RunScript, Transaction, TypeOK, InTx
  <2>2. TypeOK'
    <3>1. work' \in Database
      <4>1. work \in Database /\ work.has \union {script} \in SUBSET Scripts
        BY <2>1 DEF TypeOK, Database
      <4> QED
        BY <1>8, <4>1 DEF RunScript, Database
    <3>2. phase' \in Phases
      BY <1>8 DEF RunScript, Phases, InTx
    <3>3. UNCHANGED <<file, stored, image, run, db, pending, script, dirty>>
      BY <1>8 DEF RunScript
    <3> QED
      BY <3>1, <3>2, <3>3 DEF TypeOK
  <2>3. Kept' /\ Unstamped' /\ Level'
    BY <1>8 DEF RunScript, Kept, Unstamped, Level
  <2>4. Migrating' /\ Transaction'
    BY <1>8 DEF RunScript, Migrating, Transaction, InTx, Ran
  <2>5. QED
    BY <2>2, <2>3, <2>4
<1>9. CASE Bump
  <2>1. TypeOK'
    BY <1>9 DEF Bump, TypeOK, Phases, InTx, Database
  <2>2. Kept' /\ Unstamped' /\ Level'
    BY <1>9 DEF Bump, Kept, Unstamped, Level
  <2>3. Migrating' /\ Transaction'
    BY <1>9 DEF Bump, Migrating, Transaction, InTx, Ran
  <2>4. QED
    BY <2>1, <2>2, <2>3
<1>10. CASE Commit
  <2>1. script \in Pending(run.release, db.version)
        /\ \A n \in Pending(run.release, db.version) : script <= n
    BY <1>10 DEF Commit, Transaction, Migrating, InTx
  <2>2. /\ UpTo(db.version) \union {script} = UpTo(script)
        /\ Pending(run.release, db.version) \ {script} = Pending(run.release, script)
        /\ script <= run.release.target /\ script \in Scripts
    BY <1>0, <2>1, NextScript
  <2>3. TypeOK'
    BY <1>10, BlankType DEF Commit, TypeOK, Phases
  <2>4. db' = [Ran(db) EXCEPT !.version = script]
    BY <1>10 DEF Commit, Transaction
  <2>5. /\ db'.version = script /\ db'.exists /\ db'.tables = db.tables /\ db'.raw = db.raw
        /\ db'.has = IF db.tables THEN db.has \union {script} ELSE db.has
    BY <2>4 DEF Ran, TypeOK, Database
  <2>6. Sound(db)'
    BY <2>2, <2>5 DEF Kept, Sound, Agrees
  <2>7. Kept' /\ Unstamped'
    BY <1>10, <2>6 DEF Commit, Kept, Unstamped
  <2>8. Migrating'
    BY <1>10, <2>2, <2>5 DEF Commit, Migrating, InTx
  <2>9. Transaction' /\ Level'
    BY <1>10 DEF Commit, Transaction, Level, InTx
  <2>10. QED
    BY <2>3, <2>7, <2>8, <2>9
<1>11. CASE Migrated
  <2>1. db.version <= run.release.target /\ Pending(run.release, db.version) = {}
    BY <1>11 DEF Migrated, Migrating
  <2>2. UpTo(db.version) = UpTo(run.release.target)
    BY <1>0, <2>1, NothingPending
  <2>3. Level'
    BY <1>0, <1>11, <2>1, <2>2 DEF Migrated, Level, Reconciles
  <2>4. QED
    BY <1>11, <2>3
    DEF Migrated, TypeOK, Phases, Kept, Unstamped, Migrating, Transaction, InTx
<1>12. CASE Write
  <2>1. run.release.target < db.version \/ UpTo(run.release.target) = UpTo(db.version)
    BY <1>0, <1>12 DEF Write, Level
  <2>2. db' \in Database /\ Sound(db') /\ db'.version = db.version
    BY <1>0, <1>12, <2>1, BuiltSound DEF Write, TypeOK, Kept
  <2>3. TypeOK'
    BY <1>12, <2>2 DEF Write, TypeOK
  <2>4. Kept' /\ Unstamped'
    BY <1>12, <2>2 DEF Write, Kept, Unstamped
  <2>5. Migrating' /\ Transaction' /\ Level'
    BY <1>12, <2>2 DEF Write, Migrating, Transaction, Level, InTx
  <2>6. QED
    BY <2>3, <2>4, <2>5
<1>13. CASE Copy
  BY <1>13 DEF Copy, TypeOK, Kept, Unstamped, Migrating, Transaction, Level, InTx, Ran
<1>14. CASE SaveEnds
  BY <1>14, BlankType
  DEF SaveEnds, TypeOK, Kept, Unstamped, Migrating, Transaction, Level, Ran
<1>15. CASE Close
  BY <1>15, BlankType
  DEF Close, TypeOK, Kept, Unstamped, Migrating, Transaction, Level, InTx, Phases, Versions
<1>16. CASE Download
  <2>1. Dump(db) \in Database /\ SeedOK(Dump(db))
    BY DumpSound DEF TypeOK, Kept
  <2>2. file' \in Container /\ SeedOK(file'.seed)
    BY <1>16, <2>1 DEF Download, TypeOK, Container, Kept
  <2>3. QED
    BY <1>16, <2>2
    DEF Download, TypeOK, Kept, Unstamped, Migrating, Transaction, Level, Ran
<1>17. ASSUME NEW r \in Releases, Update(r) PROVE Inv'
  <2>1. file' \in Container /\ file'.seed = file.seed
    BY <1>17 DEF Update, TypeOK, Container
  <2>2. QED
    BY <1>17, <2>1 DEF Update, TypeOK, Kept, Unstamped, Migrating, Transaction, Level, Ran
<1>18. CASE Carry
  BY <1>18, BlankType
  DEF Carry, TypeOK, Kept, Unstamped, Migrating, Transaction, Level, Ran
<1>19. CASE UNCHANGED vars
  BY <1>19 DEF vars, TypeOK, Kept, Unstamped, Migrating, Transaction, Level, Ran
<1>20. QED
  BY <1>1, <1>2, <1>3, <1>4, <1>5, <1>6, <1>7, <1>8, <1>9, <1>10, <1>11, <1>12, <1>13,
     <1>14, <1>15, <1>16, <1>17, <1>18, <1>19
  DEF Next

LEMMA Invariance == Spec => []Inv
BY InitInv, NextInv, PTL DEF Spec

(***************************************************************************)
(* The theorems                                                            *)
(***************************************************************************)

\* Every variable keeps its type: what is pending is always a set of scripts
\* the author wrote.
THEOREM MigrationsTypeCorrect == Spec => []TypeOK
<1>1. Inv => TypeOK
  BY DEF Inv
<1>2. QED
  BY <1>1, Invariance, PTL

\* A script and its version reach the disk together, whatever is saved between
\* the steps of applyMigrations and wherever the window dies.
THEOREM StoredVersionTrue == Spec => []StoredAgrees
<1>1. Inv => StoredAgrees
  BY DEF Inv, Kept, Sound, StoredAgrees
<1>2. QED
  BY <1>1, Invariance, PTL

\* The application's first call meets the schema its release expects, for any
\* history of releases and crashes.
THEOREM SchemaIsCurrent == Spec => []ReadyIsCurrent
<1>1. Inv => ReadyIsCurrent
  BY DEF Inv, Kept, Sound, Agrees, Level, ReadyIsCurrent
<1>2. QED
  BY <1>1, Invariance, PTL

\* applyMigrations runs no script on data that has had it.
THEOREM ScriptsRunOnce == Spec => []NoRerun
<1>1. Inv => NoRerun
  <2>1. SUFFICES ASSUME Inv, phase = "script", ~work.raw PROVE script \notin work.has
    BY DEF NoRerun
  <2>2. /\ run.release \in Releases /\ db.version \in Nat
        /\ script \in Pending(run.release, db.version)
        /\ \A m \in Pending(run.release, db.version) : script <= m
    BY <2>1, VersionsNat DEF Inv, Transaction, Migrating, InTx, TypeOK, Container, Database
  <2>3. script \notin UpTo(db.version)
    BY <2>2, NextScript
  <2>4. QED
    BY <2>1, <2>3 DEF Inv, Kept, Sound, Agrees, Transaction
<1>2. QED
  BY <1>1, Invariance, PTL
=============================================================================

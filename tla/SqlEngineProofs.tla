-------------------------- MODULE SqlEngineProofs --------------------------
(***************************************************************************)
(* Proofs about SqlEngine, for every set of clients, transaction ids,      *)
(* changes and flushers.                                                   *)
(***************************************************************************)
EXTENDS SqlEngine, TLAPS

(***************************************************************************)
(* The inductive invariant                                                 *)
(***************************************************************************)

\* Outside a transaction the connection and the file hold the committed state.
QuietFile ==
    /\ committed \subseteq work
    /\ ~inTx => work = committed /\ file = committed

\* The committed states form a rising chain whose top is the present one, and
\* a save under way moves the stored state up it.
Rising ==
    /\ committed \in history
    /\ \A h \in history : h \subseteq committed
    /\ durable \in history
    /\ job = "saving" => image \in history /\ durable \subseteq image

\* CleanMeansDurable at every stage of a job, inside transactions too.
CleanFile ==
    ~dirty =>
        /\ file = committed
        /\ job = "saving" => image = committed
        /\ job # "saving" /\ ~behind => durable = committed

\* What is still ahead of a calm flush covers what was committed at its call.
FlushCovered ==
    \A f \in Flushers :
        flush[f].calm /\ flush[f].st \in {"waiting", "ok"} =>
            /\ flush[f].target \subseteq committed
            /\ flush[f].wait = 0 => flush[f].target \subseteq durable
            /\ flush[f].wait = 1 =>
                 \/ job = "saving" /\ flush[f].target \subseteq image
                 \/ job = "locking"
                 \/ job = "idle" /\ persistQueued
            /\ flush[f].wait = 2 => job # "idle" /\ persistQueued

\* A flush that is not waiting waits for no job.
FlushOver == \A f \in Flushers : flush[f].st # "waiting" => flush[f].wait = 0

\* A batch under way has the mutex, and its token is still the gate's.
BatchHoldsMutex ==
    \A c \in Clients : Running(c) => Turn(c) /\ tx = call[c].tok

\* While the gate holds no transaction, only manual BEGIN text has anything
\* uncommitted.
LooseWork == tx = NoTx => work \subseteq committed \union loose

\* begin and snapshot carry no token.
TokenlessCalls ==
    \A c \in Clients : call[c].op \in {"begin", "snapshot"} => call[c].tok = NoTx

Inv ==
    /\ TokenlessCalls
    /\ BatchHoldsMutex
    /\ GateMatchesConnection
    /\ QuietFile
    /\ LooseWork
    /\ Rising
    /\ NoDirtyRead
    /\ UnsavedIsQueued
    /\ CleanFile
    /\ FlushCovered
    /\ FlushOver

(***************************************************************************)
(* Type correctness                                                        *)
(***************************************************************************)

\* What the bodies run under the mutex do to the queue stays a queue.
LEMMA QueueTypes ==
    ASSUME NEW q \in Seq(Entry), NEW r \in Seq(Entry), NEW e \in Entry
    PROVE  /\ Append(q, e) \in Seq(Entry)
           /\ q \o r \in Seq(Entry)
           /\ q # <<>> => Tail(q) \in Seq(Entry) /\ Head(q) \in Entry
OBVIOUS

\* The entries the engine puts on the mutex are entries.
LEMMA EntryTypes ==
    ASSUME TypeOK
    PROVE  /\ \A c \in Clients : CallEntry(c) \in Entry
           /\ \A c \in Clients, t \in Tokens \union {NoTx} : [who |-> c, tok |-> t] \in Entry
           /\ [who |-> IdleTimer, tok |-> tx] \in Entry
           /\ [who |-> PersistJob, tok |-> NoTx] \in Entry
BY DEF TypeOK, CallEntry, Entry, Call

\* Answering a call, and closing the transaction, keep the gate well typed.
LEMMA AnswerTypes ==
    ASSUME TypeOK, NEW c \in Clients, Turn(c),
           Answer(c) \/ AnswerAndClose(c)
    PROVE  /\ tx' \in Tokens \union {NoTx}
           /\ AnswerAndClose(c) => timer' \in BOOLEAN
           /\ chain' \in Seq(Entry)
           /\ waiters' \in Seq(Entry)
           /\ call' \in [Clients -> Call]
<1>1. NoCall \in Call
  BY DEF NoCall, Call
<1>2. chain # <<>> /\ chain \in Seq(Entry) /\ waiters \in Seq(Entry)
  BY DEF Turn, TypeOK
<1>3. Tail(chain) \in Seq(Entry)
  BY <1>2
<1>4. Tail(chain) \o waiters \in Seq(Entry)
  BY <1>2, <1>3
<1>5. <<>> \in Seq(Entry)
  OBVIOUS
<1> QED
  BY <1>1, <1>2, <1>3, <1>4, <1>5 DEF Answer, AnswerAndClose, CloseTx, TypeOK

\* The connection's and the file's part of TypeOK.
DbTypes ==
    /\ committed \in SUBSET Writes
    /\ work \in SUBSET Writes
    /\ file \in SUBSET Writes
    /\ inTx \in BOOLEAN
    /\ stray \in BOOLEAN
    /\ dirty \in BOOLEAN
    /\ history \in SUBSET (SUBSET Writes)

\* Statements keep the database well typed.
LEMMA StatementTypes ==
    ASSUME TypeOK
    PROVE  /\ \A w \in Writes : SqlWrite(w) => DbTypes'
           /\ SqlCommit => DbTypes'
           /\ SqlRollback => DbTypes'
           /\ UNCHANGED <<dbVars, history>> => DbTypes'
<1>1. ASSUME NEW w \in Writes, SqlWrite(w) PROVE DbTypes'
  <2>1. work' \in SUBSET Writes
    BY <1>1 DEF SqlWrite, TypeOK
  <2>2. CASE ~inTx
    BY <1>1, <2>1, <2>2 DEF SqlWrite, TypeOK, DbTypes
  <2>3. CASE inTx
    BY <1>1, <2>1, <2>3 DEF SqlWrite, TypeOK, DbTypes
  <2> QED
    BY <2>2, <2>3
<1>2. ASSUME SqlCommit PROVE DbTypes'
  BY <1>2 DEF SqlCommit, TypeOK, DbTypes
<1>3. ASSUME SqlRollback PROVE DbTypes'
  BY <1>3 DEF SqlRollback, TypeOK, DbTypes
<1>4. ASSUME UNCHANGED <<dbVars, history>> PROVE DbTypes'
  BY <1>4 DEF dbVars, TypeOK, DbTypes
<1> QED
  BY <1>1, <1>2, <1>3, <1>4

\* A job's end keeps the flushes well typed.
LEMMA JobEndsTypes ==
    ASSUME TypeOK, NEW stored \in BOOLEAN, JobEnds(stored)
    PROVE  flush' \in [Flushers -> FlushState]
<1> SUFFICES ASSUME NEW f \in Flushers
             PROVE  (IF flush[f].wait = 0 THEN flush[f]
                     ELSE [flush[f] EXCEPT !.wait = @ - 1, !.calm = @ /\ stored]) \in FlushState
  BY DEF JobEnds
<1>1. flush[f] \in FlushState
  BY DEF TypeOK
<1>2. flush[f].wait # 0 => flush[f].wait - 1 \in 0..2
  BY <1>1 DEF FlushState
<1> QED
  BY <1>1, <1>2 DEF FlushState

\* A scope just opened is well typed.
LEMMA InitTypes == Init => TypeOK
<1> SUFFICES ASSUME Init PROVE TypeOK
  OBVIOUS
<1>1. call \in [Clients -> Call]
  BY DEF Init, NoCall, Call
<1>2. flush \in [Flushers -> FlushState]
  BY DEF Init, FlushState
<1>3. <<>> \in Seq(Entry) /\ {{}} \in SUBSET (SUBSET Writes)
  OBVIOUS
<1> QED
  BY <1>1, <1>2, <1>3 DEF Init, TypeOK

\* Every body a client's call can run keeps the types.
LEMMA BodyTypes ==
    ASSUME TypeOK, BatchHoldsMutex, NEW c \in Clients, Body(c)
    PROVE  TypeOK'
<1> USE DEF persistVars, ghostVars
<1>1. CASE RefuseToken(c)
  <2>1. NoCall \in Call
    BY DEF NoCall, Call
  <2>2. chain' \in Seq(Entry)
    BY <1>1 DEF RefuseToken, Turn, TypeOK
  <2> QED
    BY <1>1, <2>1, <2>2 DEF RefuseToken, TypeOK, dbVars
<1>2. CASE Retry(c)
  <2>1. chain' \in Seq(Entry)
    BY <1>2 DEF Retry, MustRetry, Turn, TypeOK
  <2>2. waiters' \in Seq(Entry)
    BY <1>2, EntryTypes DEF Retry, TypeOK
  <2> QED
    BY <1>2, <2>1, <2>2 DEF Retry, TypeOK, dbVars
<1>3. CASE ExecStart(c)
  <2>1. [op |-> "running", tok |-> call[c].tok] \in Call
    BY DEF Call, TypeOK
  <2>2. call' \in [Clients -> Call]
    BY <1>3, <2>1 DEF ExecStart, TypeOK, Call
  <2> QED
    BY <1>3, <2>2 DEF ExecStart, TouchTx, TypeOK, dbVars
<1>4. CASE StmtRead(c)
  <2>1. seen' \in SUBSET Writes
    BY <1>4 DEF StmtRead, TypeOK
  <2>2. dirty' \in BOOLEAN
    BY <1>4, Zenon DEF StmtRead, TypeOK
  <2> QED
    BY <1>4, <2>1, <2>2 DEF StmtRead, TypeOK, gateVars
<1>5. CASE StmtWrite(c)
  <2>1. PICK w \in Writes :
          /\ SqlWrite(w)
          /\ loose' = IF call[c].tok = NoTx /\ inTx THEN loose \union {w} ELSE loose
    BY <1>5 DEF StmtWrite
  <2>2. loose' \in SUBSET Writes
    BY <2>1 DEF TypeOK
  <2>3. DbTypes'
    BY <2>1, StatementTypes
  <2> QED
    BY <1>5, <2>2, <2>3 DEF StmtWrite, TypeOK, DbTypes, gateVars
<1>6. CASE StmtControl(c)
  <2>1. DbTypes'
    <3>1. CASE SqlCommit \/ SqlRollback
      BY <3>1, StatementTypes
    <3>2. CASE inTx' = TRUE /\ UNCHANGED <<committed, work, file, stray, dirty, history>>
      BY <3>2 DEF DbTypes, TypeOK
    <3> QED
      BY <1>6, <3>1, <3>2 DEF StmtControl
  <2> QED
    BY <1>6, <2>1 DEF StmtControl, TypeOK, DbTypes, gateVars
<1>7. CASE ExecFails(c)
  <2>1. Turn(c) => TypeOK'
    BY <1>7, AnswerTypes, StatementTypes
    DEF ExecFails, SchedulePersist, TypeOK, DbTypes
  <2> QED
    BY <1>7, <2>1 DEF BatchHoldsMutex, ExecFails
<1>8. CASE ExecReturns(c)
  <2>1. Turn(c) => TypeOK'
    BY <1>8, AnswerTypes, StatementTypes
    DEF ExecReturns, SchedulePersist, TypeOK, DbTypes
  <2> QED
    BY <1>8, <2>1 DEF BatchHoldsMutex, ExecReturns
<1>9. CASE ExecRejectsBegin(c)
  <2>1. Turn(c) => TypeOK'
    BY <1>9, AnswerTypes DEF ExecRejectsBegin, TypeOK
  <2> QED
    BY <1>9, <2>1 DEF BatchHoldsMutex, ExecRejectsBegin
<1>10. CASE ExecRejectsEnd(c)
  <2>1. Turn(c) => TypeOK'
    BY <1>10, AnswerTypes DEF ExecRejectsEnd, NoSchedule, TypeOK, dbVars
  <2> QED
    BY <1>10, <2>1 DEF BatchHoldsMutex, ExecRejectsEnd
<1>11. CASE Begin(c)
  <2>1. NoCall \in Call
    BY DEF NoCall, Call
  <2>2. chain' \in Seq(Entry)
    BY <1>11 DEF Begin, Runs, Admitted, Turn, TypeOK
  <2> QED
    BY <1>11, <2>1, <2>2 DEF Begin, TypeOK
<1>12. CASE BeginFails(c)
  BY <1>12, AnswerTypes DEF BeginFails, Runs, Admitted, TypeOK, dbVars
<1>13. CASE Commit(c)
  BY <1>13, AnswerTypes, StatementTypes
  DEF Commit, Runs, Admitted, SchedulePersist, TypeOK, DbTypes
<1>14. CASE CommitFails(c)
  BY <1>14, AnswerTypes DEF CommitFails, Runs, Admitted, TouchTx, TypeOK, dbVars
<1>15. CASE Rollback(c)
  BY <1>15, AnswerTypes, StatementTypes
  DEF Rollback, Runs, Admitted, SchedulePersist, TypeOK, DbTypes
<1>16. CASE Snapshot(c)
  BY <1>16, AnswerTypes DEF Snapshot, Admitted, TypeOK, dbVars
<1> QED
  BY <1>1, <1>2, <1>3, <1>4, <1>5, <1>6, <1>7, <1>8, <1>9, <1>10, <1>11,
     <1>12, <1>13, <1>14, <1>15, <1>16 DEF Body

\* Every step keeps the types.
LEMMA NextTypes == TypeOK /\ BatchHoldsMutex /\ [Next]_vars => TypeOK'
<1> SUFFICES ASSUME TypeOK, BatchHoldsMutex, [Next]_vars PROVE TypeOK'
  OBVIOUS
<1> USE DEF persistVars, ghostVars
<1>1. ASSUME NEW c \in Clients, NEW op \in Ops, NEW tok \in Tokens \union {NoTx},
             Request(c, op, tok)
      PROVE  TypeOK'
  <2>1. [op |-> op, tok |-> tok] \in Call
    BY SqlEngineAssumption DEF Call
  <2>2. chain' \in Seq(Entry) /\ waiters' \in Seq(Entry)
    <3>1. [who |-> c, tok |-> tok] \in Entry
      BY EntryTypes
    <3>2. /\ chain' = chain \/ chain' = Append(chain, [who |-> c, tok |-> tok])
          /\ waiters' = waiters \/ waiters' = Append(waiters, [who |-> c, tok |-> tok])
      BY <1>1, Zenon DEF Request
    <3>3. chain \in Seq(Entry) /\ waiters \in Seq(Entry)
      BY DEF TypeOK
    <3> QED
      BY <3>1, <3>2, <3>3, QueueTypes
  <2>3. call' \in [Clients -> Call]
    BY <1>1, <2>1 DEF Request, TypeOK
  <2>4. UNCHANGED <<dbVars, tx, timer, persistVars, flush, ghostVars>>
    BY <1>1 DEF Request
  <2> QED
    BY <2>2, <2>3, <2>4 DEF TypeOK, dbVars
<1>2. ASSUME NEW c \in Clients, Body(c) PROVE TypeOK'
  BY <1>2, BodyTypes
<1>3. CASE StrayRollback
  BY <1>3, StatementTypes DEF StrayRollback, NoSchedule, TypeOK, DbTypes, gateVars
<1>4. CASE TimerFires
  <2>1. chain' \in Seq(Entry)
    BY <1>4, EntryTypes DEF TimerFires, TypeOK
  <2>2. timer' \in BOOLEAN /\ UNCHANGED <<dbVars, tx, waiters, call, persistVars, flush, ghostVars>>
    BY <1>4 DEF TimerFires
  <2> QED
    BY <2>1, <2>2 DEF TypeOK, dbVars
<1>5. CASE ExpireTx
  <2>1. chain' \in Seq(Entry) /\ waiters' \in Seq(Entry)
    BY <1>5 DEF ExpireTx, CloseTx, Turn, TypeOK
  <2> QED
    BY <1>5, <2>1, StatementTypes DEF ExpireTx, CloseTx, NoSchedule, TypeOK, DbTypes
<1>6. CASE ExpireLate
  <2>1. chain' \in Seq(Entry)
    BY <1>6 DEF ExpireLate, Turn, TypeOK
  <2> QED
    BY <1>6, <2>1 DEF ExpireLate, TypeOK, dbVars
<1>7. CASE JobStart
  <2>1. chain' \in Seq(Entry)
    BY <1>7, EntryTypes DEF JobStart, TypeOK
  <2> QED
    BY <1>7, <2>1 DEF JobStart, TypeOK, dbVars
<1>8. CASE JobSnapshot
  <2>1. chain' \in Seq(Entry)
    BY <1>8 DEF JobSnapshot, Turn, TypeOK
  <2> QED
    BY <1>8, <2>1 DEF JobSnapshot, TypeOK
<1>9. CASE JobSkip
  <2>1. chain' \in Seq(Entry)
    BY <1>9 DEF JobSkip, Turn, TypeOK
  <2>2. flush' \in [Flushers -> FlushState]
    BY <1>9, JobEndsTypes DEF JobSkip
  <2>3. /\ job' = "idle"
        /\ UNCHANGED <<dbVars, tx, timer, waiters, call, persistQueued, image, durable,
                       persistFailure, ghostVars>>
    BY <1>9 DEF JobSkip
  <2> QED
    BY <2>1, <2>2, <2>3 DEF TypeOK, dbVars
<1>10. CASE SaveSucceeds
  BY <1>10, JobEndsTypes DEF SaveSucceeds, TypeOK, dbVars, gateVars
<1>11. CASE SaveFails
  BY <1>11, JobEndsTypes DEF SaveFails, TypeOK, dbVars, gateVars
<1>12. ASSUME NEW f \in Flushers, Flush(f) PROVE TypeOK'
  <2>1. [st |-> "waiting", wait |-> JobsAhead, target |-> IF Busy THEN {} ELSE committed,
         calm |-> ~inTx /\ ~silent /\ ~behind] \in FlushState
    BY DEF FlushState, JobsAhead, TypeOK
  <2> QED
    BY <1>12, <2>1 DEF Flush, TypeOK, dbVars, gateVars
<1>13. ASSUME NEW f \in Flushers, FlushReturns(f) PROVE TypeOK'
  <2>1. flush' \in [Flushers -> FlushState]
    <3>1. flush[f] \in FlushState /\ flush \in [Flushers -> FlushState]
      BY DEF TypeOK
    <3>2. PICK r \in {"ok", "failed"} : flush' = [flush EXCEPT ![f].st = r]
      BY <1>13 DEF FlushReturns
    <3>3. [flush[f] EXCEPT !.st = r] \in FlushState
      BY <3>1 DEF FlushState
    <3> QED
      BY <3>1, <3>2, <3>3
  <2>2. /\ persistFailure' \in BOOLEAN
        /\ UNCHANGED <<dbVars, gateVars, persistQueued, job, image, durable, ghostVars>>
    BY <1>13 DEF FlushReturns
  <2> QED
    BY <2>1, <2>2 DEF TypeOK, dbVars, gateVars
<1>14. CASE UNCHANGED vars
  BY <1>14 DEF vars, TypeOK, dbVars, gateVars
<1> QED
  BY <1>1, <1>2, <1>3, <1>4, <1>5, <1>6, <1>7, <1>8, <1>9, <1>10, <1>11,
     <1>12, <1>13, <1>14 DEF Next

(***************************************************************************)
(* The invariant is inductive                                              *)
(***************************************************************************)

\* A scope just opened satisfies the invariant.
LEMMA InitInv == Init => Inv
<1> SUFFICES ASSUME Init PROVE Inv
  OBVIOUS
<1>1. ~Busy /\ BatchHoldsMutex /\ TokenlessCalls
  BY DEF Init, Busy, BatchHoldsMutex, Running, TokenlessCalls, NoCall
<1> QED
  BY <1>1 DEF Init, Inv, GateMatchesConnection, QuietFile, LooseWork, Rising,
              NoDirtyRead, UnsavedIsQueued, CleanFile, FlushCovered, FlushOver

\* Only the client whose turn it is can have a batch under way.
LEMMA BatchIsAlone ==
    ASSUME BatchHoldsMutex, NEW who, Turn(who), NEW d \in Clients, Running(d)
    PROVE  who = d
BY DEF BatchHoldsMutex, Turn

\* While the timer or a persist job has its turn, no batch is under way.
LEMMA NoBatch ==
    ASSUME BatchHoldsMutex, Turn(PersistJob) \/ Turn(IdleTimer)
    PROVE  ~Busy
BY BatchIsAlone, SqlEngineAssumption DEF Busy, Running

\* Once a call is answered at its turn, no batch is under way.
LEMMA AnsweredIsIdle ==
    ASSUME TypeOK, BatchHoldsMutex, TokenlessCalls, NEW c \in Clients, Turn(c),
           call' = [call EXCEPT ![c] = NoCall]
    PROVE  ~Busy' /\ BatchHoldsMutex' /\ TokenlessCalls'
<1>1. \A d \in Clients : ~Running(d)'
  <2> SUFFICES ASSUME NEW d \in Clients PROVE ~Running(d)'
    OBVIOUS
  <2>1. CASE d = c
    BY <2>1 DEF Running, NoCall, TypeOK
  <2>2. CASE d # c
    BY <2>2, BatchIsAlone DEF Running, TypeOK
  <2> QED
    BY <2>1, <2>2
<1>2. ~Busy' /\ BatchHoldsMutex'
  BY <1>1 DEF Busy, Running, BatchHoldsMutex
<1>3. TokenlessCalls'
  BY DEF TokenlessCalls, NoCall, TypeOK
<1> QED
  BY <1>2, <1>3

\* A batch keeps its turn while others join the mutex behind it.
LEMMA TurnKept ==
    ASSUME TypeOK, BatchHoldsMutex, UNCHANGED <<call, tx>>,
           chain' = chain \/ \E e \in Entry : chain' = Append(chain, e)
    PROVE  BatchHoldsMutex' /\ (Busy <=> Busy')
<1>1. \A c \in Clients : Turn(c) => Turn(c)'
  <2> SUFFICES ASSUME NEW c \in Clients, Turn(c) PROVE Turn(c)'
    OBVIOUS
  <2>1. CASE chain' = chain
    BY <2>1 DEF Turn
  <2>2. ASSUME NEW e \in Entry, chain' = Append(chain, e) PROVE Turn(c)'
    <3>1. chain \in Seq(Entry) /\ chain # <<>>
      BY DEF TypeOK, Turn
    <3>2. chain' # <<>> /\ Head(chain') = Head(chain)
      BY <2>2, <3>1
    <3> QED
      BY <3>2 DEF Turn
  <2> QED
    BY <2>1, <2>2
<1> QED
  BY <1>1 DEF BatchHoldsMutex, Running, Busy

\* A step that only moves calls about the gate disturbs nothing else.
LEMMA GateOnly ==
    ASSUME Inv, TokenlessCalls', BatchHoldsMutex', Busy <=> Busy',
           UNCHANGED <<dbVars, tx, persistVars, flush, ghostVars>>
    PROVE  Inv'
BY DEF Inv, GateMatchesConnection, QuietFile, LooseWork, Rising, NoDirtyRead,
       UnsavedIsQueued, CleanFile, FlushCovered, FlushOver, dbVars, persistVars, ghostVars

\* Whatever a statement does, the file and the committed states stay in order.
LEMMA StatementKeeps ==
    ASSUME TypeOK, QuietFile, Rising, CleanFile,
           \/ \E w \in Writes : SqlWrite(w)
           \/ SqlCommit
           \/ SqlRollback
           \/ UNCHANGED <<dbVars, history>>,
           UNCHANGED <<job, image, durable, behind>>
    PROVE  QuietFile' /\ Rising' /\ CleanFile' /\ committed \subseteq committed'
<1> USE DEF QuietFile, Rising, CleanFile, TypeOK
<1>1. ASSUME NEW w \in Writes, SqlWrite(w), ~inTx
      PROVE  QuietFile' /\ Rising' /\ CleanFile' /\ committed \subseteq committed'
  BY <1>1 DEF SqlWrite
<1>2. ASSUME NEW w \in Writes, SqlWrite(w), inTx
      PROVE  QuietFile' /\ Rising' /\ CleanFile' /\ committed \subseteq committed'
  BY <1>2 DEF SqlWrite
<1>3. CASE SqlCommit
  BY <1>3 DEF SqlCommit
<1>4. CASE SqlRollback
  BY <1>4 DEF SqlRollback
<1>5. CASE UNCHANGED <<dbVars, history>>
  BY <1>5 DEF dbVars
<1> QED
  BY <1>1, <1>2, <1>3, <1>4, <1>5

\* A flush stays covered while the jobs stay and the committed state rises.
LEMMA FlushSteady ==
    ASSUME FlushCovered, FlushOver, committed \subseteq committed',
           UNCHANGED <<job, image, durable, flush>>, persistQueued => persistQueued'
    PROVE  FlushCovered' /\ FlushOver'
BY DEF FlushCovered, FlushOver

\* The end of a transaction leaves nothing uncommitted.
LEMMA EndsClean ==
    ASSUME QuietFile', ~inTx'
    PROVE  LooseWork'
BY DEF QuietFile, LooseWork

\* What the gate has seen stays committed, or stays loose.
LEMMA SeenKept ==
    ASSUME NoDirtyRead, committed \subseteq committed', loose \subseteq loose', seen' = seen
    PROVE  NoDirtyRead'
BY DEF NoDirtyRead

\* An exec that ends on a path through schedulePersist.
LEMMA ScheduledEnd ==
    ASSUME TypeOK, Inv, NEW c \in Clients, Turn(c), tx = call[c].tok, ~stray,
           SqlCommit \/ SqlRollback \/ UNCHANGED <<dbVars, history>>,
           \/ AnswerAndClose(c) /\ ~inTx'
           \/ Answer(c) /\ (tx # NoTx => inTx'),
           UNCHANGED <<seen, loose, exported, behind, flush>>,
           SchedulePersist
    PROVE  Inv'
<1>1. ~Busy' /\ BatchHoldsMutex' /\ TokenlessCalls'
  BY AnsweredIsIdle DEF Inv, Answer, AnswerAndClose
<1>2. UNCHANGED <<job, image, durable>> /\ (persistQueued => persistQueued')
  BY DEF SchedulePersist
<1>3. QuietFile' /\ Rising' /\ CleanFile' /\ committed \subseteq committed'
  BY <1>2, StatementKeeps DEF Inv
<1>4. FlushCovered' /\ FlushOver'
  BY <1>2, <1>3, FlushSteady DEF Inv
<1>5. GateMatchesConnection'
  <2>1. ~stray'
    BY DEF SqlCommit, SqlRollback, dbVars
  <2>2. tx' # NoTx => inTx'
    BY DEF Answer, AnswerAndClose, CloseTx
  <2> QED
    BY <2>1, <2>2 DEF GateMatchesConnection
<1>6. LooseWork'
  <2>1. CASE ~inTx'
    BY <1>3, <2>1, EndsClean
  <2>2. CASE inTx'
    <3>1. UNCHANGED <<dbVars, history, tx>>
      BY <2>2 DEF SqlCommit, SqlRollback, Answer
    <3> QED
      BY <3>1 DEF Inv, LooseWork, dbVars
  <2> QED
    BY <2>1, <2>2
<1>7. NoDirtyRead'
  BY <1>3, SeenKept DEF Inv
<1>8. UnsavedIsQueued'
  BY DEF SchedulePersist, UnsavedIsQueued
<1> QED
  BY <1>1, <1>3, <1>4, <1>5, <1>6, <1>7, <1>8 DEF Inv

\* A statement of a batch under way.
LEMMA StatementInv ==
    ASSUME TypeOK, Inv, NEW c \in Clients, Running(c),
           \/ \E w \in Writes :
                /\ SqlWrite(w)
                /\ loose' = IF call[c].tok = NoTx /\ inTx THEN loose \union {w} ELSE loose
           \/ SqlCommit /\ loose' = loose
           \/ SqlRollback /\ loose' = loose,
           UNCHANGED <<gateVars, persistVars, flush, seen, exported, silent, behind>>
    PROVE  Inv'
<1> USE DEF gateVars, persistVars
<1>1. Turn(c) /\ tx = call[c].tok /\ Busy /\ Busy' /\ ~stray
  BY DEF Inv, BatchHoldsMutex, Busy, Running, GateMatchesConnection
<1>2. BatchHoldsMutex' /\ TokenlessCalls'
  BY DEF Inv, BatchHoldsMutex, TokenlessCalls, Running, Turn
<1>3. QuietFile' /\ Rising' /\ CleanFile' /\ committed \subseteq committed'
  BY StatementKeeps DEF Inv
<1>4. FlushCovered' /\ FlushOver'
  BY <1>3, FlushSteady DEF Inv
<1>5. GateMatchesConnection'
  BY <1>1 DEF GateMatchesConnection, SqlWrite, SqlCommit, SqlRollback
<1>6. loose \subseteq loose'
  OBVIOUS
<1>7. LooseWork'
  <2>1. CASE ~inTx'
    BY <1>3, <2>1, EndsClean
  <2>2. CASE inTx'
    <3>1. PICK w \in Writes :
            /\ SqlWrite(w)
            /\ loose' = IF call[c].tok = NoTx /\ inTx THEN loose \union {w} ELSE loose
      BY <2>2 DEF SqlCommit, SqlRollback
    <3>2. inTx /\ committed' = committed /\ work' = work \union {w}
      BY <2>2, <3>1 DEF SqlWrite
    <3> QED
      BY <1>1, <3>1, <3>2 DEF Inv, LooseWork
  <2> QED
    BY <2>1, <2>2
<1>8. NoDirtyRead'
  BY <1>3, <1>6, SeenKept DEF Inv
<1>9. UnsavedIsQueued'
  BY <1>1 DEF UnsavedIsQueued
<1> QED
  BY <1>2, <1>3, <1>4, <1>5, <1>7, <1>8, <1>9 DEF Inv

\* Every body a client's call can run preserves the invariant.
LEMMA BodyInv ==
    ASSUME TypeOK, Inv, NEW c \in Clients, Body(c)
    PROVE  Inv'
<1>1. CASE RefuseToken(c)
  <2>1. ~Busy' /\ BatchHoldsMutex' /\ TokenlessCalls'
    BY <1>1, AnsweredIsIdle DEF RefuseToken, Inv
  <2>2. ~Busy
    BY <1>1, BatchIsAlone DEF RefuseToken, Inv, Busy, BatchHoldsMutex, Running
  <2> QED
    BY <1>1, <2>1, <2>2, GateOnly DEF RefuseToken
<1>2. CASE Retry(c)
  <2>1. ~Busy
    BY <1>2, BatchIsAlone DEF Retry, MustRetry, Inv, Busy, BatchHoldsMutex, Running
  <2>2. ~Busy' /\ BatchHoldsMutex' /\ TokenlessCalls'
    BY <1>2, <2>1 DEF Retry, Inv, Busy, BatchHoldsMutex, Running, TokenlessCalls
  <2> QED
    BY <1>2, <2>1, <2>2, GateOnly DEF Retry
<1>3. CASE ExecStart(c)
  <2>1. Turn(c) /\ tx = call[c].tok /\ ~stray
    BY <1>3 DEF ExecStart, Runs, Admitted
  <2>2. /\ call'[c].op = "running" /\ call'[c].tok = call[c].tok
        /\ \A d \in Clients : d # c => call'[d] = call[d] /\ ~Running(d)
        /\ UNCHANGED <<tx, chain, dbVars, persistVars, flush, ghostVars>>
    BY <1>3, <2>1, BatchIsAlone DEF ExecStart, TypeOK, Call, Inv
  <2>3. BatchHoldsMutex' /\ Busy'
    BY <2>1, <2>2 DEF BatchHoldsMutex, Running, Turn, Busy
  <2>4. TokenlessCalls'
    BY <2>2 DEF Inv, TokenlessCalls
  <2>5. GateMatchesConnection' /\ UnsavedIsQueued'
    BY <2>1, <2>2, <2>3 DEF GateMatchesConnection, UnsavedIsQueued, dbVars
  <2> QED
    BY <2>2, <2>3, <2>4, <2>5
    DEF Inv, QuietFile, LooseWork, Rising, NoDirtyRead, CleanFile, FlushCovered,
        FlushOver, dbVars, persistVars, ghostVars
<1>4. CASE StmtRead(c)
  <2>1. tx = call[c].tok /\ Busy /\ Busy'
    BY <1>4 DEF StmtRead, gateVars, Inv, BatchHoldsMutex, Busy, Running
  <2>2. BatchHoldsMutex' /\ TokenlessCalls'
    BY <1>4 DEF StmtRead, gateVars, Inv, BatchHoldsMutex, TokenlessCalls, Running, Turn
  <2>3. NoDirtyRead'
    BY <1>4, <2>1 DEF StmtRead, Inv, NoDirtyRead, LooseWork
  <2>4. GateMatchesConnection' /\ UnsavedIsQueued'
    BY <1>4, <2>1 DEF StmtRead, gateVars, Inv, GateMatchesConnection, UnsavedIsQueued
  <2>5. dirty' = FALSE => dirty = FALSE
    BY <1>4 DEF StmtRead
  <2>6. CleanFile'
    BY <1>4, <2>5 DEF StmtRead, persistVars, Inv, CleanFile, TypeOK
  <2> QED
    BY <1>4, <2>2, <2>3, <2>4, <2>6
    DEF StmtRead, Inv, QuietFile, LooseWork, Rising, FlushCovered, FlushOver,
        gateVars, persistVars
<1>5. CASE StmtWrite(c)
  BY <1>5, StatementInv DEF StmtWrite
<1>6. CASE StmtControl(c)
  <2>1. CASE SqlCommit \/ SqlRollback
    BY <1>6, <2>1, StatementInv DEF StmtControl
  <2>2. CASE ~inTx /\ inTx' = TRUE /\ UNCHANGED <<committed, work, file, stray, dirty, history>>
    <3>1. UNCHANGED <<gateVars, persistVars, flush, seen, loose, exported, silent, behind>>
      BY <1>6 DEF StmtControl
    <3>2. Busy /\ Busy'
      BY <1>6, <3>1 DEF StmtControl, gateVars, Busy, Running
    <3>3. BatchHoldsMutex' /\ TokenlessCalls'
      BY <3>1 DEF gateVars, Inv, BatchHoldsMutex, TokenlessCalls, Running, Turn
    <3>4. GateMatchesConnection' /\ UnsavedIsQueued'
      BY <2>2, <3>1, <3>2 DEF gateVars, Inv, GateMatchesConnection, UnsavedIsQueued
    <3> QED
      BY <2>2, <3>1, <3>3, <3>4
      DEF Inv, QuietFile, LooseWork, Rising, NoDirtyRead, CleanFile, FlushCovered,
          FlushOver, gateVars, persistVars
  <2> QED
    BY <1>6, <2>1, <2>2 DEF StmtControl
<1>7. CASE ExecFails(c)
  <2>1. Turn(c) /\ tx = call[c].tok /\ ~stray
    BY <1>7 DEF ExecFails, Inv, BatchHoldsMutex, GateMatchesConnection, Busy, Running
  <2>2. \/ AnswerAndClose(c) /\ ~inTx'
        \/ Answer(c) /\ (tx # NoTx => inTx')
    BY <1>7 DEF ExecFails
  <2> QED
    BY <1>7, <2>1, <2>2, ScheduledEnd DEF ExecFails
<1>8. CASE ExecReturns(c)
  <2>1. Turn(c) /\ tx = call[c].tok /\ ~stray
    BY <1>8 DEF ExecReturns, Inv, BatchHoldsMutex, GateMatchesConnection, Busy, Running
  <2>2. Answer(c) /\ (tx # NoTx => inTx')
    BY <1>8, <2>1 DEF ExecReturns, dbVars
  <2> QED
    BY <1>8, <2>1, <2>2, ScheduledEnd DEF ExecReturns
<1>9. CASE ExecRejectsBegin(c)
  <2>1. Turn(c) /\ tx = NoTx /\ inTx
    BY <1>9 DEF ExecRejectsBegin, Inv, BatchHoldsMutex
  <2>2. ~Busy' /\ BatchHoldsMutex' /\ TokenlessCalls'
    BY <1>9, <2>1, AnsweredIsIdle DEF ExecRejectsBegin, Answer, Inv
  <2>3. /\ inTx' = inTx /\ tx' = tx
        /\ UNCHANGED <<committed, work, file, dirty, persistVars, flush, ghostVars>>
    BY <1>9 DEF ExecRejectsBegin, Answer
  <2>4. GateMatchesConnection' /\ UnsavedIsQueued'
    BY <2>1, <2>2, <2>3 DEF GateMatchesConnection, UnsavedIsQueued
  <2> QED
    BY <2>2, <2>3, <2>4
    DEF Inv, QuietFile, LooseWork, Rising, NoDirtyRead, CleanFile, FlushCovered,
        FlushOver, persistVars, ghostVars
<1>10. CASE ExecRejectsEnd(c)
  <2>1. Turn(c) /\ ~inTx /\ ~stray
    BY <1>10 DEF ExecRejectsEnd, Inv, BatchHoldsMutex, GateMatchesConnection
  <2>2. ~Busy' /\ BatchHoldsMutex' /\ TokenlessCalls'
    BY <1>10, <2>1, AnsweredIsIdle DEF ExecRejectsEnd, AnswerAndClose, Inv
  <2>3. /\ tx' = NoTx
        /\ UNCHANGED <<dbVars, persistVars, flush, history, seen, loose, behind>>
        /\ silent' = (dirty' /\ ~persistQueued /\ job # "locking")
    BY <1>10 DEF ExecRejectsEnd, AnswerAndClose, CloseTx, NoSchedule
  <2>4. GateMatchesConnection' /\ UnsavedIsQueued'
    BY <2>1, <2>2, <2>3 DEF GateMatchesConnection, UnsavedIsQueued, dbVars, persistVars
  <2>5. QuietFile' /\ LooseWork'
    BY <2>1, <2>3 DEF Inv, QuietFile, LooseWork, dbVars
  <2> QED
    BY <2>2, <2>3, <2>4, <2>5
    DEF Inv, Rising, NoDirtyRead, CleanFile, FlushCovered, FlushOver, dbVars, persistVars
<1>11. CASE Begin(c)
  <2>1. Turn(c) /\ ~stray
    BY <1>11 DEF Begin, Runs, Admitted
  <2>2. ~Busy' /\ BatchHoldsMutex' /\ TokenlessCalls'
    BY <1>11, <2>1, AnsweredIsIdle DEF Begin, Inv
  <2>3. /\ inTx' /\ tx' # NoTx
        /\ UNCHANGED <<committed, work, file, stray, dirty, persistVars, flush, ghostVars>>
    BY <1>11, SqlEngineAssumption DEF Begin
  <2>4. GateMatchesConnection' /\ UnsavedIsQueued'
    BY <2>1, <2>2, <2>3 DEF GateMatchesConnection, UnsavedIsQueued
  <2>5. QuietFile' /\ LooseWork'
    BY <2>3 DEF Inv, QuietFile, LooseWork
  <2> QED
    BY <2>2, <2>3, <2>4, <2>5
    DEF Inv, Rising, NoDirtyRead, CleanFile, FlushCovered, FlushOver, persistVars, ghostVars
<1>12. CASE BeginFails(c)
  <2>1. Turn(c) /\ inTx /\ tx = NoTx
    BY <1>12 DEF BeginFails, Runs, Admitted, Inv, TokenlessCalls
  <2>2. ~Busy' /\ BatchHoldsMutex' /\ TokenlessCalls'
    BY <1>12, <2>1, AnsweredIsIdle DEF BeginFails, Answer, Inv
  <2>3. ~Busy
    BY <1>12, <2>1, BatchIsAlone DEF BeginFails, Runs, Inv, Busy, Running
  <2> QED
    BY <1>12, <2>2, <2>3, GateOnly DEF BeginFails, Answer
<1>13. CASE Commit(c)
  <2>1. Turn(c) /\ tx = call[c].tok /\ ~stray
    BY <1>13 DEF Commit, Runs, Admitted
  <2> QED
    BY <1>13, <2>1, ScheduledEnd DEF Commit, SqlCommit
<1>14. CASE CommitFails(c)
  <2>1. Turn(c)
    BY <1>14 DEF CommitFails, Runs, Admitted
  <2>2. ~Busy' /\ BatchHoldsMutex' /\ TokenlessCalls'
    BY <1>14, <2>1, AnsweredIsIdle DEF CommitFails, Answer, Inv
  <2>3. ~Busy
    BY <1>14, <2>1, BatchIsAlone DEF CommitFails, Runs, Inv, Busy, Running
  <2> QED
    BY <1>14, <2>2, <2>3, GateOnly DEF CommitFails, Answer
<1>15. CASE Rollback(c)
  <2>1. Turn(c) /\ tx = call[c].tok /\ ~stray
    BY <1>15 DEF Rollback, Runs, Admitted
  <2> QED
    BY <1>15, <2>1, ScheduledEnd DEF Rollback, SqlRollback
<1>16. CASE Snapshot(c)
  <2>1. Turn(c)
    BY <1>16 DEF Snapshot, Admitted
  <2>2. ~Busy' /\ BatchHoldsMutex' /\ TokenlessCalls'
    BY <1>16, <2>1, AnsweredIsIdle DEF Snapshot, Answer, Inv
  <2>3. ~Busy
    BY <1>16, <2>1, BatchIsAlone DEF Snapshot, Inv, Busy, Running
  <2>4. UNCHANGED <<dbVars, tx, persistVars, flush, history, seen, loose, silent, behind>>
    BY <1>16 DEF Snapshot, Answer
  <2> QED
    BY <2>2, <2>3, <2>4
    DEF Inv, GateMatchesConnection, QuietFile, LooseWork, Rising, NoDirtyRead,
        UnsavedIsQueued, CleanFile, FlushCovered, FlushOver, dbVars, persistVars
<1> QED
  BY <1>1, <1>2, <1>3, <1>4, <1>5, <1>6, <1>7, <1>8, <1>9, <1>10, <1>11,
     <1>12, <1>13, <1>14, <1>15, <1>16 DEF Body

\* What the end of a job does to one flush.
LEMMA JobEndsFlush ==
    ASSUME TypeOK, NEW stored \in BOOLEAN, JobEnds(stored), NEW f \in Flushers
    PROVE  /\ flush[f].wait \in 0..2
           /\ flush'[f].st = flush[f].st
           /\ flush'[f].target = flush[f].target
           /\ flush[f].wait = 0 => flush'[f] = flush[f]
           /\ flush[f].wait # 0 =>
                /\ flush'[f].wait = flush[f].wait - 1
                /\ flush'[f].calm = (flush[f].calm /\ stored)
BY DEF TypeOK, JobEnds, FlushState

\* It disturbs no flush that is not waiting.
LEMMA JobEndsOver ==
    ASSUME TypeOK, FlushOver, NEW stored \in BOOLEAN, JobEnds(stored)
    PROVE  FlushOver'
<1> SUFFICES ASSUME NEW f \in Flushers, flush'[f].st # "waiting"
             PROVE  flush'[f].wait = 0
  BY DEF FlushOver
<1> QED
  BY JobEndsFlush DEF FlushOver

\* Every step preserves the invariant.
LEMMA NextInv == TypeOK /\ Inv /\ [Next]_vars => Inv'
<1> SUFFICES ASSUME TypeOK, Inv, [Next]_vars PROVE Inv'
  OBVIOUS
<1>1. CASE StrayRollback
  <2>1. ~Busy /\ tx = NoTx
    BY <1>1 DEF StrayRollback, Inv, GateMatchesConnection
  <2>2. /\ UNCHANGED <<gateVars, persistVars, flush, seen, loose, behind>>
        /\ silent' = (dirty' /\ ~persistQueued /\ job # "locking")
        /\ ~inTx' /\ ~stray'
    BY <1>1 DEF StrayRollback, SqlRollback, NoSchedule
  <2>3. BatchHoldsMutex' /\ TokenlessCalls' /\ ~Busy'
    BY <2>1, <2>2 DEF gateVars, Inv, BatchHoldsMutex, TokenlessCalls, Running, Turn, Busy
  <2>4. QuietFile' /\ Rising' /\ CleanFile' /\ committed \subseteq committed'
    BY <1>1, <2>2, StatementKeeps DEF StrayRollback, Inv, persistVars
  <2>5. FlushCovered' /\ FlushOver'
    BY <2>2, <2>4, FlushSteady DEF Inv, persistVars
  <2>6. LooseWork' /\ NoDirtyRead'
    BY <2>2, <2>4, EndsClean, SeenKept DEF Inv
  <2>7. GateMatchesConnection' /\ UnsavedIsQueued'
    BY <2>1, <2>2 DEF GateMatchesConnection, UnsavedIsQueued, gateVars, persistVars
  <2> QED
    BY <2>3, <2>4, <2>5, <2>6, <2>7 DEF Inv
<1>2. CASE TimerFires
  <2>1. BatchHoldsMutex' /\ (Busy <=> Busy')
    BY <1>2, TurnKept, EntryTypes DEF TimerFires, Inv
  <2>2. TokenlessCalls'
    BY <1>2 DEF TimerFires, Inv, TokenlessCalls
  <2> QED
    BY <1>2, <2>1, <2>2, GateOnly DEF TimerFires
<1>3. CASE ExpireTx
  <2>1. ~Busy
    BY <1>3, NoBatch DEF ExpireTx, Inv
  <2>2. /\ tx' = NoTx
        /\ UNCHANGED <<call, persistVars, flush, seen, loose, behind>>
        /\ silent' = (dirty' /\ ~persistQueued /\ job # "locking")
        /\ ~inTx' /\ ~stray'
    BY <1>3 DEF ExpireTx, CloseTx, SqlRollback, NoSchedule
  <2>3. BatchHoldsMutex' /\ TokenlessCalls' /\ ~Busy'
    BY <2>1, <2>2 DEF Inv, BatchHoldsMutex, TokenlessCalls, Running, Turn, Busy
  <2>4. QuietFile' /\ Rising' /\ CleanFile' /\ committed \subseteq committed'
    BY <1>3, <2>2, StatementKeeps DEF ExpireTx, Inv, persistVars
  <2>5. FlushCovered' /\ FlushOver'
    BY <2>2, <2>4, FlushSteady DEF Inv, persistVars
  <2>6. LooseWork' /\ NoDirtyRead'
    BY <2>2, <2>4, EndsClean, SeenKept DEF Inv
  <2>7. GateMatchesConnection' /\ UnsavedIsQueued'
    BY <2>1, <2>2 DEF GateMatchesConnection, UnsavedIsQueued, persistVars
  <2> QED
    BY <2>3, <2>4, <2>5, <2>6, <2>7 DEF Inv
<1>4. CASE ExpireLate
  <2>1. ~Busy
    BY <1>4, NoBatch DEF ExpireLate, Inv
  <2>2. BatchHoldsMutex' /\ TokenlessCalls' /\ ~Busy'
    BY <1>4, <2>1 DEF ExpireLate, Inv, BatchHoldsMutex, TokenlessCalls, Running, Turn, Busy
  <2> QED
    BY <1>4, <2>1, <2>2, GateOnly DEF ExpireLate
<1>5. CASE JobStart
  <2>1. BatchHoldsMutex' /\ (Busy <=> Busy')
    BY <1>5, TurnKept, EntryTypes DEF JobStart, Inv
  <2>2. UnsavedIsQueued'
    BY <1>5 DEF JobStart, UnsavedIsQueued
  <2>3. FlushCovered'
    BY <1>5 DEF JobStart, Inv, FlushCovered, dbVars
  <2>4. TokenlessCalls' /\ GateMatchesConnection'
    BY <1>5, <2>1 DEF JobStart, Inv, TokenlessCalls, GateMatchesConnection, dbVars
  <2> QED
    BY <1>5, <2>1, <2>2, <2>3, <2>4
    DEF JobStart, Inv, QuietFile, LooseWork, Rising, NoDirtyRead, CleanFile, FlushOver,
        dbVars, ghostVars
<1>6. CASE JobSnapshot
  <2>1. ~Busy /\ file = committed
    BY <1>6, NoBatch DEF JobSnapshot, Inv, QuietFile
  <2>2. BatchHoldsMutex' /\ TokenlessCalls' /\ ~Busy'
    BY <1>6, <2>1 DEF JobSnapshot, Inv, BatchHoldsMutex, TokenlessCalls, Running, Turn, Busy
  <2>3. Rising' /\ CleanFile' /\ UnsavedIsQueued'
    BY <1>6, <2>1 DEF JobSnapshot, Inv, Rising, CleanFile, UnsavedIsQueued
  <2>4. FlushCovered'
    BY <1>6, <2>1 DEF JobSnapshot, Inv, FlushCovered
  <2>5. GateMatchesConnection'
    BY <1>6, <2>1, <2>2 DEF JobSnapshot, Inv, GateMatchesConnection
  <2> QED
    BY <1>6, <2>2, <2>3, <2>4, <2>5
    DEF JobSnapshot, Inv, QuietFile, LooseWork, NoDirtyRead, FlushOver
<1>7. CASE JobSkip
  <2>1. ~Busy /\ (tx # NoTx \/ inTx) /\ inTx
    BY <1>7, NoBatch DEF JobSkip, Inv, GateMatchesConnection
  <2>2. FlushCovered'
    <3> SUFFICES ASSUME NEW f \in Flushers, flush'[f].calm,
                        flush'[f].st \in {"waiting", "ok"}
                 PROVE  /\ flush'[f].target \subseteq committed'
                        /\ flush'[f].wait = 0 => flush'[f].target \subseteq durable'
                        /\ flush'[f].wait = 1 =>
                             \/ job' = "saving" /\ flush'[f].target \subseteq image'
                             \/ job' = "locking"
                             \/ job' = "idle" /\ persistQueued'
                        /\ flush'[f].wait = 2 => job' # "idle" /\ persistQueued'
      BY DEF FlushCovered
    <3>1. JobEnds(FALSE)
      BY <1>7 DEF JobSkip
    <3>2. CASE flush[f].wait = 0
      <4>1. flush'[f] = flush[f]
        BY <3>1, <3>2, JobEndsFlush
      <4> QED
        BY <1>7, <3>2, <4>1 DEF JobSkip, Inv, FlushCovered, Rising, dbVars
    <3>3. CASE flush[f].wait # 0
      <4>1. /\ flush[f].wait \in 0..2
            /\ flush'[f].st = flush[f].st
            /\ flush'[f].target = flush[f].target
            /\ flush'[f].wait = flush[f].wait - 1
            /\ flush'[f].calm = (flush[f].calm /\ FALSE)
        BY <3>1, <3>3, JobEndsFlush
      <4> QED
        BY <1>7, <3>3, <4>1 DEF JobSkip
    <3> QED
      BY <3>2, <3>3
  <2>3. FlushOver'
    BY <1>7, JobEndsOver DEF JobSkip, Inv
  <2>4. BatchHoldsMutex' /\ TokenlessCalls' /\ ~Busy'
    BY <1>7, <2>1 DEF JobSkip, Inv, BatchHoldsMutex, TokenlessCalls, Running, Turn, Busy
  <2>5. UnsavedIsQueued' /\ GateMatchesConnection'
    BY <1>7, <2>1, <2>4 DEF JobSkip, Inv, UnsavedIsQueued, GateMatchesConnection, dbVars
  <2> QED
    BY <1>7, <2>2, <2>3, <2>4, <2>5
    DEF JobSkip, Inv, QuietFile, LooseWork, Rising, NoDirtyRead, CleanFile, dbVars, ghostVars
<1>8. CASE SaveSucceeds
  <2>1. Rising'
    BY <1>8 DEF SaveSucceeds, Inv, Rising, dbVars
  <2>2. CleanFile'
    BY <1>8 DEF SaveSucceeds, Inv, CleanFile, dbVars
  <2>3. FlushCovered'
    <3> SUFFICES ASSUME NEW f \in Flushers, flush'[f].calm,
                        flush'[f].st \in {"waiting", "ok"}
                 PROVE  /\ flush'[f].target \subseteq committed'
                        /\ flush'[f].wait = 0 => flush'[f].target \subseteq durable'
                        /\ flush'[f].wait = 1 =>
                             \/ job' = "saving" /\ flush'[f].target \subseteq image'
                             \/ job' = "locking"
                             \/ job' = "idle" /\ persistQueued'
                        /\ flush'[f].wait = 2 => job' # "idle" /\ persistQueued'
      BY DEF FlushCovered
    <3>1. JobEnds(TRUE)
      BY <1>8 DEF SaveSucceeds
    <3>2. CASE flush[f].wait = 0
      <4>1. flush'[f] = flush[f]
        BY <3>1, <3>2, JobEndsFlush
      <4> QED
        BY <1>8, <3>2, <4>1 DEF SaveSucceeds, Inv, FlushCovered, Rising, dbVars
    <3>3. CASE flush[f].wait # 0
      <4>1. /\ flush[f].wait \in 0..2
            /\ flush'[f].st = flush[f].st
            /\ flush'[f].target = flush[f].target
            /\ flush'[f].wait = flush[f].wait - 1
            /\ flush'[f].calm = (flush[f].calm /\ TRUE)
        BY <3>1, <3>3, JobEndsFlush
      <4>2. flush[f].calm
        BY <4>1
      <4>3. flush[f].wait = 1 \/ flush[f].wait = 2
        BY <3>3, <4>1
      <4> QED
        BY <1>8, <4>1, <4>2, <4>3 DEF SaveSucceeds, Inv, FlushCovered, FlushOver, dbVars
    <3> QED
      BY <3>2, <3>3
  <2>4. FlushOver'
    BY <1>8, JobEndsOver DEF SaveSucceeds, Inv
  <2>5. BatchHoldsMutex' /\ TokenlessCalls' /\ (Busy <=> Busy')
    BY <1>8 DEF SaveSucceeds, gateVars, Inv, BatchHoldsMutex, TokenlessCalls, Running, Turn, Busy
  <2>6. UnsavedIsQueued' /\ GateMatchesConnection'
    BY <1>8, <2>5 DEF SaveSucceeds, Inv, UnsavedIsQueued, GateMatchesConnection, dbVars, gateVars
  <2> QED
    BY <1>8, <2>1, <2>2, <2>3, <2>4, <2>5, <2>6
    DEF SaveSucceeds, Inv, QuietFile, LooseWork, NoDirtyRead, dbVars, gateVars
<1>9. CASE SaveFails
  <2>1. Rising'
    BY <1>9 DEF SaveFails, Inv, Rising, dbVars
  <2>2. CleanFile'
    BY <1>9 DEF SaveFails, Inv, CleanFile, dbVars
  <2>3. FlushCovered'
    <3> SUFFICES ASSUME NEW f \in Flushers, flush'[f].calm,
                        flush'[f].st \in {"waiting", "ok"}
                 PROVE  /\ flush'[f].target \subseteq committed'
                        /\ flush'[f].wait = 0 => flush'[f].target \subseteq durable'
                        /\ flush'[f].wait = 1 =>
                             \/ job' = "saving" /\ flush'[f].target \subseteq image'
                             \/ job' = "locking"
                             \/ job' = "idle" /\ persistQueued'
                        /\ flush'[f].wait = 2 => job' # "idle" /\ persistQueued'
      BY DEF FlushCovered
    <3>1. JobEnds(FALSE)
      BY <1>9 DEF SaveFails
    <3>2. CASE flush[f].wait = 0
      <4>1. flush'[f] = flush[f]
        BY <3>1, <3>2, JobEndsFlush
      <4> QED
        BY <1>9, <3>2, <4>1 DEF SaveFails, Inv, FlushCovered, Rising, dbVars
    <3>3. CASE flush[f].wait # 0
      <4>1. /\ flush[f].wait \in 0..2
            /\ flush'[f].st = flush[f].st
            /\ flush'[f].target = flush[f].target
            /\ flush'[f].wait = flush[f].wait - 1
            /\ flush'[f].calm = (flush[f].calm /\ FALSE)
        BY <3>1, <3>3, JobEndsFlush
      <4> QED
        BY <1>9, <3>3, <4>1 DEF SaveFails
    <3> QED
      BY <3>2, <3>3
  <2>4. FlushOver'
    BY <1>9, JobEndsOver DEF SaveFails, Inv
  <2>5. BatchHoldsMutex' /\ TokenlessCalls' /\ (Busy <=> Busy')
    BY <1>9 DEF SaveFails, gateVars, Inv, BatchHoldsMutex, TokenlessCalls, Running, Turn, Busy
  <2>6. UnsavedIsQueued' /\ GateMatchesConnection'
    BY <1>9, <2>5 DEF SaveFails, Inv, UnsavedIsQueued, GateMatchesConnection, dbVars, gateVars
  <2> QED
    BY <1>9, <2>1, <2>2, <2>3, <2>4, <2>5, <2>6
    DEF SaveFails, Inv, QuietFile, LooseWork, NoDirtyRead, dbVars, gateVars
<1>10. ASSUME NEW c \in Clients, NEW op \in Ops, NEW tok \in Tokens \union {NoTx},
              Request(c, op, tok)
       PROVE  Inv'
  <2>1. /\ call'[c] = [op |-> op, tok |-> tok]
        /\ \A d \in Clients : d # c => call'[d] = call[d]
        /\ call[c] = NoCall /\ op # "running"
    BY <1>10, SqlEngineAssumption DEF Request, TypeOK, AllOps
  <2>2. TokenlessCalls'
    BY <1>10, <2>1 DEF Request, Inv, TokenlessCalls, TokenlessOps, TokenOps
  <2>3. \A d \in Clients : Running(d) <=> Running(d)'
    BY <2>1 DEF Running, NoCall
  <2>4. \A d \in Clients : Running(d) => call'[d] = call[d]
    BY <2>1 DEF Running, NoCall
  <2>5. \A d \in Clients : Turn(d) => Turn(d)'
    <3> SUFFICES ASSUME NEW d \in Clients, Turn(d) PROVE Turn(d)'
      OBVIOUS
    <3>1. chain \in Seq(Entry) /\ chain # <<>> /\ [who |-> c, tok |-> tok] \in Entry
      BY EntryTypes DEF TypeOK, Turn
    <3>2. chain' = chain \/ chain' = Append(chain, [who |-> c, tok |-> tok])
      BY <1>10, Zenon DEF Request
    <3>3. chain' # <<>> /\ Head(chain') = Head(chain)
      BY <3>1, <3>2
    <3> QED
      BY <3>3 DEF Turn
  <2>6. BatchHoldsMutex' /\ (Busy <=> Busy')
    BY <1>10, <2>3, <2>4, <2>5 DEF Request, Inv, BatchHoldsMutex, Busy, Running
  <2> QED
    BY <1>10, <2>2, <2>6, GateOnly DEF Request
<1>11. ASSUME NEW c \in Clients, Body(c) PROVE Inv'
  BY <1>11, BodyInv
<1>12. ASSUME NEW f \in Flushers, Flush(f) PROVE Inv'
  <2>1. FlushCovered'
    <3>1. /\ flush'[f] = [st |-> "waiting", wait |-> JobsAhead,
                          target |-> IF Busy THEN {} ELSE committed,
                          calm |-> ~inTx /\ ~silent /\ ~behind]
          /\ \A g \in Flushers : g # f => flush'[g] = flush[g]
          /\ UNCHANGED <<committed, dbVars, persistVars>>
      BY <1>12 DEF Flush, TypeOK, dbVars
    <3>2. ASSUME ~inTx, ~silent, ~behind, ~Busy
          PROVE  /\ JobsAhead = 0 => committed = durable
                 /\ JobsAhead = 1 =>
                      \/ job = "saving" /\ image = committed
                      \/ job = "locking"
                      \/ job = "idle" /\ persistQueued
      <4>1. dirty => persistQueued \/ job = "locking"
        BY <3>2 DEF Inv, UnsavedIsQueued
      <4>2. ~dirty => /\ job = "saving" => image = committed
                      /\ job # "saving" => durable = committed
        BY <3>2 DEF Inv, CleanFile
      <4>3. job \in {"idle", "locking", "saving"}
        BY DEF TypeOK
      <4>4. JobsAhead = 0 => job = "idle" /\ ~persistQueued
        BY DEF JobsAhead
      <4>5. JobsAhead = 1 => (persistQueued <=> job = "idle")
        BY DEF JobsAhead
      <4>6. CASE dirty
        BY <4>1, <4>3, <4>4, <4>5, <4>6
      <4>7. CASE ~dirty
        BY <4>2, <4>3, <4>4, <4>5, <4>7
      <4> QED
        BY <4>6, <4>7
    <3>3. /\ JobsAhead = 1 => job # "idle" \/ persistQueued
          /\ JobsAhead = 2 => job # "idle" /\ persistQueued
      BY DEF JobsAhead, TypeOK
    <3> QED
      <4> SUFFICES ASSUME NEW g \in Flushers, flush'[g].calm,
                          flush'[g].st \in {"waiting", "ok"}
                   PROVE  /\ flush'[g].target \subseteq committed'
                          /\ flush'[g].wait = 0 => flush'[g].target \subseteq durable'
                          /\ flush'[g].wait = 1 =>
                               \/ job' = "saving" /\ flush'[g].target \subseteq image'
                               \/ job' = "locking"
                               \/ job' = "idle" /\ persistQueued'
                          /\ flush'[g].wait = 2 => job' # "idle" /\ persistQueued'
        BY DEF FlushCovered
      <4>1. CASE g # f
        BY <3>1, <4>1 DEF Inv, FlushCovered, persistVars
      <4>2. CASE g = f /\ Busy
        <5>1. flush'[g].target = {} /\ flush'[g].wait = JobsAhead
          BY <3>1, <4>2
        <5> QED
          BY <3>1, <3>3, <5>1 DEF persistVars, TypeOK
      <4>3. CASE g = f /\ ~Busy
        <5>1. flush'[g].target = committed /\ flush'[g].wait = JobsAhead
          BY <3>1, <4>3
        <5>2. ~inTx /\ ~silent /\ ~behind
          <6>1. flush'[f].calm = (~inTx /\ ~silent /\ ~behind)
            BY <3>1
          <6>2. flush'[f].calm
            BY <4>3
          <6> QED
            BY <6>1, <6>2, Zenon
        <5> QED
          BY <3>1, <3>2, <3>3, <4>3, <5>1, <5>2 DEF persistVars
      <4> QED
        BY <4>1, <4>2, <4>3
  <2>2. FlushOver'
    BY <1>12 DEF Flush, Inv, FlushOver, FlushState, TypeOK
  <2>3. BatchHoldsMutex' /\ TokenlessCalls' /\ (Busy <=> Busy')
    BY <1>12 DEF Flush, gateVars, Inv, BatchHoldsMutex, TokenlessCalls, Running, Turn, Busy
  <2> QED
    BY <1>12, <2>1, <2>2, <2>3
    DEF Flush, Inv, GateMatchesConnection, QuietFile, LooseWork, Rising, NoDirtyRead,
        UnsavedIsQueued, CleanFile, dbVars, gateVars, persistVars, ghostVars
<1>13. ASSUME NEW f \in Flushers, FlushReturns(f) PROVE Inv'
  <2>1. FlushCovered'
    BY <1>13 DEF FlushReturns, Inv, FlushCovered, FlushState, TypeOK, dbVars
  <2>2. FlushOver'
    BY <1>13 DEF FlushReturns, Inv, FlushOver, FlushState, TypeOK
  <2>3. BatchHoldsMutex' /\ TokenlessCalls' /\ (Busy <=> Busy')
    BY <1>13 DEF FlushReturns, gateVars, Inv, BatchHoldsMutex, TokenlessCalls, Running, Turn, Busy
  <2> QED
    BY <1>13, <2>1, <2>2, <2>3
    DEF FlushReturns, Inv, GateMatchesConnection, QuietFile, LooseWork, Rising, NoDirtyRead,
        UnsavedIsQueued, CleanFile, dbVars, gateVars, ghostVars
<1>14. CASE UNCHANGED vars
  <2>1. BatchHoldsMutex' /\ TokenlessCalls' /\ (Busy <=> Busy')
    BY <1>14 DEF vars, gateVars, Inv, BatchHoldsMutex, TokenlessCalls, Running, Turn, Busy
  <2> QED
    BY <1>14, <2>1, GateOnly DEF vars, gateVars
<1> QED
  BY <1>1, <1>2, <1>3, <1>4, <1>5, <1>6, <1>7, <1>8, <1>9, <1>10, <1>11, <1>12, <1>13, <1>14 DEF Next

(***************************************************************************)
(* Theorems                                                                *)
(***************************************************************************)

\* The types and the inductive invariant hold in every reachable state.
LEMMA Invariance == Spec => [](TypeOK /\ Inv)
<1>1. Init => TypeOK /\ Inv
  BY InitTypes, InitInv
<1>2. TypeOK /\ Inv /\ [Next]_vars => (TypeOK /\ Inv)'
  BY NextTypes, NextInv DEF Inv
<1> QED
  BY <1>1, <1>2, PTL DEF Spec

\* Every variable of the SQL tier keeps its type: in particular the count of
\* jobs a flush still waits for never drops below zero.
THEOREM TypeCorrect == Spec => []TypeOK
BY Invariance, PTL

\* The transaction the gate holds is open in SQLite, on every path that ends
\* one or the other (closeTx, reconcileTx, enforceTxDiscipline, expireTx).
THEOREM GateAgrees == Spec => []GateMatchesConnection
<1>1. Inv => GateMatchesConnection
  BY DEF Inv
<1> QED
  BY <1>1, Invariance, PTL

\* A statement without a token never observes an uncommitted change of an API
\* transaction (gated).
THEOREM Isolation == Spec => []NoDirtyRead
<1>1. Inv => NoDirtyRead
  BY DEF Inv
<1> QED
  BY <1>1, Invariance, PTL

\* Whatever options.persist is handed is a committed state (schedulePersist).
THEOREM SavesAreCommitted == Spec => []PersistedWasCommitted
<1>1. Inv => PersistedWasCommitted
  BY DEF Inv, Rising, PersistedWasCommitted
<1> QED
  BY <1>1, Invariance, PTL

\* Outside the paths that skip schedulePersist, no committed change is left
\* without a job to store it.
THEOREM NothingForgotten == Spec => []UnsavedIsQueued
<1>1. Inv => UnsavedIsQueued
  BY DEF Inv
<1> QED
  BY <1>1, Invariance, PTL

\* A database that is not dirty is stored, unless the last save failed.
THEOREM CleanIsDurable == Spec => []CleanMeansDurable
<1>1. Inv => CleanMeansDurable
  BY DEF Inv, CleanFile, CleanMeansDurable
<1> QED
  BY <1>1, Invariance, PTL

\* A calm flush() that resolves has stored what was committed at its call.
THEOREM FlushIsHonest == Spec => []CalmFlushDrains
<1>1. Inv => CalmFlushDrains
  BY DEF Inv, FlushCovered, FlushOver, CalmFlushDrains
<1> QED
  BY <1>1, Invariance, PTL

\* A step of the engine is a step of DurableStore, or changes nothing of it.
LEMMA StoreStep == TypeOK /\ Inv /\ [Next]_vars => [Store!Next]_(Store!vars)
<1> SUFFICES ASSUME TypeOK, Inv, [Next]_vars
             PROVE  Store!Next \/ UNCHANGED <<committed, durable, history>>
  BY DEF Store!vars
<1> USE DEF dbVars, gateVars, persistVars, ghostVars
<1>1. ASSUME NEW w \in Writes, SqlWrite(w), UNCHANGED durable
      PROVE  Store!Next \/ UNCHANGED <<committed, durable, history>>
  BY <1>1 DEF SqlWrite, Store!Next, Store!Advance, Inv, QuietFile
<1>2. ASSUME SqlCommit, UNCHANGED durable PROVE Store!Next
  BY <1>2 DEF SqlCommit, Store!Next, Store!Advance, Inv, QuietFile
<1>3. ASSUME SaveSucceeds PROVE Store!Next
  BY <1>3 DEF SaveSucceeds, Store!Next, Store!Save, Inv, Rising
<1>4. ASSUME NEW c \in Clients, Body(c)
      PROVE  Store!Next \/ UNCHANGED <<committed, durable, history>>
  <2>1. CASE StmtWrite(c)
    BY <1>1, <2>1 DEF StmtWrite
  <2>2. CASE StmtControl(c)
    BY <1>2, <2>2 DEF StmtControl, SqlRollback
  <2>3. CASE Commit(c)
    BY <1>2, <2>3 DEF Commit, SchedulePersist
  <2>4. CASE \/ RefuseToken(c) \/ Retry(c) \/ ExecStart(c) \/ StmtRead(c) \/ ExecFails(c)
             \/ ExecReturns(c) \/ ExecRejectsBegin(c) \/ ExecRejectsEnd(c) \/ Begin(c)
             \/ BeginFails(c) \/ CommitFails(c) \/ Rollback(c) \/ Snapshot(c)
    BY <2>4 DEF RefuseToken, Retry, ExecStart, StmtRead, ExecFails, ExecReturns,
                ExecRejectsBegin, ExecRejectsEnd, Begin, BeginFails, CommitFails,
                Rollback, Snapshot, SqlRollback, SchedulePersist, NoSchedule
  <2> QED
    BY <1>4, <2>1, <2>2, <2>3, <2>4 DEF Body
<1>5. ASSUME \/ StrayRollback \/ TimerFires \/ ExpireTx \/ ExpireLate \/ JobStart
             \/ JobSnapshot \/ JobSkip \/ SaveFails
             \/ \E f \in Flushers : Flush(f) \/ FlushReturns(f)
             \/ \E c \in Clients : \E op \in Ops, tok \in Tokens \union {NoTx} :
                  Request(c, op, tok)
             \/ UNCHANGED vars
      PROVE  UNCHANGED <<committed, durable, history>>
  BY <1>5 DEF StrayRollback, TimerFires, ExpireTx, ExpireLate, JobStart, JobSnapshot, JobSkip,
              SaveFails, Flush, FlushReturns, Request, SqlRollback, NoSchedule, vars
<1> QED
  BY <1>3, <1>4, <1>5 DEF Next

\* The SQL tier implements DurableStore: transactions take effect whole and
\* what is stored moves forward through committed states.
THEOREM Refinement == Spec => ImplementsStore
<1>1. Init => Store!Init
  BY DEF Init, Store!Init
<1> QED
  BY <1>1, StoreStep, Invariance, PTL DEF Spec, ImplementsStore, Store!Spec

\* The file holds the committed state, and of an open transaction what spilled.
FileBetween == committed \subseteq file /\ file \subseteq work

LEMMA CleanSnapshots == TypeOK /\ Inv /\ (FileBetween /\ SnapshotIsClean) /\ [Next]_vars
                          => (FileBetween /\ SnapshotIsClean)'
<1> SUFFICES ASSUME TypeOK, Inv, FileBetween, SnapshotIsClean, [Next]_vars
             PROVE  FileBetween' /\ SnapshotIsClean'
  OBVIOUS
<1> USE DEF dbVars, gateVars, persistVars, ghostVars
<1>1. QuietFile
  BY DEF Inv
<1>2. ASSUME UNCHANGED <<committed, work, file, history, loose, exported>>
      PROVE  FileBetween' /\ SnapshotIsClean'
  BY <1>2 DEF FileBetween, SnapshotIsClean
<1>3. ASSUME (\E w \in Writes : SqlWrite(w)) \/ SqlCommit \/ SqlRollback,
             loose \subseteq loose', UNCHANGED exported
      PROVE  FileBetween' /\ SnapshotIsClean'
  <2>1. FileBetween'
    BY <1>1, <1>3 DEF SqlWrite, SqlCommit, SqlRollback, FileBetween, QuietFile
  <2>2. history \subseteq history'
    BY <1>3 DEF SqlWrite, SqlCommit, SqlRollback
  <2> QED
    BY <1>3, <2>1, <2>2 DEF SnapshotIsClean
<1>4. ASSUME NEW c \in Clients, Body(c)
      PROVE  FileBetween' /\ SnapshotIsClean'
  <2>1. CASE Snapshot(c)
    <3>1. tx = NoTx
      BY <2>1 DEF Snapshot, Admitted, Inv, TokenlessCalls
    <3>2. committed \in history /\ work \subseteq committed \union loose
      BY <3>1 DEF Inv, Rising, LooseWork
    <3>3. UNCHANGED <<committed, work, file, history, loose>> /\ exported' = file
      BY <2>1 DEF Snapshot
    <3> QED
      BY <3>2, <3>3 DEF FileBetween, SnapshotIsClean
  <2>2. CASE StmtWrite(c)
    <3>1. PICK w \in Writes :
            /\ SqlWrite(w)
            /\ loose' = IF call[c].tok = NoTx /\ inTx THEN loose \union {w} ELSE loose
      BY <2>2 DEF StmtWrite
    <3> QED
      BY <1>3, <2>2, <3>1 DEF StmtWrite
  <2>3. CASE StmtControl(c) \/ ExecFails(c) \/ Commit(c) \/ Rollback(c)
    BY <1>2, <1>3, <2>3 DEF StmtControl, ExecFails, Commit, Rollback
  <2>4. CASE \/ RefuseToken(c) \/ Retry(c) \/ ExecStart(c) \/ StmtRead(c)
             \/ ExecReturns(c) \/ ExecRejectsBegin(c) \/ ExecRejectsEnd(c) \/ Begin(c)
             \/ BeginFails(c) \/ CommitFails(c)
    BY <1>2, <2>4 DEF RefuseToken, Retry, ExecStart, StmtRead, ExecReturns,
                      ExecRejectsBegin, ExecRejectsEnd, Begin, BeginFails, CommitFails
  <2> QED
    BY <1>4, <2>1, <2>2, <2>3, <2>4 DEF Body
<1>5. CASE StrayRollback \/ ExpireTx
  BY <1>3, <1>5 DEF StrayRollback, ExpireTx
<1>6. CASE \/ TimerFires \/ ExpireLate \/ JobStart \/ JobSnapshot \/ JobSkip
           \/ SaveSucceeds \/ SaveFails
           \/ \E f \in Flushers : Flush(f) \/ FlushReturns(f)
           \/ \E c \in Clients : \E op \in Ops, tok \in Tokens \union {NoTx} : Request(c, op, tok)
           \/ UNCHANGED vars
  BY <1>2, <1>6 DEF TimerFires, ExpireLate, JobStart, JobSnapshot, JobSkip, SaveSucceeds,
                    SaveFails, Flush, FlushReturns, Request, vars
<1> QED
  BY <1>4, <1>5, <1>6 DEF Next

\* What snapshot() copies is a committed state, and at most changes of manual
\* BEGIN text on top of it: never those of an API transaction.
THEOREM SnapshotsAreClean == Spec => []SnapshotIsClean
<1>1. Init => FileBetween /\ SnapshotIsClean
  BY DEF Init, FileBetween, SnapshotIsClean
<1> QED
  BY <1>1, CleanSnapshots, Invariance, PTL DEF Spec
=============================================================================

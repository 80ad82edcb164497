----------------------------- MODULE SqlEngine -----------------------------
(***************************************************************************)
(* The SQL tier of the reader (packages/poid-host/src/sql-engine.ts), for  *)
(* one open scope: the transaction gate, the statement mutex, the idle     *)
(* timer and the write-behind persistence of WaSqliteEngine.               *)
(*                                                                         *)
(* JavaScript is single-threaded, so a step is what runs between two       *)
(* awaits: a call entering the gate, an entry of the mutex getting its     *)
(* turn, a statement of a batch, a timer firing, a persist job moving on.  *)
(* The body an entry runs under the mutex has the connection to itself;    *)
(* only an exec, whose text may hold many statements, takes several steps. *)
(***************************************************************************)
EXTENDS Naturals, Sequences

CONSTANTS
    Clients,   \* concurrent callers: each has at most one call under way
    Tokens,    \* transaction ids; a fresh one is one no call refers to
    Writes,    \* the changes SQL text may make to the database
    Flushers,  \* callers of flush()
    Ops,       \* the operations the application uses, of AllOps
    Texts,     \* the statements its SQL text holds, of AllTexts
    NoTx       \* "no transaction": state.tx = null, or a call without a token

\* The other two users of the mutex besides the clients' calls.
PersistJob == "persistJob"
IdleTimer  == "idleTimer"

AllOps   == {"exec", "begin", "commit", "rollback", "snapshot"}
AllTexts == {"write", "BEGIN", "COMMIT", "ROLLBACK"}

ASSUME SqlEngineAssumption ==
    /\ NoTx \notin Tokens
    /\ PersistJob \notin Clients
    /\ IdleTimer \notin Clients
    /\ Ops \subseteq AllOps
    /\ Texts \subseteq AllTexts

VARIABLES
    \* The SQLite connection (external) and the scope's private VFS.
    committed,      \* the changes of the last committed state
    work,           \* the changes the connection sees, uncommitted ones too
    file,           \* the changes in the VFS file, spilled pages included
    inTx,           \* get_autocommit(db) = 0
    stray,          \* enforceTxDiscipline's ROLLBACK, issued but not awaited
    dirty,          \* vfs.writes # persistedWrites
    \* ScopeState.
    tx,             \* the open transaction's id, or NoTx
    timer,          \* its idle timer is armed
    chain,          \* the entries waiting for the mutex, the next one first
    waiters,        \* the calls awaiting tx.closed, in the order they did
    call,           \* the call each client has under way
    \* Persistence.
    persistQueued,  \* a job of this scope has not started yet
    job,            \* the job that has: idle, locking the scope, or saving
    image,          \* the bytes it hands to options.persist
    durable,        \* what options.persist last stored
    persistFailure,
    flush,          \* the flush() each flusher has under way, or its outcome
    \* History, read by no guard.
    history,        \* every committed state there has been
    seen,           \* changes a statement without a token has read
    loose,          \* changes such statements made inside a manual BEGIN
    exported,       \* what snapshot() last returned
    silent,         \* a transaction ended without schedulePersist since then
    behind          \* the last save failed

dbVars      == <<committed, work, file, inTx, stray, dirty>>
gateVars    == <<tx, timer, chain, waiters, call>>
persistVars == <<persistQueued, job, image, durable, persistFailure>>
ghostVars   == <<history, seen, loose, exported, silent, behind>>
vars        == <<dbVars, gateVars, persistVars, flush, ghostVars>>

(***************************************************************************)
(* Types                                                                   *)
(***************************************************************************)


\* begin and snapshot never carry a token, commit and rollback always do.
TokenlessOps == {"exec", "begin", "snapshot"}
TokenOps     == {"exec", "commit", "rollback"}

NoCall == [op |-> "none", tok |-> NoTx]
Call   == [op : Ops \union {"none", "running"}, tok : Tokens \union {NoTx}]
Entry  == [who : Clients \union {PersistJob, IdleTimer}, tok : Tokens \union {NoTx}]

FlushState == [st : {"idle", "waiting", "ok", "failed"},
               wait : 0..2,             \* jobs still ahead of the captured tail
               target : SUBSET Writes,  \* what was committed at the call
               calm : BOOLEAN]          \* no job skipped or failed, then or since

TypeOK ==
    /\ committed \in SUBSET Writes
    /\ work \in SUBSET Writes
    /\ file \in SUBSET Writes
    /\ inTx \in BOOLEAN
    /\ stray \in BOOLEAN
    /\ dirty \in BOOLEAN
    /\ tx \in Tokens \union {NoTx}
    /\ timer \in BOOLEAN
    /\ chain \in Seq(Entry)
    /\ waiters \in Seq(Entry)
    /\ call \in [Clients -> Call]
    /\ persistQueued \in BOOLEAN
    /\ job \in {"idle", "locking", "saving"}
    /\ image \in SUBSET Writes
    /\ durable \in SUBSET Writes
    /\ persistFailure \in BOOLEAN
    /\ flush \in [Flushers -> FlushState]
    /\ history \in SUBSET (SUBSET Writes)
    /\ seen \in SUBSET Writes
    /\ loose \in SUBSET Writes
    /\ exported \in SUBSET Writes
    /\ silent \in BOOLEAN
    /\ behind \in BOOLEAN

\* A scope openScope has just opened on the bytes it was loaded with.
Init ==
    /\ committed = {} /\ work = {} /\ file = {}
    /\ inTx = FALSE /\ stray = FALSE /\ dirty = FALSE
    /\ tx = NoTx /\ timer = FALSE /\ chain = <<>> /\ waiters = <<>>
    /\ call = [c \in Clients |-> NoCall]
    /\ persistQueued = FALSE /\ job = "idle" /\ image = {} /\ durable = {}
    /\ persistFailure = FALSE
    /\ flush = [f \in Flushers |->
                  [st |-> "idle", wait |-> 0, target |-> {}, calm |-> TRUE]]
    /\ history = {{}} /\ seen = {} /\ loose = {} /\ exported = {}
    /\ silent = FALSE /\ behind = FALSE

(***************************************************************************)
(* What a statement does to the connection and to the VFS file.            *)
(***************************************************************************)

\* Statement writes change w: at once outside a transaction; inside one the
\* pages may or may not be spilled to the file before the commit.
SqlWrite(w) ==
    /\ work' = work \union {w}
    /\ \/ /\ ~inTx
          /\ committed' = work' /\ file' = work' /\ dirty' = TRUE
          /\ history' = history \union {work'}
       \/ /\ inTx
          /\ \/ file' = file /\ dirty' = dirty
             \/ file' = work' /\ dirty' = TRUE
          /\ UNCHANGED <<committed, history>>
    /\ UNCHANGED <<inTx, stray>>

SqlCommit ==
    /\ inTx' = FALSE
    /\ committed' = work
    /\ file' = work
    /\ dirty' = (dirty \/ file # work)
    /\ history' = history \union {work}
    /\ UNCHANGED <<work, stray>>

SqlRollback ==
    /\ work' = committed
    /\ file' = committed
    /\ dirty' = (dirty \/ file # committed)
    /\ inTx' = FALSE
    /\ stray' = FALSE
    /\ UNCHANGED <<committed, history>>

\* schedulePersist: at most one job pending, only for a changed database and
\* only outside a transaction.
SchedulePersist ==
    /\ persistQueued' = (persistQueued \/ (dirty' /\ ~inTx'))
    /\ silent' = (silent /\ ~persistQueued')
    /\ UNCHANGED <<job, image, durable, persistFailure>>

\* A path that ends a transaction and never reaches schedulePersist.
NoSchedule ==
    /\ silent' = (dirty' /\ ~persistQueued /\ job # "locking")
    /\ UNCHANGED persistVars

(***************************************************************************)
(* The gate                                                                *)
(***************************************************************************)

CallEntry(c) == [who |-> c, tok |-> call[c].tok]

Turn(who) == chain # <<>> /\ Head(chain).who = who

\* A batch of SQL text is under way.
Busy == \E c \in Clients : call[c].op = "running"

\* A begin slipped in while the call waited for the mutex.
MustRetry(c) ==
    Turn(c) /\ call[c].op # "running" /\ call[c].tok = NoTx /\ tx # NoTx

\* Calls arrive as messages, in a macrotask.  An entry that finds a
\* transaction open at its turn goes back to waiting in the microtasks that
\* follow the begin, so no call arrives between the two.
Settled == ~ \E c \in Clients : MustRetry(c)

\* A call reaches gated().  With a token, or while no transaction is open, it
\* joins the mutex; otherwise it awaits the open transaction's end.
Request(c, op, tok) ==
    /\ call[c] = NoCall
    /\ Settled
    /\ op \in (IF tok = NoTx THEN TokenlessOps ELSE TokenOps)
    /\ call' = [call EXCEPT ![c] = [op |-> op, tok |-> tok]]
    /\ LET entry == [who |-> c, tok |-> tok] IN
         IF tok # NoTx \/ tx = NoTx
         THEN chain' = Append(chain, entry) /\ UNCHANGED waiters
         ELSE waiters' = Append(waiters, entry) /\ UNCHANGED chain
    /\ UNCHANGED <<dbVars, tx, timer, persistVars, flush, ghostVars>>

\* The mutex's turn of a call that may run: its token is the open
\* transaction's, or it has none and no transaction is open.  Statements on
\* the connection queue behind a ROLLBACK that was not awaited.
Admitted(c) == Turn(c) /\ tx = call[c].tok
Runs(c, op) == Admitted(c) /\ ~stray /\ call[c].op = op

\* touchTx: the idle timer of an open transaction is armed anew.
TouchTx == timer' = (tx # NoTx)

\* The call is answered and the mutex released.
Answer(c) ==
    /\ call' = [call EXCEPT ![c] = NoCall]
    /\ chain' = Tail(chain)
    /\ UNCHANGED <<tx, waiters>>

\* Mutant of CloseTx: tx.close() is forgotten, so tx.closed never resolves.
CloseTxNoWake ==
    /\ tx' = NoTx
    /\ timer' = FALSE
    /\ chain' = Tail(chain)
    /\ UNCHANGED waiters

\* closeTx, in the body at the head of the mutex: the timer is cleared and
\* the calls awaiting tx.closed join the mutex in the order they waited.
CloseTx ==
    /\ tx' = NoTx
    /\ timer' = FALSE
    /\ chain' = Tail(chain) \o waiters
    /\ waiters' = <<>>

AnswerAndClose(c) ==
    /\ call' = [call EXCEPT ![c] = NoCall]
    /\ CloseTx

\* No such transaction: it ended, or never was.
RefuseToken(c) ==
    /\ Turn(c) /\ call[c].tok # NoTx /\ tx # call[c].tok
    /\ call' = [call EXCEPT ![c] = NoCall]
    /\ chain' = Tail(chain)
    /\ UNCHANGED <<dbVars, tx, timer, waiters, persistVars, flush, ghostVars>>

\* RETRY: the call goes back to awaiting the end of the transaction.
Retry(c) ==
    /\ MustRetry(c)
    /\ chain' = Tail(chain)
    /\ waiters' = Append(waiters, CallEntry(c))
    /\ UNCHANGED <<dbVars, tx, timer, call, persistVars, flush, ghostVars>>

(***************************************************************************)
(* exec: the statements of the text, one step each, and then the verdict.  *)
(***************************************************************************)

ExecStart(c) ==
    /\ Runs(c, "exec")
    /\ call' = [call EXCEPT ![c].op = "running"]
    /\ TouchTx
    /\ UNCHANGED <<dbVars, tx, chain, waiters, persistVars, flush, ghostVars>>

Running(c) == call[c].op = "running"

\* A statement that returns rows.  It may spill a temporary file, whose
\* writes vfs.writes counts as well.
StmtRead(c) ==
    /\ Running(c)
    /\ seen' = IF call[c].tok = NoTx THEN seen \union work ELSE seen
    /\ dirty' \in {dirty, TRUE}
    /\ UNCHANGED <<committed, work, file, inTx, stray, gateVars, persistVars, flush,
                   history, loose, exported, silent, behind>>

StmtWrite(c) ==
    /\ Running(c) /\ "write" \in Texts
    /\ \E w \in Writes :
         /\ SqlWrite(w)
         /\ loose' = IF call[c].tok = NoTx /\ inTx THEN loose \union {w} ELSE loose
    /\ UNCHANGED <<gateVars, persistVars, flush, seen, exported, silent, behind>>

\* Transaction control in the text.  SQLite refuses BEGIN inside a transaction,
\* COMMIT and ROLLBACK outside one: that statement fails the batch.
StmtControl(c) ==
    /\ Running(c)
    /\ \/ /\ "BEGIN" \in Texts /\ ~inTx
          /\ inTx' = TRUE
          /\ UNCHANGED <<committed, work, file, stray, dirty, history>>
       \/ "COMMIT" \in Texts /\ inTx /\ SqlCommit
       \/ "ROLLBACK" \in Texts /\ inTx /\ SqlRollback
    /\ UNCHANGED <<gateVars, persistVars, flush, seen, loose, exported, silent, behind>>

\* Mutant of ExecFails: reconcileTx is forgotten on the error path.
ExecFailsNoReconcile(c) ==
    /\ Running(c)
    /\ \/ UNCHANGED <<dbVars, history>>
       \/ inTx /\ SqlRollback
    /\ Answer(c) /\ UNCHANGED timer
    /\ UNCHANGED <<seen, loose, exported, behind, flush>>
    /\ SchedulePersist

\* Mutant of ExecFails: reconcileTx does not ask whether SQLite is still in
\* the transaction before it drops ours.
ExecFailsDropsTx(c) ==
    /\ Running(c)
    /\ \/ UNCHANGED <<dbVars, history>>
       \/ inTx /\ SqlRollback
    /\ IF tx # NoTx THEN AnswerAndClose(c) ELSE Answer(c) /\ UNCHANGED timer
    /\ UNCHANGED <<seen, loose, exported, behind, flush>>
    /\ SchedulePersist

\* A statement fails, and what the ones before it did stays; or, as
\* SQLITE_FULL does, it makes SQLite roll the whole transaction back.
\* reconcileTx drops our transaction if SQLite has none any more.
ExecFails(c) ==
    /\ Running(c)
    /\ \/ UNCHANGED <<dbVars, history>>
       \/ inTx /\ SqlRollback
    /\ IF tx # NoTx /\ ~inTx' THEN AnswerAndClose(c) ELSE Answer(c) /\ UNCHANGED timer
    /\ UNCHANGED <<seen, loose, exported, behind, flush>>
    /\ SchedulePersist

\* enforceTxDiscipline is content: the text left things as it found them.
ExecReturns(c) ==
    /\ Running(c) /\ (inTx <=> call[c].tok # NoTx)
    /\ Answer(c)
    /\ UNCHANGED <<timer, dbVars, history, seen, loose, exported, behind, flush>>
    /\ SchedulePersist

\* enforceTxDiscipline finds a transaction BEGIN text left open.  The ROLLBACK
\* is issued, not awaited, and the call fails before schedulePersist.
ExecRejectsBegin(c) ==
    /\ Running(c) /\ call[c].tok = NoTx /\ inTx
    /\ stray' = TRUE
    /\ Answer(c)
    /\ UNCHANGED <<timer, committed, work, file, inTx, dirty, persistVars, flush, ghostVars>>

StrayRollback ==
    /\ stray
    /\ SqlRollback
    /\ NoSchedule
    /\ UNCHANGED <<gateVars, flush, seen, loose, exported, behind>>

\* enforceTxDiscipline finds that COMMIT or ROLLBACK text ended ours.  It is
\* closed and the call fails before schedulePersist.
ExecRejectsEnd(c) ==
    /\ Running(c) /\ call[c].tok # NoTx /\ ~inTx
    /\ AnswerAndClose(c)
    /\ UNCHANGED <<dbVars, flush, history, seen, loose, exported, behind>>
    /\ NoSchedule

ExecEnds(c) ==
    ExecFails(c) \/ ExecReturns(c) \/ ExecRejectsBegin(c) \/ ExecRejectsEnd(c)

(***************************************************************************)
(* begin, commit, rollback, snapshot, and the idle timeout                 *)
(***************************************************************************)

\* crypto.randomUUID: an id no pending call and no queued expiry carries.
Fresh(t) ==
    /\ \A c \in Clients : call[c].tok # t
    /\ \A i \in DOMAIN chain : chain[i].tok # t

\* Mutant of Begin: touchTx is forgotten, so no timer watches the transaction.
BeginUntimed(c) ==
    /\ Runs(c, "begin") /\ ~inTx
    /\ inTx' = TRUE
    /\ tx' \in {t \in Tokens : Fresh(t)}
    /\ timer' = FALSE
    /\ call' = [call EXCEPT ![c] = NoCall]
    /\ chain' = Tail(chain)
    /\ UNCHANGED <<committed, work, file, stray, dirty, waiters,
                   persistVars, flush, ghostVars>>

Begin(c) ==
    /\ Runs(c, "begin") /\ ~inTx
    /\ inTx' = TRUE
    /\ tx' \in {t \in Tokens : Fresh(t)}
    /\ timer' = TRUE
    /\ call' = [call EXCEPT ![c] = NoCall]
    /\ chain' = Tail(chain)
    /\ UNCHANGED <<committed, work, file, stray, dirty, waiters,
                   persistVars, flush, ghostVars>>

\* SQLite refuses BEGIN: failed text left a manual transaction open.
BeginFails(c) ==
    /\ Runs(c, "begin") /\ inTx
    /\ Answer(c)
    /\ UNCHANGED <<timer, dbVars, persistVars, flush, ghostVars>>

\* Mutant of Commit: schedulePersist is forgotten.
CommitUnscheduled(c) ==
    /\ Runs(c, "commit")
    /\ SqlCommit
    /\ AnswerAndClose(c)
    /\ UNCHANGED <<seen, loose, exported, behind, flush, persistVars, silent>>

\* By GateMatchesConnection the connection is in a transaction here, so the
\* branch for one SQLite already ended has no step.
Commit(c) ==
    /\ Runs(c, "commit")
    /\ SqlCommit
    /\ AnswerAndClose(c)
    /\ UNCHANGED <<seen, loose, exported, behind, flush>>
    /\ SchedulePersist

\* COMMIT fails (a deferred constraint): the transaction stays open.
CommitFails(c) ==
    /\ Runs(c, "commit")
    /\ Answer(c)
    /\ TouchTx
    /\ UNCHANGED <<dbVars, persistVars, flush, ghostVars>>

Rollback(c) ==
    /\ Runs(c, "rollback")
    /\ SqlRollback
    /\ AnswerAndClose(c)
    /\ UNCHANGED <<seen, loose, exported, behind, flush>>
    /\ SchedulePersist

\* snapshot() copies the file without a statement: no wait for a stray one.
Snapshot(c) ==
    /\ Admitted(c) /\ call[c].op = "snapshot"
    /\ exported' = file
    /\ Answer(c)
    /\ UNCHANGED <<timer, dbVars, persistVars, flush, history, seen, loose, silent, behind>>

TimerFires ==
    /\ timer
    /\ timer' = FALSE
    /\ chain' = Append(chain, [who |-> IdleTimer, tok |-> tx])
    /\ UNCHANGED <<dbVars, tx, waiters, call, persistVars, flush, ghostVars>>

\* Mutant of ExpireTx: the gate opens, and the ROLLBACK is forgotten.
ExpireTxNoRollback ==
    /\ Turn(IdleTimer) /\ Head(chain).tok = tx
    /\ CloseTx
    /\ UNCHANGED <<call, dbVars, flush, ghostVars, persistVars>>

\* expireTx: rolls back if the transaction is still the open one.
ExpireTx ==
    /\ Turn(IdleTimer) /\ Head(chain).tok = tx
    /\ SqlRollback
    /\ CloseTx
    /\ NoSchedule
    /\ UNCHANGED <<call, flush, seen, loose, exported, behind>>

ExpireLate ==
    /\ Turn(IdleTimer) /\ Head(chain).tok # tx
    /\ chain' = Tail(chain)
    /\ UNCHANGED <<dbVars, tx, timer, waiters, call, persistVars, flush, ghostVars>>

(***************************************************************************)
(* Write-behind persistence                                                *)
(***************************************************************************)

\* Mutant of JobEnds: the count runs on below zero.
JobEndsUnguarded(stored) ==
    flush' = [f \in Flushers |-> [flush[f] EXCEPT !.wait = @ - 1, !.calm = @ /\ stored]]

\* A job is over: every flush awaiting a tail behind it is one job nearer,
\* and notes whether the job stored what it was queued for.
JobEnds(stored) ==
    flush' = [f \in Flushers |->
                IF flush[f].wait = 0 THEN flush[f]
                ELSE [flush[f] EXCEPT !.wait = @ - 1, !.calm = @ /\ stored]]

JobStart ==
    /\ persistQueued /\ job = "idle"
    /\ persistQueued' = FALSE
    /\ job' = "locking"
    /\ chain' = Append(chain, [who |-> PersistJob, tok |-> NoTx])
    /\ UNCHANGED <<dbVars, tx, timer, waiters, call, image, durable,
                   persistFailure, flush, ghostVars>>

\* Mutant of JobSnapshot: the job does not ask whether a transaction is open.
JobSnapshotInTx ==
    /\ job = "locking" /\ Turn(PersistJob)
    /\ chain' = Tail(chain)
    /\ dirty' = FALSE
    /\ image' = file
    /\ job' = "saving"
    /\ silent' = FALSE
    /\ UNCHANGED <<committed, work, file, inTx, stray, tx, timer, waiters, call,
                   persistQueued, durable, persistFailure, flush, history, seen, loose,
                   exported, behind>>

JobSnapshot ==
    /\ job = "locking" /\ Turn(PersistJob) /\ tx = NoTx /\ ~inTx
    /\ chain' = Tail(chain)
    /\ dirty' = FALSE
    /\ image' = file
    /\ job' = "saving"
    /\ silent' = FALSE
    /\ UNCHANGED <<committed, work, file, inTx, stray, tx, timer, waiters, call,
                   persistQueued, durable, persistFailure, flush, history, seen, loose,
                   exported, behind>>

\* Mutant of JobSkip: persistedWrites is advanced before the early return.
JobSkipClean ==
    /\ job = "locking" /\ Turn(PersistJob) /\ (tx # NoTx \/ inTx)
    /\ chain' = Tail(chain)
    /\ dirty' = FALSE
    /\ job' = "idle"
    /\ JobEnds(FALSE)
    /\ UNCHANGED <<committed, work, file, inTx, stray, tx, timer, waiters, call,
                   persistQueued, image, durable, persistFailure, ghostVars>>

JobSkip ==
    /\ job = "locking" /\ Turn(PersistJob) /\ (tx # NoTx \/ inTx)
    /\ chain' = Tail(chain)
    /\ job' = "idle"
    /\ JobEnds(FALSE)
    /\ UNCHANGED <<dbVars, tx, timer, waiters, call, persistQueued, image,
                   durable, persistFailure, ghostVars>>

SaveSucceeds ==
    /\ job = "saving"
    /\ job' = "idle"
    /\ durable' = image
    /\ behind' = FALSE
    /\ JobEnds(TRUE)
    /\ UNCHANGED <<dbVars, gateVars, persistQueued, image, persistFailure,
                   history, seen, loose, exported, silent>>

SaveFails ==
    /\ job = "saving"
    /\ job' = "idle"
    /\ persistFailure' = TRUE
    /\ behind' = TRUE
    /\ JobEnds(FALSE)
    /\ UNCHANGED <<dbVars, gateVars, persistQueued, image, durable,
                   history, seen, loose, exported, silent>>

\* Mutant of JobsAhead: flush() awaits the running job only.
JobsAheadRunning == IF job = "idle" THEN 0 ELSE 1

\* flush() awaits the tail of the chain as it is at the call.  Nothing is
\* asked of it for the batch under way.
JobsAhead == (IF job = "idle" THEN 0 ELSE 1) + (IF persistQueued THEN 1 ELSE 0)

Flush(f) ==
    /\ flush[f].st # "waiting"
    /\ flush' = [flush EXCEPT ![f] =
         [st |-> "waiting", wait |-> JobsAhead, target |-> IF Busy THEN {} ELSE committed,
          calm |-> ~inTx /\ ~silent /\ ~behind]]
    /\ UNCHANGED <<dbVars, gateVars, persistVars, ghostVars>>

FlushReturns(f) ==
    /\ flush[f].st = "waiting" /\ flush[f].wait = 0
    /\ flush' = [flush EXCEPT ![f].st = IF persistFailure THEN "failed" ELSE "ok"]
    /\ persistFailure' = FALSE
    /\ UNCHANGED <<dbVars, gateVars, persistQueued, job, image, durable, ghostVars>>

(***************************************************************************)
(* Specification                                                           *)
(***************************************************************************)

\* The body of the entry at the head of the mutex.
Body(c) ==
    \/ RefuseToken(c) \/ Retry(c)
    \/ ExecStart(c) \/ StmtRead(c) \/ StmtWrite(c) \/ StmtControl(c)
    \/ ExecFails(c) \/ ExecReturns(c) \/ ExecRejectsBegin(c) \/ ExecRejectsEnd(c)
    \/ Begin(c) \/ BeginFails(c)
    \/ Commit(c) \/ CommitFails(c) \/ Rollback(c) \/ Snapshot(c)

Next ==
    \/ \E c \in Clients :
         \/ \E op \in Ops, tok \in Tokens \union {NoTx} : Request(c, op, tok)
         \/ Body(c)
    \/ StrayRollback
    \/ TimerFires \/ ExpireTx \/ ExpireLate
    \/ JobStart \/ JobSnapshot \/ JobSkip \/ SaveSucceeds \/ SaveFails
    \/ \E f \in Flushers : Flush(f) \/ FlushReturns(f)

Spec == Init /\ [][Next]_vars

(***************************************************************************)
(* Fairness: the event loop runs what is ready, SQL text ends, a save      *)
(* comes back, and the timer of a transaction nobody uses fires.  Nothing  *)
(* obliges a client to make a call, and nothing ends a transaction that    *)
(* stays in use.                                                           *)
(***************************************************************************)

MutexMoves ==
    \/ \E c \in Clients : Body(c)
    \/ ExpireTx \/ ExpireLate \/ JobSnapshot \/ JobSkip

Unused == \A c \in Clients : call[c].tok # tx

FairSpec ==
    /\ Spec
    /\ WF_vars(MutexMoves)
    /\ \A c \in Clients : WF_vars(ExecEnds(c))
    /\ WF_vars(StrayRollback)
    /\ WF_vars(Unused /\ TimerFires)
    /\ WF_vars(JobStart)
    /\ WF_vars(SaveSucceeds \/ SaveFails)
    /\ \A f \in Flushers : WF_vars(FlushReturns(f))

(***************************************************************************)
(* Properties                                                              *)
(***************************************************************************)

\* The gate and the connection agree: between two bodies, the transaction the
\* gate holds is open in SQLite, and a ROLLBACK still to run has one of its own
\* to end, never the gate's.  Every path that ends the one (commit, rollback,
\* expireTx, reconcileTx, enforceTxDiscipline) must end the other, or a token
\* would run, and persist, outside any transaction.
GateMatchesConnection ==
    /\ tx # NoTx => inTx \/ Busy
    /\ stray => inTx /\ tx = NoTx /\ ~Busy

\* A statement without a token sees committed changes only, or changes of
\* manual BEGIN text, never those of an open API transaction: "a stray exec
\* can never observe - or commit - someone else's half-done transaction"
\* (sql-engine.ts, Concurrency).
NoDirtyRead == seen \subseteq committed \union loose

\* What options.persist stored, and what it is storing, is a state the
\* database had between two transactions, never the pages of a half-done one
\* that SQLite spilled to the file.
PersistedWasCommitted ==
    /\ durable \in history
    /\ job = "saving" => image \in history

\* The tier implements DurableStore: transactions take effect whole, and saves
\* never go back in time, because schedulePersist puts every job on one chain.
Store == INSTANCE DurableStore
           WITH committed <- committed, durable <- durable, history <- history
ImplementsStore == Store!Spec

\* schedulePersist loses no change by itself: outside a transaction, a change
\* not yet handed over has a job under way, unless the transaction ended on a
\* path that skips schedulePersist (expireTx, manual COMMIT or ROLLBACK text,
\* the ROLLBACK of manual BEGIN text).
UnsavedIsQueued ==
    ~inTx /\ ~Busy /\ dirty /\ ~silent => persistQueued \/ job = "locking"

\* The dirty check is exact: with nothing dirty, no job under way and the
\* last save not failed, what is stored is what is committed.
CleanMeansDurable ==
    ~inTx /\ ~dirty /\ job = "idle" /\ ~behind => durable = committed

\* A flush() that resolves, and that was called outside a transaction, with no
\* silent end or failed save before it and no skipped or failed job in it,
\* has stored everything committed at its call.
CalmFlushDrains ==
    \A f \in Flushers :
        flush[f].st = "ok" /\ flush[f].calm => flush[f].target \subseteq durable

\* An abandoned token cannot wedge the scope: a transaction no call uses any
\* more does not stay open (touchTx, expireTx).
AbandonedTxEnds ==
    \A t \in Tokens : ~ <>[](tx = t /\ \A c \in Clients : call[c].tok # t)

\* Every call gets its answer, in spite of begins that overtake it and send
\* it to RETRY, as long as no single transaction is kept in use forever.
CallsAreAnswered ==
    []<>(tx = NoTx) => \A c \in Clients : call[c] # NoCall ~> call[c] = NoCall

\* snapshot() copies "the scope's current committed database bytes", after it
\* "waits for an open transaction to end first": never a half-done transaction
\* of the API.  Changes of manual BEGIN text may be in the copy, as nothing
\* waits for a transaction that the gate does not know.
SnapshotIsClean ==
    \E h \in history : h \subseteq exported /\ exported \subseteq h \union loose
=============================================================================

----------------------------- MODULE SqlSessions -----------------------------
(***************************************************************************)
(* poid.db.sql against the user's own database: the statements of Reader   *)
(* windows (connection_sql_exec in src-tauri/src/connections.rs), the      *)
(* session each window keeps (connections_state.rs), the transactions an   *)
(* application believes it is in (reader-main.ts), and a window that       *)
(* closes while its statement is under way (lib.rs).                       *)
(*                                                                         *)
(* What the registry and the bindings do is in Connections; here they only *)
(* decide which connection a document is bound to and which have a record  *)
(* and a credential.  Statements are asynchronous commands: a step of this *)
(* module is what runs between two awaits.  A window has one statement     *)
(* under way at a time.                                                    *)
(***************************************************************************)
EXTENDS Naturals

CONSTANTS
    Conns, Docs,
    Windows,     \* labels of Reader windows, never used twice
    Missing      \* no binding, no session, no document, nobody

ASSUME SqlSessionsAssumption ==
    Missing \notin Conns \union Docs \union Windows \union [conn : Conns, tx : BOOLEAN]

VARIABLES
    usable,  \* connections with a record and a credential
    bind,    \* the connection of a document, if it is bound to one
    sql,     \* ConnectionsState.sql: the session of a window label
    lock,    \* who holds the mutex around it
    window,  \* its document and stage, and whether it is in a transaction
    call,    \* the statement it has under way
    \* History, read by no guard.
    quiet,   \* windows that closed with no statement under way
    left     \* windows whose page was reloaded inside a transaction

vars == <<usable, bind, sql, lock, window, call, quiet, left>>

Session == [conn : Conns, tx : BOOLEAN]
Fresh   == [doc |-> Missing, stage |-> "none", tx |-> FALSE]
Window  == [doc : Docs \union {Missing}, tx : BOOLEAN,
            stage : {"none", "running", "closing", "gone"}]
Idle    == [step |-> "idle", conn |-> Missing, sql |-> "none"]
Call    == [step : {"bound", "opening", "running"}, conn : Conns, sql : {"begin", "exec", "commit"}]

TypeOK ==
    /\ usable \subseteq Conns
    /\ bind \in [Docs -> Conns \union {Missing}]
    /\ sql \in [Windows -> Session \union {Missing}]
    /\ lock \in Windows \union {Missing}
    /\ window \in [Windows -> Window]
    /\ call \in [Windows -> Call \union {Idle}]
    /\ quiet \subseteq Windows /\ left \subseteq Windows

Init ==
    /\ usable = Conns
    /\ bind = [d \in Docs |-> Missing]
    /\ sql = [w \in Windows |-> Missing] /\ lock = Missing
    /\ window = [w \in Windows |-> Fresh]
    /\ call = [w \in Windows |-> Idle]
    /\ quiet = {} /\ left = {}

(***************************************************************************)
(* The hub and the prompt, as far as statements see them.                  *)
(***************************************************************************)

\* connection_remove forgets the bindings; a lost credential does not.
Withdraw(c) ==
    /\ c \in usable
    /\ usable' = usable \ {c}
    /\ bind' \in {bind, [d \in Docs |-> IF bind[d] = c THEN Missing ELSE bind[d]]}
    /\ UNCHANGED <<sql, lock, window, call, quiet, left>>

\* connection_save.
Restore(c) ==
    /\ c \notin usable
    /\ usable' = usable \union {c}
    /\ UNCHANGED <<bind, sql, lock, window, call, quiet, left>>

\* A page settles its document's binding: the one on record if it can serve, or
\* the user's pick, also when another window has the document.
Settled(d, c) ==
    /\ c \in usable
    /\ bind[d] \in usable => c = bind[d]
    /\ bind' = [bind EXCEPT ![d] = c]

Open(w, d, c) ==
    /\ window[w].stage = "none" /\ Settled(d, c)
    /\ window' = [window EXCEPT ![w] = [Fresh EXCEPT !.doc = d, !.stage = "running"]]
    /\ UNCHANGED <<usable, sql, lock, call, quiet, left>>

\* The user reloads the page between two statements: the application starts
\* anew, the label keeps its document and, with it, its session.
Reload(w, c) ==
    /\ window[w].stage = "running" /\ call[w] = Idle /\ Settled(window[w].doc, c)
    /\ window' = [window EXCEPT ![w].tx = FALSE]
    /\ left' = IF window[w].tx THEN left \union {w} ELSE left
    /\ UNCHANGED <<usable, sql, lock, call, quiet>>

\* The Destroyed event: the document is dropped, the session left to a task.
CloseWindow(w) ==
    /\ window[w].stage = "running"
    /\ window' = [window EXCEPT ![w] = [Fresh EXCEPT !.stage = "closing"]]
    /\ quiet' = IF call[w] = Idle THEN quiet \union {w} ELSE quiet
    /\ UNCHANGED <<usable, bind, sql, lock, call, left>>

(***************************************************************************)
(* Statements.                                                             *)
(***************************************************************************)

StatementOnly == UNCHANGED <<usable, bind, quiet, left>>
SetCall(w, f) == call' = [call EXCEPT ![w] = f]

\* connection_sql_exec looks the binding up ...
Statement(w, kind) ==
    /\ window[w].stage = "running" /\ call[w] = Idle
    /\ kind = (IF window[w].tx THEN "commit" ELSE "begin") \/ kind = "exec"
    /\ bind[window[w].doc] # Missing
    /\ SetCall(w, [step |-> "bound", conn |-> bind[window[w].doc], sql |-> kind])
    /\ StatementOnly /\ UNCHANGED <<sql, lock, window>>

Live(w) == sql[w] # Missing

\* Mutant of Acquire: a session any window has open will do.
AcquirePooled(w) ==
    /\ call[w].step = "bound" /\ lock = Missing
    /\ \/ /\ \E v \in Windows : Live(v) /\ sql' = [sql EXCEPT ![w] = sql[v]]
          /\ SetCall(w, [call[w] EXCEPT !.step = "running"]) /\ UNCHANGED lock
       \/ /\ call[w].conn \in usable
          /\ SetCall(w, [call[w] EXCEPT !.step = "opening"])
          /\ lock' = w /\ UNCHANGED sql
       \/ /\ SetCall(w, Idle) /\ UNCHANGED <<sql, lock>>
    /\ StatementOnly /\ UNCHANGED window

\* ... sql_for_window takes the mutex: an open session is used as it is; else
\* the credential is read, and the mutex held while the session opens, ...
Acquire(w) ==
    /\ call[w].step = "bound" /\ lock = Missing
    /\ \/ /\ Live(w)
          /\ SetCall(w, [call[w] EXCEPT !.step = "running"])
          /\ UNCHANGED <<sql, lock>>
       \/ /\ ~Live(w) /\ UNCHANGED sql
          /\ IF call[w].conn \in usable
             THEN SetCall(w, [call[w] EXCEPT !.step = "opening"]) /\ lock' = w
             ELSE SetCall(w, Idle) /\ UNCHANGED lock
    /\ StatementOnly /\ UNCHANGED window

\* Mutant of Opened: the mutex stays taken when the server refuses.
OpenedKeeping(w) ==
    /\ call[w].step = "opening"
    /\ \/ /\ sql' = [sql EXCEPT ![w] = [conn |-> call[w].conn, tx |-> FALSE]]
          /\ SetCall(w, [call[w] EXCEPT !.step = "running"])
          /\ lock' = Missing
       \/ UNCHANGED <<sql, lock>> /\ SetCall(w, Idle)
    /\ StatementOnly /\ UNCHANGED window

\* ... the server answers or refuses, ...
Opened(w) ==
    /\ call[w].step = "opening"
    /\ lock' = Missing
    /\ \/ /\ sql' = [sql EXCEPT ![w] = [conn |-> call[w].conn, tx |-> FALSE]]
          /\ SetCall(w, [call[w] EXCEPT !.step = "running"])
       \/ UNCHANGED sql /\ SetCall(w, Idle)
    /\ StatementOnly /\ UNCHANGED window

\* ... and the statement is done, or failed.
Ends(w) ==
    /\ call[w].step = "running"
    /\ SetCall(w, Idle)
    /\ LET open == call[w].sql = "begin"
       IN  \/ /\ Live(w) /\ call[w].sql # "exec"
              /\ sql' = [sql EXCEPT ![w].tx = open]
              /\ window' = [window EXCEPT ![w].tx = open /\ window[w].stage = "running"]
           \/ /\ ~Live(w) \/ call[w].sql = "exec"
              /\ window' = [window EXCEPT ![w].tx = @ /\ call[w].sql # "commit"]
              /\ UNCHANGED sql
    /\ StatementOnly /\ UNCHANGED lock

\* The server, or the network, ends a session; is_closed finds it out.
Drop(w) ==
    /\ Live(w)
    /\ sql' = [sql EXCEPT ![w] = Missing]
    /\ StatementOnly /\ UNCHANGED <<lock, call, window>>

\* Mutant of Close: the task gives up when the mutex is taken.
CloseTrying(w) ==
    /\ window[w].stage = "closing"
    /\ sql' = IF lock = Missing THEN [sql EXCEPT ![w] = Missing] ELSE sql
    /\ window' = [window EXCEPT ![w].stage = "gone"]
    /\ StatementOnly /\ UNCHANGED <<lock, call>>

\* close_sql_for_window, in its own task.
Close(w) ==
    /\ window[w].stage = "closing" /\ lock = Missing
    /\ sql' = [sql EXCEPT ![w] = Missing]
    /\ window' = [window EXCEPT ![w].stage = "gone"]
    /\ StatementOnly /\ UNCHANGED <<lock, call>>

Next ==
    \/ \E c \in Conns : Withdraw(c) \/ Restore(c)
    \/ \E w \in Windows :
         \/ \E d \in Docs, c \in Conns : Open(w, d, c)
         \/ \E c \in Conns : Reload(w, c)
         \/ \E kind \in {"begin", "exec", "commit"} : Statement(w, kind)
         \/ CloseWindow(w)
         \/ Acquire(w) \/ Opened(w) \/ Ends(w) \/ Drop(w) \/ Close(w)

\* Tasks run; tokio's mutex is a queue, so whoever waits for it gets it; and a
\* server answers a connect or a statement in the end, or the driver gives up.
Fairness ==
    \A w \in Windows :
        SF_vars(Acquire(w)) /\ SF_vars(Close(w)) /\ WF_vars(Opened(w)) /\ WF_vars(Ends(w))

Spec == Init /\ [][Next]_vars /\ Fairness

(***************************************************************************)
(* Properties                                                              *)
(***************************************************************************)

\* No statement runs inside a transaction that its own application did not
\* begin: a window's session is its own, through drops, rebinding and reopening
\* ("sharing one across windows would let one document see another's open
\* transaction", connections_state.rs).  Exempt is the transaction that a page
\* leaves open in its own window when it is reloaded: nothing rolls it back.
NoForeignTx ==
    \A w \in Windows :
        window[w].stage = "running" /\ call[w].step = "running" /\ Live(w) /\ sql[w].tx
        => window[w].tx \/ w \in left

\* Every statement comes to an end, although one mutex is held over each
\* connect of every window (connections_state.rs).
StatementsEnd ==
    \A w \in Windows : call[w] # Idle ~> call[w] = Idle

\* A window closed between two statements leaves no session behind.
QuietCloseEndsSession ==
    \A w \in Windows : w \in quiet ~> sql[w] = Missing
=============================================================================

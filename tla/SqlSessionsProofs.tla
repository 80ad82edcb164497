-------------------------- MODULE SqlSessionsProofs --------------------------
(***************************************************************************)
(* Proofs about SqlSessions, for any connections, documents and windows:   *)
(* type correctness, and that no statement runs in a transaction of        *)
(* another application.                                                    *)
(***************************************************************************)
EXTENDS SqlSessions, TLAPS

LEMMA MissingIsOther ==
    /\ Missing \notin Session
    /\ Missing \notin Conns
BY SqlSessionsAssumption DEF Session

\* A running window shows a document.
Documented ==
    \A w \in Windows : window[w].stage = "running" => window[w].doc \in Docs

Typed == TypeOK /\ Documented

\* TypeOK: every variable keeps its shape, whichever handler runs.
THEOREM SessionsTypeCorrect == Spec => []TypeOK
<1>1. Init => Typed
  BY DEF Init, Typed, Documented, TypeOK, Fresh, Window, Idle, Call
<1>2. Typed /\ [Next]_vars => Typed'
  <2> SUFFICES ASSUME Typed, [Next]_vars PROVE Typed'
    OBVIOUS
  <2> USE DEF TypeOK, Typed, Documented
  <2>1. ASSUME NEW c \in Conns, Withdraw(c) PROVE Typed'
    BY <2>1 DEF Withdraw
  <2>2. ASSUME NEW c \in Conns, Restore(c) PROVE Typed'
    BY <2>2 DEF Restore
  <2>3. ASSUME NEW w \in Windows, NEW d \in Docs, NEW c \in Conns, Open(w, d, c) PROVE Typed'
    <3>1. [Fresh EXCEPT !.doc = d, !.stage = "running"] \in Window
      BY DEF Fresh, Window
    <3> QED
      BY <2>3, <3>1 DEF Open, Settled
  <2>4. ASSUME NEW w \in Windows, NEW kind \in {"begin", "exec", "commit"}, Statement(w, kind)
        PROVE Typed'
    <3>1. window[w].doc \in Docs
      BY <2>4 DEF Statement
    <3>2. [step |-> "bound", conn |-> bind[window[w].doc], sql |-> kind] \in Call
      BY <2>4, <3>1 DEF Statement, Call
    <3> QED
      BY <2>4, <3>2 DEF Statement, SetCall, StatementOnly
  <2>5. ASSUME NEW w \in Windows, CloseWindow(w) PROVE Typed'
    <3>1. [Fresh EXCEPT !.stage = "closing"] \in Window
      BY DEF Fresh, Window
    <3> QED
      BY <2>5, <3>1 DEF CloseWindow
  <2>6. ASSUME NEW w \in Windows, Acquire(w) PROVE Typed'
    <3>1. call[w] \in Call
      BY <2>6 DEF Acquire, Call, Idle
    <3>2. [call[w] EXCEPT !.step = "running"] \in Call /\ [call[w] EXCEPT !.step = "opening"] \in Call
      BY <3>1 DEF Call
    <3> QED
      BY <2>6, <3>2 DEF Acquire, SetCall, StatementOnly
  <2>7. ASSUME NEW w \in Windows, Opened(w) PROVE Typed'
    <3>1. call[w] \in Call
      BY <2>7 DEF Opened, Call, Idle
    <3>2. [call[w] EXCEPT !.step = "running"] \in Call /\ [conn |-> call[w].conn, tx |-> FALSE] \in Session
      BY <3>1 DEF Call, Session
    <3> QED
      BY <2>7, <3>2 DEF Opened, SetCall, StatementOnly
  <2>8. ASSUME NEW w \in Windows, Ends(w) PROVE Typed'
    <3>1. call[w] \in Call /\ window[w] \in Window
      BY <2>8 DEF Ends, Call, Idle
    <3>2. call' \in [Windows -> Call \union {Idle}]
      BY <2>8 DEF Ends, SetCall
    <3>3. \A b \in BOOLEAN : [window[w] EXCEPT !.tx = b] \in Window
      BY <3>1 DEF Window
    <3>4. CASE Live(w) /\ call[w].sql # "exec"
              /\ sql' = [sql EXCEPT ![w].tx = call[w].sql = "begin"]
              /\ window' = [window EXCEPT ![w].tx = call[w].sql = "begin" /\ window[w].stage = "running"]
      <4>1. \A b \in BOOLEAN : [sql[w] EXCEPT !.tx = b] \in Session
        BY <3>4 DEF Live, Session
      <4>2. sql' \in [Windows -> Session \union {Missing}]
        BY <3>4, <4>1
      <4>3. window' \in [Windows -> Window]
        BY <3>4, <3>3
      <4>4. \A v \in Windows : window'[v].stage = window[v].stage /\ window'[v].doc = window[v].doc
        BY <3>4 DEF Window
      <4> QED
        BY <2>8, <3>2, <4>2, <4>3, <4>4 DEF Ends, StatementOnly
    <3>5. CASE /\ window' = [window EXCEPT ![w].tx = @ /\ call[w].sql # "commit"]
               /\ UNCHANGED sql
      <4>1. window[w].tx \in BOOLEAN
        BY <3>1 DEF Window
      <4>2. window' \in [Windows -> Window]
        BY <3>5, <3>3, <4>1
      <4>3. \A v \in Windows : window'[v].stage = window[v].stage /\ window'[v].doc = window[v].doc
        BY <3>5 DEF Window
      <4> QED
        BY <2>8, <3>2, <3>5, <4>2, <4>3 DEF Ends, StatementOnly
    <3> QED
      BY <2>8, <3>4, <3>5 DEF Ends
  <2>9. ASSUME NEW w \in Windows, Drop(w) PROVE Typed'
    BY <2>9 DEF Drop, StatementOnly
  <2>10. ASSUME NEW w \in Windows, Close(w) PROVE Typed'
    <3>1. [window[w] EXCEPT !.stage = "gone"] \in Window
      BY DEF Window
    <3> QED
      BY <2>10, <3>1 DEF Close, StatementOnly
  <2>11. ASSUME NEW w \in Windows, NEW c \in Conns, Reload(w, c) PROVE Typed'
    <3>1. [window[w] EXCEPT !.tx = FALSE] \in Window
      BY DEF Window
    <3>2. \A v \in Windows : window'[v].stage = window[v].stage /\ window'[v].doc = window[v].doc
      BY <2>11 DEF Reload, Window
    <3> QED
      BY <2>11, <3>1, <3>2 DEF Reload, Settled
  <2>12. CASE UNCHANGED vars
    BY <2>12 DEF vars
  <2> QED
    BY <2>1, <2>2, <2>3, <2>4, <2>5, <2>6, <2>7, <2>8, <2>9, <2>10, <2>11, <2>12 DEF Next
<1> QED
  BY <1>1, <1>2, PTL DEF Spec, Typed

\* A label that no window has had has no session and no statement.
Unborn ==
    \A w \in Windows : window[w].stage = "none" => sql[w] = Missing /\ call[w] = Idle

\* A session in a transaction belongs to an application that is in one, or to a
\* page that was reloaded in one, whether or not a statement is under way.
OwnTx ==
    \A w \in Windows :
        window[w].stage = "running" /\ Live(w) /\ sql[w].tx => window[w].tx \/ w \in left

SessionInv == TypeOK /\ Unborn /\ OwnTx

\* What a step may change, window by window, is enough for both parts.
LEMMA UnbornKept ==
    ASSUME SessionInv, [Next]_vars
    PROVE  Unborn'
<1> USE DEF SessionInv
<1>1. ASSUME NEW c \in Conns, Withdraw(c) \/ Restore(c) PROVE Unborn'
  BY <1>1 DEF Withdraw, Restore, Unborn
<1>2. ASSUME NEW w \in Windows, NEW d \in Docs, NEW c \in Conns, Open(w, d, c) PROVE Unborn'
  BY <1>2 DEF Open, Unborn, TypeOK, Fresh
<1>3. ASSUME NEW w \in Windows, NEW kind \in {"begin", "exec", "commit"}, Statement(w, kind)
      PROVE Unborn'
  BY <1>3 DEF Statement, SetCall, StatementOnly, Unborn, TypeOK
<1>4. ASSUME NEW w \in Windows, CloseWindow(w) PROVE Unborn'
  BY <1>4 DEF CloseWindow, Unborn, TypeOK, Fresh
<1>5. ASSUME NEW w \in Windows, Acquire(w) PROVE Unborn'
  BY <1>5 DEF Acquire, SetCall, StatementOnly, Unborn, TypeOK, Idle
<1>6. ASSUME NEW w \in Windows, Opened(w) PROVE Unborn'
  BY <1>6 DEF Opened, SetCall, StatementOnly, Unborn, TypeOK, Idle
<1>7. ASSUME NEW w \in Windows, Ends(w) PROVE Unborn'
  <2>1. window[w].stage # "none"
    BY <1>7 DEF Ends, Unborn, Idle
  <2>2. \A v \in Windows : window'[v].stage = window[v].stage
    BY <1>7 DEF Ends, TypeOK, Window
  <2>3. \A v \in Windows \ {w} : sql'[v] = sql[v] /\ call'[v] = call[v]
    BY <1>7 DEF Ends, SetCall, TypeOK
  <2> QED
    BY <2>1, <2>2, <2>3 DEF Unborn
<1>8. ASSUME NEW w \in Windows, Drop(w) PROVE Unborn'
  BY <1>8 DEF Drop, StatementOnly, Unborn, TypeOK
<1>9. ASSUME NEW w \in Windows, Close(w) PROVE Unborn'
  BY <1>9 DEF Close, StatementOnly, Unborn, TypeOK
<1>10. ASSUME NEW w \in Windows, NEW c \in Conns, Reload(w, c) PROVE Unborn'
  BY <1>10 DEF Reload, Settled, Unborn, TypeOK, Window
<1>11. CASE UNCHANGED vars
  BY <1>11 DEF vars, Unborn
<1> QED
  BY <1>1, <1>2, <1>3, <1>4, <1>5, <1>6, <1>7, <1>8, <1>9, <1>10, <1>11 DEF Next

LEMMA OwnTxKept ==
    ASSUME SessionInv, [Next]_vars
    PROVE  OwnTx'
<1> USE DEF SessionInv
<1>1. ASSUME NEW c \in Conns, Withdraw(c) \/ Restore(c) PROVE OwnTx'
  BY <1>1 DEF Withdraw, Restore, OwnTx, Live
<1>2. ASSUME NEW w \in Windows, NEW d \in Docs, NEW c \in Conns, Open(w, d, c) PROVE OwnTx'
  BY <1>2 DEF Open, OwnTx, Unborn, Live, TypeOK
<1>3. ASSUME NEW w \in Windows, NEW kind \in {"begin", "exec", "commit"}, Statement(w, kind)
      PROVE OwnTx'
  BY <1>3 DEF Statement, StatementOnly, OwnTx, Live
<1>4. ASSUME NEW w \in Windows, CloseWindow(w) PROVE OwnTx'
  BY <1>4 DEF CloseWindow, OwnTx, Live, TypeOK, Fresh
<1>5. ASSUME NEW w \in Windows, Acquire(w) PROVE OwnTx'
  BY <1>5 DEF Acquire, StatementOnly, OwnTx, Live
<1>6. ASSUME NEW w \in Windows, Opened(w) PROVE OwnTx'
  BY <1>6 DEF Opened, StatementOnly, OwnTx, Live, TypeOK
<1>7. ASSUME NEW w \in Windows, Ends(w) PROVE OwnTx'
  <2>1. \A v \in Windows \ {w} : sql'[v] = sql[v] /\ window'[v] = window[v]
    BY <1>7 DEF Ends, TypeOK
  <2>2. window'[w].stage = window[w].stage
    BY <1>7 DEF Ends, TypeOK, Window
  <2>3. window[w].stage = "running" /\ sql'[w] # Missing /\ sql'[w].tx => window'[w].tx \/ w \in left'
    <3>1. CASE /\ sql' = [sql EXCEPT ![w].tx = call[w].sql = "begin"]
               /\ window' = [window EXCEPT ![w].tx = call[w].sql = "begin" /\ window[w].stage = "running"]
               /\ Live(w)
      <4>1. sql'[w].tx = (call[w].sql = "begin")
        BY <3>1 DEF TypeOK, Live, Session
      <4>2. window'[w].tx = (call[w].sql = "begin" /\ window[w].stage = "running")
        BY <3>1 DEF TypeOK, Window
      <4> QED
        BY <4>1, <4>2
    <3>2. CASE /\ ~Live(w) \/ call[w].sql = "exec"
               /\ window' = [window EXCEPT ![w].tx = @ /\ call[w].sql # "commit"]
               /\ UNCHANGED sql
      <4>1. window'[w].tx = (window[w].tx /\ call[w].sql # "commit")
        BY <3>2 DEF TypeOK, Window
      <4> QED
        BY <1>7, <3>2, <4>1 DEF OwnTx, Live, Ends, StatementOnly
    <3> QED
      BY <1>7, <3>1, <3>2 DEF Ends
  <2> QED
    BY <1>7, <2>1, <2>2, <2>3 DEF OwnTx, Live, Ends, StatementOnly
<1>8. ASSUME NEW w \in Windows, Drop(w) PROVE OwnTx'
  BY <1>8 DEF Drop, StatementOnly, OwnTx, Live, TypeOK
<1>9. ASSUME NEW w \in Windows, Close(w) PROVE OwnTx'
  BY <1>9 DEF Close, StatementOnly, OwnTx, Live, TypeOK
<1>10. ASSUME NEW w \in Windows, NEW c \in Conns, Reload(w, c) PROVE OwnTx'
  BY <1>10 DEF Reload, Settled, OwnTx, Live, TypeOK, Window
<1>11. CASE UNCHANGED vars
  BY <1>11 DEF vars, OwnTx, Live
<1> QED
  BY <1>1, <1>2, <1>3, <1>4, <1>5, <1>6, <1>7, <1>8, <1>9, <1>10, <1>11 DEF Next

\* NoForeignTx: no statement runs inside a transaction its own application did
\* not begin, for any number of windows sharing documents and connections.
THEOREM StatementsStayHome == Spec => []NoForeignTx
<1>1. Init => Unborn /\ OwnTx
  BY DEF Init, Unborn, OwnTx, Live
<1>2. TypeOK /\ TypeOK' /\ (Unborn /\ OwnTx) /\ [Next]_vars => (Unborn /\ OwnTx)'
  BY UnbornKept, OwnTxKept DEF SessionInv
<1>3. OwnTx => NoForeignTx
  BY DEF OwnTx, NoForeignTx
<1> QED
  BY <1>1, <1>2, <1>3, SessionsTypeCorrect, PTL DEF Spec
=============================================================================

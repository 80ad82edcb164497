-------------------------- MODULE VaultSlotsProofs --------------------------
(***************************************************************************)
(* Safety of VaultSlots for any windows, slots, keys, quota and queue      *)
(* bound.                                                                  *)
(***************************************************************************)
EXTENDS VaultSlots, FiniteSetTheorems, TLAPS

(***************************************************************************)
(* The inductive invariant                                                 *)
(***************************************************************************)

\* While a switch awaits the queue, what it awaits is the front of the queue,
\* and all behind it was written since.
Counted ==
    \A w \in Windows :
        switch[w].st = "kv" =>
            \A i \in DOMAIN queue[w] : i > switch[w].ahead => queue[w][i].late

Drains == TypeOK /\ Counted /\ SwitchDrains

\* A queued write that is not late was made in the slot that is still current.
InPlace(op) == op.late \/ \A k \in DOMAIN op.puts : op.puts[k].from = current
Marked(op)  == op.late => \A k \in DOMAIN op.puts : op.puts[k].late

Pointed == \A w \in Windows : \A i \in DOMAIN queue[w] : InPlace(queue[w][i]) /\ Marked(queue[w][i])

NoStray(d) == \A s \in Slots : \A k \in DOMAIN d[s] : d[s][k].from = s \/ d[s][k].late

Lone == \E w \in Windows : Windows = {w}

LoneInv == Drains /\ Pointed /\ NoStray(doc) /\ NoStray(disk.doc)

(***************************************************************************)
(* Operators                                                               *)
(***************************************************************************)

LEMMA EmptyType == Empty \in Contents
<1>1. Empty \in [{} -> Entry]
  BY DEF Empty
<1>2. QED
  BY <1>1 DEF Contents

LEMMA AppliedType ==
    ASSUME NEW op \in Write, NEW m \in Contents
    PROVE  Applied(op, m) \in Contents
<1>1. PICK D \in SUBSET Keys : m \in [D -> Entry]
  BY DEF Contents
<1>2. PICK P \in SUBSET Keys : op.puts \in [P -> Entry]
  BY DEF Contents, Write
<1>3. Applied(op, m) \in [P \union (D \ op.dels) -> Entry]
  BY <1>1, <1>2 DEF Applied
<1>4. P \union (D \ op.dels) \in SUBSET Keys
  OBVIOUS
<1>5. QED
  BY <1>3, <1>4 DEF Contents

\* The three writes of the kv tier.
LEMMA PutType ==
    ASSUME NEW k \in Keys, NEW n \in Lens, NEW s \in Slots, NEW b \in BOOLEAN
    PROVE  [puts |-> [x \in {k} |-> [len |-> n, from |-> s, late |-> b]],
            dels |-> {}, late |-> b] \in Write
<1>1. [len |-> n, from |-> s, late |-> b] \in Entry
  BY DEF Entry
<1>2. [x \in {k} |-> [len |-> n, from |-> s, late |-> b]] \in [{k} -> Entry]
  BY <1>1
<1>3. [x \in {k} |-> [len |-> n, from |-> s, late |-> b]] \in Contents
  BY <1>2 DEF Contents
<1>4. QED
  BY <1>3 DEF Write

LEMMA DelType ==
    ASSUME NEW ks \in SUBSET Keys, NEW b \in BOOLEAN
    PROVE  [puts |-> Empty, dels |-> ks, late |-> b] \in Write
BY EmptyType DEF Write

LEMMA Constants ==
    /\ NoSwitch \in SwitchState /\ NoSwitch.st = "none"
    /\ Asleep \in SqlState
BY VaultSlotsAssumption DEF NoSwitch, SwitchState, Asleep, SqlState

LEMMA LateType == ASSUME NEW w PROVE Late(w) \in BOOLEAN
BY DEF Late

(***************************************************************************)
(* A switch drains the queue                                               *)
(***************************************************************************)

LEMMA InitDrains == Init => Drains
<1> SUFFICES ASSUME Init PROVE Drains
  OBVIOUS
<1>1. TypeOK
  BY EmptyType, Constants, VaultSlotsAssumption DEF Init, TypeOK
<1>2. Counted /\ SwitchDrains
  BY Constants DEF Init, Counted, SwitchDrains
<1>3. QED
  BY <1>1, <1>2 DEF Drains

LEMMA HydrateDrains == ASSUME Drains, NEW w \in Windows, Hydrate(w) PROVE Drains'
<1>1. TypeOK'
  BY Constants, VaultSlotsAssumption DEF Drains, TypeOK, Hydrate, vaultVars
<1>2. Counted' /\ SwitchDrains'
  BY Constants DEF Drains, TypeOK, Hydrate, Counted, SwitchDrains
<1>3. QED
  BY <1>1, <1>2 DEF Drains

LEMMA EnqueueDrains ==
    ASSUME Drains, NEW w \in Windows, NEW op \in Write, op.late = Late(w), Enqueue(w, op)
    PROVE  Drains'
<1>1. Applied(op, mirror[w]) \in Contents
  BY AppliedType DEF Drains, TypeOK
<1>2. queue[w] \in Seq(Write) /\ Append(queue[w], op) \in Seq(Write)
      /\ Len(Append(queue[w], op)) = Len(queue[w]) + 1
      /\ Len(queue[w]) \in Nat
  BY DEF Drains, TypeOK
<1>3. TypeOK'
  BY <1>1, <1>2, VaultSlotsAssumption DEF Drains, TypeOK, Enqueue, vaultVars
<1>4. ASSUME switch[w].st # "none" PROVE op.late
  BY <1>4 DEF Late
<1>5. \A i \in DOMAIN queue'[w] :
        (i \in DOMAIN queue[w] /\ queue'[w][i] = queue[w][i]) \/ queue'[w][i] = op
  BY <1>2 DEF Enqueue, Drains, TypeOK
<1>6. \A v \in Windows : v # w => queue'[v] = queue[v]
  BY DEF Enqueue, Drains, TypeOK
<1>7. switch' = switch
  BY DEF Enqueue
<1>8. Counted' /\ SwitchDrains'
  BY <1>4, <1>5, <1>6, <1>7 DEF Drains, Counted, SwitchDrains
<1>9. QED
  BY <1>3, <1>8 DEF Drains

LEMMA ApplyDrains == ASSUME Drains, NEW w \in Windows, Apply(w) PROVE Drains'
<1> DEFINE op == Head(queue[w])
<1>1. queue[w] \in Seq(Write) /\ queue[w] # <<>>
  BY DEF Drains, TypeOK, Apply
<1>2. /\ op \in Write /\ Tail(queue[w]) \in Seq(Write)
      /\ Len(queue[w]) \in Nat /\ Len(Tail(queue[w])) = Len(queue[w]) - 1
      /\ \A i \in DOMAIN Tail(queue[w]) : i \in Nat /\ i + 1 \in DOMAIN queue[w]
                                          /\ Tail(queue[w])[i] = queue[w][i + 1]
  BY <1>1
<1>3. CommandSlot \in Slots /\ doc[CommandSlot] \in Contents
  BY DEF CommandSlot, Drains, TypeOK
<1>4. Applied(op, doc[CommandSlot]) \in Contents
  BY <1>2, <1>3, AppliedType
<1>5. /\ doc' \in [Slots -> Contents]
      /\ disk' \in [doc : [Slots -> Contents], current : Slots]
      /\ failed' \in [Windows -> BOOLEAN]
      /\ refused' \in SUBSET Windows
  <2> DEFINE new == [doc EXCEPT ![CommandSlot] = Applied(op, @)]
  <2>1. new \in [Slots -> Contents]
    BY <1>3, <1>4 DEF Drains, TypeOK
  <2>2. \/ /\ doc' = new
           /\ \E ok \in BOOLEAN : /\ disk' = IF ok THEN [doc |-> doc', current |-> current] ELSE disk
                                 /\ failed' = [failed EXCEPT ![w] = @ \/ ~ok]
           /\ refused' = refused
        \/ /\ failed' = [failed EXCEPT ![w] = TRUE]
           /\ refused' = refused \union {w}
           /\ UNCHANGED <<doc, disk>>
    BY DEF Apply, Flushed
  <2>3. doc' \in [Slots -> Contents] /\ refused' \in SUBSET Windows
    BY <2>1, <2>2 DEF Drains, TypeOK
  <2>4. disk' \in [doc : [Slots -> Contents], current : Slots]
    BY <2>2, <2>3 DEF Drains, TypeOK
  <2>5. failed' \in [Windows -> BOOLEAN]
    <3>1. \A b \in BOOLEAN : [failed EXCEPT ![w] = b] \in [Windows -> BOOLEAN]
      BY DEF Drains, TypeOK
    <3>2. failed' = [failed EXCEPT ![w] = TRUE] \/ \E ok \in BOOLEAN : failed' = [failed EXCEPT ![w] = failed[w] \/ ~ok]
      BY <2>2
    <3>3. \A ok \in BOOLEAN : (failed[w] \/ ~ok) \in BOOLEAN
      OBVIOUS
    <3>4. QED
      BY <3>1, <3>2, <3>3, Zenon
  <2>6. QED
    BY <2>3, <2>4, <2>5
<1>6. /\ switch' \in [Windows -> SwitchState]
      /\ switch'[w].st = switch[w].st
      /\ switch[w].st = "kv" /\ switch[w].ahead > 0 => switch'[w].ahead = switch[w].ahead - 1
      /\ switch[w].st = "kv" /\ switch[w].ahead = 0 => switch'[w].ahead = 0
      /\ switch[w].ahead \in Nat
      /\ \A v \in Windows : v # w => switch'[v] = switch[v]
  <2> DEFINE n == IF switch[w].st = "kv" /\ switch[w].ahead > 0
                  THEN switch[w].ahead - 1 ELSE switch[w].ahead
             sw == [switch[w] EXCEPT !.ahead = n]
  <2>1. switch[w] \in SwitchState /\ switch[w].ahead \in 0..MaxQueue + 1
    BY DEF Drains, TypeOK, SwitchState
  <2>2. n \in 0..MaxQueue + 1 /\ switch[w].ahead \in Nat
    BY <2>1, VaultSlotsAssumption
  <2>3. sw \in SwitchState /\ sw.st = switch[w].st /\ sw.ahead = n
    BY <2>1, <2>2 DEF SwitchState
  <2>4. switch' = [switch EXCEPT ![w] = sw]
    BY DEF Apply, Awaited
  <2>5. switch'[w] = sw /\ \A v \in Windows : v # w => switch'[v] = switch[v]
    BY <2>4 DEF Drains, TypeOK
  <2>6. switch' \in [Windows -> SwitchState]
    BY <2>3, <2>4 DEF Drains, TypeOK
  <2>7. QED
    BY <2>2, <2>3, <2>5, <2>6
<1>7. queue' = [queue EXCEPT ![w] = Tail(@)]
  BY DEF Apply
<1>8. TypeOK'
  BY <1>2, <1>5, <1>6, <1>7, VaultSlotsAssumption DEF Apply, Drains, TypeOK
<1>9. Counted'
  <2> SUFFICES ASSUME NEW v \in Windows, switch'[v].st = "kv",
                      NEW i \in DOMAIN queue'[v], i > switch'[v].ahead
               PROVE  queue'[v][i].late
    BY DEF Counted
  <2>1. CASE v # w
    BY <1>6, <1>7, <2>1 DEF Drains, TypeOK, Counted
  <2>2. CASE v = w
    <3>1. queue'[w] = Tail(queue[w])
      BY <1>7 DEF Drains, TypeOK
    <3>2. i + 1 > switch[w].ahead
      BY <1>2, <1>6, <2>2, <3>1
    <3>3. QED
      BY <1>2, <1>6, <2>2, <3>1, <3>2 DEF Drains, Counted
  <2>3. QED
    BY <2>1, <2>2
<1>10. SwitchDrains'
  <2> SUFFICES ASSUME NEW v \in Windows, switch'[v].st \in {"sql", "move", "reload"},
                      NEW i \in DOMAIN queue'[v]
               PROVE  queue'[v][i].late
    BY DEF SwitchDrains
  <2>1. CASE v # w
    BY <1>6, <1>7, <2>1 DEF Drains, TypeOK, SwitchDrains
  <2>2. CASE v = w
    <3>1. queue'[w] = Tail(queue[w])
      BY <1>7 DEF Drains, TypeOK
    <3>2. QED
      BY <1>2, <1>6, <2>2, <3>1 DEF Drains, SwitchDrains
  <2>3. QED
    BY <2>1, <2>2
<1>11. QED
  BY <1>8, <1>9, <1>10 DEF Drains

\* The contexts of the windows ws end.
LEMMA GoneDrains ==
    ASSUME Drains, NEW ws \in SUBSET Windows, Gone(ws),
           doc' \in [Slots -> Contents], current' \in Slots,
           disk' \in [doc : [Slots -> Contents], current : Slots], blob' = blob
    PROVE  Drains'
<1>1. \A w \in Windows : (w \notin ws /\ failed[w]) \in BOOLEAN
  OBVIOUS
<1>2. failed' \in [Windows -> BOOLEAN]
  BY <1>1, Zenon DEF Gone
<1>3. TypeOK'
  BY <1>2, Constants, EmptyType, VaultSlotsAssumption DEF Gone, Drains, TypeOK
<1>4. \A w \in Windows : \/ w \in ws /\ switch'[w].st = "none"
                         \/ w \notin ws /\ switch'[w] = switch[w] /\ queue'[w] = queue[w]
  BY Constants DEF Gone
<1>5. Counted' /\ SwitchDrains'
  BY <1>4 DEF Drains, Counted, SwitchDrains
<1>6. QED
  BY <1>3, <1>5 DEF Drains

\* A step of the SQL tier: at most the count of a switch past the queue.
LEMMA SqlDrains ==
    ASSUME Drains, NEW w \in Windows, UNCHANGED <<doc, current, disk, up, mirrorVars, refused>>,
           blob' \in [Slots -> SUBSET Change], sql' \in [Windows -> SqlState],
           switch' = switch \/ switch' = SqlAwaited(w)
    PROVE  Drains'
<1>1. \A v \in Windows : switch[v] \in SwitchState
  BY DEF Drains, TypeOK
<1>2. /\ switch' \in [Windows -> SwitchState]
      /\ \A v \in Windows : switch'[v].st = switch[v].st
      /\ \A v \in Windows : switch[v].st = "kv" => switch'[v].ahead = switch[v].ahead
  <2>1. CASE switch' = switch
    BY <2>1 DEF Drains, TypeOK
  <2>2. CASE switch' = SqlAwaited(w)
    <3> DEFINE n == IF switch[w].st = "sql" THEN 0 ELSE switch[w].ahead
               sw == [switch[w] EXCEPT !.ahead = n]
    <3>1. n \in 0..MaxQueue + 1
      BY <1>1, VaultSlotsAssumption DEF SwitchState
    <3>2. sw \in SwitchState /\ sw.st = switch[w].st /\ sw.ahead = n
      BY <1>1, <3>1 DEF SwitchState
    <3>3. switch' = [switch EXCEPT ![w] = sw]
      BY <2>2 DEF SqlAwaited
    <3>4. switch'[w] = sw /\ \A v \in Windows : v # w => switch'[v] = switch[v]
      BY <3>3 DEF Drains, TypeOK
    <3>5. switch' \in [Windows -> SwitchState]
      BY <3>2, <3>3 DEF Drains, TypeOK
    <3>6. QED
      BY <3>2, <3>4, <3>5
  <2>3. QED
    BY <2>1, <2>2
<1>3. TypeOK'
  BY <1>2 DEF Drains, TypeOK, mirrorVars
<1>4. Counted' /\ SwitchDrains'
  BY <1>2 DEF Drains, Counted, SwitchDrains, mirrorVars
<1>5. QED
  BY <1>3, <1>4 DEF Drains

\* A step of a switch: no queue changes, and a switch leaves the first await
\* only when the count is down to zero.
LEMMA SwitchStepDrains ==
    ASSUME Drains, NEW w \in Windows, NEW sw \in SwitchState,
           UNCHANGED <<doc, blob, up, slot, mirror, queue, refused>>,
           current' \in Slots, disk' \in [doc : [Slots -> Contents], current : Slots],
           failed' \in [Windows -> BOOLEAN], sql' \in [Windows -> SqlState],
           switch' = [switch EXCEPT ![w] = sw],
           \/ sw.st = "none"
           \/ sw.st = "kv" /\ sw.ahead = Len(queue[w])
           \/ sw.st = "sql" /\ switch[w].st = "kv" /\ switch[w].ahead = 0
           \/ sw.st = "move" /\ switch[w].st = "sql"
           \/ sw.st = "reload" /\ switch[w].st = "move"
    PROVE  Drains'
<1>1. TypeOK'
  BY DEF Drains, TypeOK
<1>2. queue[w] \in Seq(Write) /\ \A i \in DOMAIN queue[w] : i \in Nat /\ i > 0 /\ ~(i > Len(queue[w]))
  BY DEF Drains, TypeOK
<1>3. switch'[w] = sw /\ queue' = queue /\ \A v \in Windows : v # w => switch'[v] = switch[v]
  BY DEF Drains, TypeOK
<1>4. Counted'
  BY <1>2, <1>3 DEF Drains, Counted
<1>5. SwitchDrains'
  BY <1>2, <1>3 DEF Drains, Counted, SwitchDrains
<1>6. QED
  BY <1>1, <1>4, <1>5 DEF Drains

LEMMA SqlUpdates ==
    ASSUME NEW x \in SqlState, NEW d \in SUBSET Change
    PROVE  /\ [x EXCEPT !.awake = TRUE, !.data = d] \in SqlState
           /\ [x EXCEPT !.data = d, !.dirty = TRUE] \in SqlState
           /\ [x EXCEPT !.data = d] \in SqlState
           /\ [x EXCEPT !.dirty = FALSE] \in SqlState
           /\ [x EXCEPT !.dirty = FALSE, !.failed = TRUE] \in SqlState
           /\ [x EXCEPT !.failed = FALSE] \in SqlState
           /\ x.data \in SUBSET Change
BY DEF SqlState

\* The database summary of one window changes.
LEMMA SqlType ==
    ASSUME Drains, NEW w \in Windows, NEW x \in SqlState, sql' = [sql EXCEPT ![w] = x]
    PROVE  sql' \in [Windows -> SqlState]
BY DEF Drains, TypeOK

LEMMA NextDrains == Drains /\ [Next]_vars => Drains'
<1> SUFFICES ASSUME Drains, [Next]_vars PROVE Drains'
  OBVIOUS
<1>0. /\ \A w \in Windows : /\ switch[w] \in SwitchState /\ sql[w] \in SqlState /\ slot[w] \in Slots
                            /\ Len(queue[w]) \in 0..MaxQueue + 1
      /\ \A w \in Windows, st \in {"none", "kv", "sql", "move", "reload"}, n \in 0..MaxQueue + 1 :
           /\ [switch[w] EXCEPT !.st = st, !.ahead = n] \in SwitchState
           /\ [switch[w] EXCEPT !.st = st, !.ahead = n].st = st
      /\ 0 \in 0..MaxQueue + 1 /\ 1 \in 0..MaxQueue + 1
      /\ NoSwitch \in SwitchState /\ NoSwitch.st = "none"
  <2>1. \A w \in Windows : /\ switch[w] \in SwitchState /\ sql[w] \in SqlState /\ slot[w] \in Slots
                            /\ Len(queue[w]) \in Nat /\ Len(queue[w]) <= MaxQueue
    BY DEF Drains, TypeOK
  <2>2. \A n \in Nat : n <= MaxQueue => n \in 0..MaxQueue + 1
    BY VaultSlotsAssumption
  <2>3. 0 \in 0..MaxQueue + 1 /\ 1 \in 0..MaxQueue + 1
    BY VaultSlotsAssumption
  <2>4. \A w \in Windows, st \in {"none", "kv", "sql", "move", "reload"}, n \in 0..MaxQueue + 1 :
          /\ [switch[w] EXCEPT !.st = st, !.ahead = n] \in SwitchState
          /\ [switch[w] EXCEPT !.st = st, !.ahead = n].st = st
    BY <2>1 DEF SwitchState
  <2>5. QED
    BY <2>1, <2>2, <2>3, <2>4, Constants
<1>1. ASSUME NEW w \in Windows, OpenWindow(w) \/ Reload(w) PROVE Drains'
  BY <1>1, HydrateDrains DEF OpenWindow, Reload
<1>2. ASSUME NEW w \in Windows, CloseWindow(w) PROVE Drains'
  <2>1. Gone({w}) /\ UNCHANGED <<doc, current, disk, blob>>
    BY <1>2 DEF CloseWindow, vaultVars
  <2>2. doc' \in [Slots -> Contents] /\ current' \in Slots
        /\ disk' \in [doc : [Slots -> Contents], current : Slots] /\ blob' = blob
    BY <2>1 DEF Drains, TypeOK
  <2>3. {w} \in SUBSET Windows
    OBVIOUS
  <2>4. QED
    BY <2>1, <2>2, <2>3, GoneDrains
<1>3. ASSUME NEW w \in Windows, NEW k \in Keys, NEW n \in Lens, KvSet(w, k, n) PROVE Drains'
  <2> DEFINE op == [puts |-> [x \in {k} |-> [len |-> n, from |-> slot[w], late |-> Late(w)]],
                    dels |-> {}, late |-> Late(w)]
  <2>1. op \in Write
    <3>1. slot[w] \in Slots /\ Late(w) \in BOOLEAN
      BY <1>0, LateType
    <3>2. QED
      BY <3>1, PutType
  <2>2. Enqueue(w, op) /\ op.late = Late(w)
    BY <1>3 DEF KvSet
  <2>3. QED
    BY <2>1, <2>2, EnqueueDrains
<1>4. ASSUME NEW w \in Windows, NEW ks \in SUBSET Keys,
             Enqueue(w, [puts |-> Empty, dels |-> ks, late |-> Late(w)])
      PROVE  Drains'
  BY <1>4, DelType, LateType, EnqueueDrains
<1>5. ASSUME NEW w \in Windows, NEW k \in Keys, KvDelete(w, k) PROVE Drains'
  BY <1>4, <1>5 DEF KvDelete
<1>6. ASSUME NEW w \in Windows, KvClear(w) PROVE Drains'
  BY <1>4, <1>6 DEF KvClear
<1>7. ASSUME NEW w \in Windows, Apply(w) PROVE Drains'
  BY <1>7, ApplyDrains
<1>8. ASSUME NEW w \in Windows, SqlWake(w) PROVE Drains'
  <2>1. CommandSlot \in Slots /\ blob[CommandSlot] \in SUBSET Change
    BY DEF CommandSlot, Drains, TypeOK
  <2>2. sql' \in [Windows -> SqlState]
    <3>1. [sql[w] EXCEPT !.awake = TRUE, !.data = blob[CommandSlot]] \in SqlState
      BY <1>0, <2>1, SqlUpdates
    <3>2. QED
      BY <1>8, <3>1, SqlType DEF SqlWake
  <2>3. QED
    BY <1>8, <2>2, SqlDrains DEF SqlWake, SqlUnchanged, vaultVars, Drains, TypeOK
<1>9. ASSUME NEW w \in Windows, SqlChange(w) PROVE Drains'
  <2>1. NewChange(w) \in Change
    BY <1>0, LateType DEF Change, NewChange
  <2>2. sql' \in [Windows -> SqlState]
    <3> DEFINE d == sql[w].data \union {NewChange(w)}
               x == [sql[w] EXCEPT !.data = d, !.dirty = TRUE]
    <3>1. x \in SqlState
      <4>1. sql[w] \in SqlState
        BY <1>0
      <4>2. d \in SUBSET Change
        BY <2>1, <4>1 DEF SqlState
      <4>3. QED
        BY <4>1, <4>2, SqlUpdates
    <3>2. sql' = [sql EXCEPT ![w] = x]
      BY <1>9 DEF SqlChange
    <3>3. QED
      BY <3>1, <3>2, SqlType
  <2>3. QED
    BY <1>9, <2>2, SqlDrains DEF SqlChange, SqlUnchanged, vaultVars, Drains, TypeOK
<1>10. ASSUME NEW w \in Windows, SqlSave(w) PROVE Drains'
  <2>1. sql[w].data \in SUBSET Change /\ CommandSlot \in Slots
    BY <1>0 DEF SqlState, CommandSlot, Drains, TypeOK
  <2>2. blob' \in [Slots -> SUBSET Change]
    BY <1>10, <2>1 DEF SqlSave, Drains, TypeOK
  <2>3. sql' \in [Windows -> SqlState]
    <3>1. /\ [sql[w] EXCEPT !.dirty = FALSE] \in SqlState
          /\ [sql[w] EXCEPT !.dirty = FALSE, !.failed = TRUE] \in SqlState
      BY <1>0, SqlUpdates
    <3>2. \/ sql' = [sql EXCEPT ![w] = [sql[w] EXCEPT !.dirty = FALSE]]
          \/ sql' = [sql EXCEPT ![w] = [sql[w] EXCEPT !.dirty = FALSE, !.failed = TRUE]]
      BY <1>10 DEF SqlSave
    <3>3. QED
      BY <3>1, <3>2, SqlType
  <2>4. QED
    BY <1>10, <2>2, <2>3, SqlDrains DEF SqlSave, SqlUnchanged
<1>11. ASSUME NEW w \in Windows, SqlSkip(w) PROVE Drains'
  <2>1. {[x EXCEPT !.late = TRUE] : x \in sql[w].data} \in SUBSET Change
    <3>1. \A x \in Change : [x EXCEPT !.late = TRUE] \in Change
      BY DEF Change
    <3>2. sql[w].data \in SUBSET Change
      BY <1>0 DEF SqlState
    <3>3. QED
      BY <3>1, <3>2
  <2>2. sql' \in [Windows -> SqlState]
    <3> DEFINE x == [sql[w] EXCEPT !.data = {[y EXCEPT !.late = TRUE] : y \in sql[w].data}]
    <3>1. x \in SqlState
      BY <1>0, <2>1, SqlUpdates
    <3>2. sql' = [sql EXCEPT ![w] = x]
      BY <1>11 DEF SqlSkip
    <3>3. QED
      BY <3>1, <3>2, SqlType
  <2>3. QED
    BY <1>11, <2>2, SqlDrains DEF SqlSkip, SqlUnchanged, vaultVars, Drains, TypeOK
<1>12. ASSUME NEW w \in Windows, NEW s \in Slots, StartSwitch(w, s) PROVE Drains'
  <2> DEFINE sw == [st |-> "kv", to |-> s, ahead |-> Len(queue[w])]
  <2>1. sw \in SwitchState
    BY <1>0 DEF SwitchState
  <2>2. QED
    BY <1>12, <2>1, SwitchStepDrains DEF StartSwitch, vaultVars, mirrorVars, Drains, TypeOK
<1>13. ASSUME NEW w \in Windows, KvDrained(w) PROVE Drains'
  <2>1. PICK sw \in SwitchState :
          /\ switch' = [switch EXCEPT ![w] = sw]
          /\ sw.st = "none" \/ sw.st = "sql"
    <3> DEFINE n == IF sql[w].dirty THEN 1 ELSE 0
               x == [switch[w] EXCEPT !.st = "sql", !.ahead = n]
    <3>1. x \in SwitchState /\ x.st = "sql"
      <4>1. PICK m \in 0..MaxQueue + 1 : m = n
        BY <1>0
      <4>2. x = [switch[w] EXCEPT !.st = "sql", !.ahead = m]
        BY <4>1
      <4>3. /\ [switch[w] EXCEPT !.st = "sql", !.ahead = m] \in SwitchState
            /\ [switch[w] EXCEPT !.st = "sql", !.ahead = m].st = "sql"
        BY <1>0
      <4>4. QED
        BY <4>2, <4>3
    <3>2. switch' = [switch EXCEPT ![w] = x] \/ switch' = [switch EXCEPT ![w] = NoSwitch]
      BY <1>13 DEF KvDrained, Step
    <3>3. NoSwitch \in SwitchState /\ NoSwitch.st = "none"
      BY <1>0
    <3> HIDE DEF x
    <3>4. QED
      BY <3>1, <3>2, <3>3
  <2>2. failed' \in [Windows -> BOOLEAN]
    BY <1>13 DEF KvDrained, Drains, TypeOK
  <2>3. QED
    BY <1>13, <2>1, <2>2, SwitchStepDrains DEF KvDrained, vaultVars, Drains, TypeOK
<1>14. ASSUME NEW w \in Windows, SqlDrained(w) PROVE Drains'
  <2>1. PICK sw \in SwitchState :
          /\ switch' = [switch EXCEPT ![w] = sw]
          /\ sw.st = "none" \/ sw.st = "move"
    <3> DEFINE n == 0
               x == [switch[w] EXCEPT !.st = "move", !.ahead = n]
    <3>1. x \in SwitchState /\ x.st = "move"
      BY <1>0
    <3>2. switch' = [switch EXCEPT ![w] = x] \/ switch' = [switch EXCEPT ![w] = NoSwitch]
      BY <1>14 DEF SqlDrained, Step
    <3>3. QED
      BY <1>0, <3>1, <3>2
  <2>2. sql' \in [Windows -> SqlState]
    <3>1. [sql[w] EXCEPT !.failed = FALSE] \in SqlState
      BY <1>0, SqlUpdates
    <3>2. sql' = [sql EXCEPT ![w] = [sql[w] EXCEPT !.failed = FALSE]]
      BY <1>14 DEF SqlDrained
    <3>3. QED
      BY <3>1, <3>2, SqlType
  <2>3. QED
    BY <1>14, <2>1, <2>2, SwitchStepDrains DEF SqlDrained, vaultVars, mirrorVars, Drains, TypeOK
<1>15. ASSUME NEW w \in Windows, MoveSlot(w) PROVE Drains'
  <2>1. PICK sw \in SwitchState :
          /\ switch' = [switch EXCEPT ![w] = sw]
          /\ sw.st = "none" \/ sw.st = "reload"
    <3> DEFINE n == 0
               x == [switch[w] EXCEPT !.st = "reload", !.ahead = n]
    <3>1. x \in SwitchState /\ x.st = "reload"
      BY <1>0
    <3>2. switch' = [switch EXCEPT ![w] = x] \/ switch' = [switch EXCEPT ![w] = NoSwitch]
      BY <1>15 DEF MoveSlot, Step
    <3>3. QED
      BY <1>0, <3>1, <3>2
  <2>2. switch[w].to \in Slots
    BY <1>0 DEF SwitchState
  <2>3. disk' \in [doc : [Slots -> Contents], current : Slots]
    BY <1>15, <2>2 DEF MoveSlot, Flushed, Drains, TypeOK
  <2>4. QED
    BY <1>15, <2>1, <2>2, <2>3, SwitchStepDrains DEF MoveSlot, mirrorVars, Drains, TypeOK
<1>16. CASE Crash
  <2>1. Windows \in SUBSET Windows /\ doc' \in [Slots -> Contents] /\ current' \in Slots
        /\ disk' \in [doc : [Slots -> Contents], current : Slots] /\ blob' = blob
    BY <1>16 DEF Crash, Drains, TypeOK
  <2>2. QED
    BY <1>16, <2>1, GoneDrains DEF Crash
<1>17. CASE UNCHANGED vars
  BY <1>17 DEF vars, vaultVars, mirrorVars, Drains, TypeOK, Counted, SwitchDrains
<1>18. QED
  BY <1>1, <1>2, <1>3, <1>5, <1>6, <1>7, <1>8, <1>9, <1>10, <1>11, <1>12, <1>13, <1>14,
     <1>15, <1>16, <1>17
  DEF Next

LEMMA DrainsInvariant == Spec => []Drains
BY InitDrains, NextDrains, PTL DEF Spec

\* Every variable keeps its type; a switch never counts below zero or beyond
\* the queue's bound.
THEOREM VaultTypeCorrect == Spec => []TypeOK
<1>1. Drains => TypeOK
  BY DEF Drains
<1>2. QED
  BY <1>1, DrainsInvariant, PTL

\* Once a switch has drained the queue, only writes made since it began are
\* queued, for any number of windows.
THEOREM SwitchLeavesNothing == Spec => []SwitchDrains
<1>1. Drains => SwitchDrains
  BY DEF Drains
<1>2. QED
  BY <1>1, DrainsInvariant, PTL

(***************************************************************************)
(* A lone window: only late writes go astray                               *)
(***************************************************************************)

\* Applying a write in place keeps the document free of strays.
LEMMA ApplyNoStray ==
    ASSUME Drains, NoStray(doc), NEW op \in Write, InPlace(op), Marked(op)
    PROVE  NoStray([doc EXCEPT ![current] = Applied(op, @)])
<1> DEFINE d == [doc EXCEPT ![current] = Applied(op, @)]
<1>1. SUFFICES ASSUME NEW s \in Slots, NEW k \in DOMAIN d[s]
               PROVE  d[s][k].from = s \/ d[s][k].late
  BY DEF NoStray
<1>2. doc \in [Slots -> Contents] /\ current \in Slots
  BY DEF Drains, TypeOK
<1>3. CASE s # current
  BY <1>2, <1>3 DEF NoStray
<1>4. CASE s = current
  <2>1. d[s] = Applied(op, doc[current])
    BY <1>2, <1>4
  <2>2. CASE k \in DOMAIN op.puts
    BY <1>4, <2>1, <2>2 DEF Applied, InPlace, Marked
  <2>3. CASE k \notin DOMAIN op.puts
    <3>1. k \in DOMAIN doc[current] /\ d[s][k] = doc[current][k]
      BY <2>1, <2>3 DEF Applied
    <3>2. QED
      BY <1>2, <1>4, <3>1 DEF NoStray
  <2>4. QED
    BY <2>2, <2>3
<1>5. QED
  BY <1>3, <1>4

LEMMA InitLone == Init => LoneInv
<1>1. Init => Pointed /\ NoStray(doc) /\ NoStray(disk.doc)
  BY DEF Init, Pointed, NoStray, Empty
<1>2. QED
  BY <1>1, InitDrains DEF LoneInv

\* Every step that leaves the documents, the pointer and the queues alone, or
\* empties queues.
LEMMA QuietLone ==
    ASSUME LoneInv, Drains', doc' = doc \/ doc' = disk.doc, disk' = disk,
           \/ \A w \in Windows : queue'[w] = <<>>
           \/ current' = current /\ \A w \in Windows : queue'[w] = queue[w] \/ queue'[w] = <<>>
    PROVE  LoneInv'
<1>1. NoStray(doc)' /\ NoStray(disk.doc)'
  BY DEF LoneInv, NoStray
<1>2. Pointed'
  BY DEF LoneInv, Pointed, InPlace, Marked
<1>3. QED
  BY <1>1, <1>2 DEF LoneInv

LEMMA EnqueueLone ==
    ASSUME LoneInv, Drains', NEW w \in Windows, NEW op \in Write, InPlace(op), Marked(op),
           Enqueue(w, op)
    PROVE  LoneInv'
<1>1. doc' = doc /\ disk' = disk /\ current' = current
  BY DEF Enqueue, vaultVars
<1>2. \A i \in DOMAIN queue'[w] :
        (i \in DOMAIN queue[w] /\ queue'[w][i] = queue[w][i]) \/ queue'[w][i] = op
  BY DEF Enqueue, LoneInv, Drains, TypeOK
<1>3. \A v \in Windows : v # w => queue'[v] = queue[v]
  BY DEF Enqueue, LoneInv, Drains, TypeOK
<1>4. Pointed'
  BY <1>1, <1>2, <1>3 DEF LoneInv, Pointed, InPlace, Marked
<1>5. QED
  BY <1>1, <1>4 DEF LoneInv, NoStray

LEMMA ApplyLone == ASSUME LoneInv, Drains', NEW w \in Windows, Apply(w) PROVE LoneInv'
<1> DEFINE op == Head(queue[w])
<1>1. queue[w] \in Seq(Write) /\ queue[w] # <<>>
  BY DEF LoneInv, Drains, TypeOK, Apply
<1>2. /\ op \in Write /\ 1 \in DOMAIN queue[w] /\ op = queue[w][1]
      /\ \A i \in DOMAIN Tail(queue[w]) : i + 1 \in DOMAIN queue[w]
                                          /\ Tail(queue[w])[i] = queue[w][i + 1]
  BY <1>1
<1>3. InPlace(op) /\ Marked(op)
  BY <1>2 DEF LoneInv, Pointed
<1>4. NoStray([doc EXCEPT ![current] = Applied(op, @)])
  BY <1>2, <1>3, ApplyNoStray DEF LoneInv
<1>5. \/ /\ doc' = [doc EXCEPT ![current] = Applied(op, @)]
         /\ \E ok \in BOOLEAN : disk' = IF ok THEN [doc |-> doc', current |-> current] ELSE disk
      \/ UNCHANGED <<doc, disk>>
  BY DEF Apply, Flushed, CommandSlot
<1>6. NoStray(doc')
  BY <1>4, <1>5 DEF LoneInv
<1>7. NoStray(disk'.doc)
  BY <1>5, <1>6 DEF LoneInv
<1>8. current' = current /\ queue' = [queue EXCEPT ![w] = Tail(@)]
  BY DEF Apply
<1>9. Pointed'
  <2>1. queue'[w] = Tail(queue[w]) /\ \A v \in Windows : v # w => queue'[v] = queue[v]
    BY <1>8 DEF LoneInv, Drains, TypeOK
  <2>2. QED
    BY <1>2, <1>8, <2>1 DEF LoneInv, Pointed, InPlace, Marked
<1>10. QED
  BY <1>6, <1>7, <1>9 DEF LoneInv, NoStray

\* The pointer moves only when the lone window has drained its queue.
LEMMA MoveLone == ASSUME Lone, LoneInv, Drains', NEW w \in Windows, MoveSlot(w) PROVE LoneInv'
<1>1. \A v \in Windows : \A i \in DOMAIN queue[v] : queue[v][i].late
  BY DEF Lone, LoneInv, Drains, SwitchDrains, MoveSlot
<1>2. queue' = queue /\ doc' = doc
  BY DEF MoveSlot, mirrorVars
<1>3. Pointed'
  BY <1>1, <1>2 DEF LoneInv, Pointed, InPlace, Marked
<1>4. disk'.doc = doc \/ disk' = disk
  BY DEF MoveSlot, Flushed
<1>5. NoStray(doc)' /\ NoStray(disk.doc)'
  BY <1>2, <1>4 DEF LoneInv, NoStray
<1>6. QED
  BY <1>3, <1>5 DEF LoneInv

LEMMA NextLone == ASSUME Lone PROVE LoneInv /\ [Next]_vars => LoneInv'
<1> SUFFICES ASSUME LoneInv, [Next]_vars PROVE LoneInv'
  OBVIOUS
<1>0. Drains'
  BY NextDrains DEF LoneInv
<1>1. ASSUME NEW w \in Windows, Hydrate(w) PROVE LoneInv'
  <2>1. \A v \in Windows : queue'[v] = queue[v] \/ queue'[v] = <<>>
    BY <1>1 DEF Hydrate, LoneInv, Drains, TypeOK
  <2>2. QED
    BY <1>0, <1>1, <2>1, QuietLone DEF Hydrate, vaultVars
<1>2. ASSUME NEW ws \in SUBSET Windows, Gone(ws) PROVE \A v \in Windows :
        (queue'[v] = queue[v] \/ queue'[v] = <<>>) /\ (ws = Windows => queue'[v] = <<>>)
  BY <1>2 DEF Gone
<1>3. ASSUME NEW w \in Windows, CloseWindow(w) PROVE LoneInv'
  <2>1. {w} \in SUBSET Windows
    OBVIOUS
  <2>2. \A v \in Windows : queue'[v] = queue[v] \/ queue'[v] = <<>>
    BY <1>2, <1>3, <2>1 DEF CloseWindow
  <2>3. QED
    BY <1>0, <1>3, <2>2, QuietLone DEF CloseWindow, vaultVars
<1>4. ASSUME NEW w \in Windows, NEW k \in Keys, NEW n \in Lens, KvSet(w, k, n) PROVE LoneInv'
  <2> DEFINE op == [puts |-> [x \in {k} |-> [len |-> n, from |-> slot[w], late |-> Late(w)]],
                    dels |-> {}, late |-> Late(w)]
  <2>1. slot[w] \in Slots /\ Late(w) \in BOOLEAN
    BY LateType DEF LoneInv, Drains, TypeOK
  <2>2. op \in Write
    BY <2>1, PutType
  <2>3. InPlace(op) /\ Marked(op)
    BY <2>1 DEF InPlace, Marked, Late
  <2>4. QED
    BY <1>0, <1>4, <2>2, <2>3, EnqueueLone DEF KvSet
<1>5. ASSUME NEW w \in Windows, NEW ks \in SUBSET Keys,
             Enqueue(w, [puts |-> Empty, dels |-> ks, late |-> Late(w)])
      PROVE  LoneInv'
  <2> DEFINE op == [puts |-> Empty, dels |-> ks, late |-> Late(w)]
  <2>1. op \in Write
    BY DelType, LateType
  <2>2. InPlace(op) /\ Marked(op)
    BY DEF InPlace, Marked, Empty
  <2>3. QED
    BY <1>0, <1>5, <2>1, <2>2, EnqueueLone
<1>6. ASSUME NEW w \in Windows, (\E k \in Keys : KvDelete(w, k)) \/ KvClear(w) PROVE LoneInv'
  BY <1>5, <1>6 DEF KvDelete, KvClear
<1>7. ASSUME NEW w \in Windows, Apply(w) PROVE LoneInv'
  BY <1>0, <1>7, ApplyLone
<1>8. ASSUME UNCHANGED <<doc, current, disk, queue>> PROVE LoneInv'
  BY <1>0, <1>8, QuietLone
<1>9. ASSUME NEW w \in Windows,
             \/ SqlWake(w) \/ SqlChange(w) \/ SqlSave(w) \/ SqlSkip(w)
             \/ (\E s \in Slots : StartSwitch(w, s)) \/ KvDrained(w) \/ SqlDrained(w)
      PROVE  LoneInv'
  BY <1>8, <1>9
  DEF SqlWake, SqlChange, SqlSave, SqlSkip, StartSwitch, KvDrained, SqlDrained,
      SqlUnchanged, vaultVars, mirrorVars
<1>10. ASSUME NEW w \in Windows, MoveSlot(w) PROVE LoneInv'
  BY <1>0, <1>10, MoveLone
<1>11. CASE Crash
  <2>1. \A v \in Windows : queue'[v] = <<>>
    BY <1>2, <1>11 DEF Crash
  <2>2. QED
    BY <1>0, <1>11, <2>1, QuietLone DEF Crash
<1>12. CASE UNCHANGED vars
  BY <1>8, <1>12 DEF vars, vaultVars, mirrorVars
<1>13. QED
  BY <1>1, <1>3, <1>4, <1>6, <1>7, <1>9, <1>10, <1>11, <1>12
  DEF Next, OpenWindow, Reload

\* With one window, an entry of another slot's application is in a slot's
\* document only if it was written after a switch began or once the pointer
\* had moved.
THEOREM EarlyWritesStay == ASSUME Lone PROVE Spec => []OnlyLateStray
<1>1. Init => LoneInv
  BY InitLone
<1>2. LoneInv /\ [Next]_vars => LoneInv'
  BY NextLone
<1>3. LoneInv => OnlyLateStray
  BY DEF LoneInv, NoStray, OnlyLateStray
<1>4. QED
  BY <1>1, <1>2, <1>3, PTL DEF Spec

(***************************************************************************)
(* A lone window: a database is overwritten by late changes only           *)
(***************************************************************************)

\* A switch goes away from the slot the window was hydrated in.
Away == \A w \in Windows : switch[w].st # "none" => switch[w].to # slot[w]

HasLate(D) == \E x \in D : x.late
Own(D, s)  == (\E x \in D : x.from # s) => HasLate(D)

\* The switch has passed the saves of the SQL tier, or may.
Released(w) == \/ switch[w].st \in {"move", "reload"}
               \/ switch[w].st = "sql" /\ switch[w].ahead = 0

\* What is due to be saved may be saved where the pointer is, and once the
\* switch has passed the saves, wherever the pointer goes.
SqlOK(w) ==
    /\ ~sql[w].awake => sql[w].data = {} /\ ~sql[w].dirty
    /\ slot[w] = current => Own(sql[w].data, current)
    /\ sql[w].dirty => /\ sql[w].data # {} /\ Own(sql[w].data, current)
                       /\ Released(w) => HasLate(sql[w].data)

OverInv == Drains /\ Away /\ OnlyLateOverwrites /\ \A w \in Windows : SqlOK(w)

LEMMA SwitchFields ==
    ASSUME TypeOK, NEW w \in Windows, NEW st, NEW n
    PROVE  /\ [switch[w] EXCEPT !.ahead = n].st = switch[w].st
           /\ [switch[w] EXCEPT !.ahead = n].to = switch[w].to
           /\ [switch[w] EXCEPT !.ahead = n].ahead = n
           /\ [switch[w] EXCEPT !.st = st, !.ahead = n].st = st
           /\ [switch[w] EXCEPT !.st = st, !.ahead = n].to = switch[w].to
           /\ [switch[w] EXCEPT !.st = st, !.ahead = n].ahead = n
BY DEF TypeOK, SwitchState

\* How each step moves the switches.
LEMMA SwitchesMove ==
    ASSUME Drains, NEW w \in Windows, NEW v \in Windows
    PROVE  /\ Apply(w) => /\ switch'[v].st = switch[v].st /\ switch'[v].to = switch[v].to
                          /\ switch[v].st # "kv" => switch'[v].ahead = switch[v].ahead
           /\ SqlSave(w) \/ SqlSkip(w) =>
                /\ switch'[v].st = switch[v].st /\ switch'[v].to = switch[v].to
                /\ v # w => switch'[v] = switch[v]
           /\ KvDrained(w) => \/ v # w /\ switch'[v] = switch[v]
                              \/ v = w /\ switch'[v].st = "none"
                              \/ /\ v = w /\ switch[v].st # "none"
                                 /\ switch'[v].st = "sql" /\ switch'[v].to = switch[v].to
                                 /\ switch'[v].ahead = IF sql[v].dirty THEN 1 ELSE 0
           /\ SqlDrained(w) => \/ v # w /\ switch'[v] = switch[v]
                               \/ v = w /\ switch'[v].st = "none"
                               \/ /\ v = w /\ Released(v)
                                  /\ switch'[v].st = "move" /\ switch'[v].to = switch[v].to
           /\ MoveSlot(w) => \/ v # w /\ switch'[v] = switch[v]
                             \/ v = w /\ switch'[v].st = "none"
                             \/ /\ v = w /\ switch[v].st # "none"
                                /\ switch'[v].st = "reload" /\ switch'[v].to = switch[v].to
<1> TypeOK /\ switch \in [Windows -> SwitchState]
  BY DEF Drains, TypeOK
<1>1. ASSUME Apply(w)
      PROVE  /\ switch'[v].st = switch[v].st /\ switch'[v].to = switch[v].to
             /\ switch[v].st # "kv" => switch'[v].ahead = switch[v].ahead
  <2>1. PICK n : n = IF switch[w].st = "kv" /\ switch[w].ahead > 0
                     THEN switch[w].ahead - 1 ELSE switch[w].ahead
    OBVIOUS
  <2>2. /\ switch' = [switch EXCEPT ![w] = [switch[w] EXCEPT !.ahead = n]]
        /\ switch[w].st # "kv" => n = switch[w].ahead
    BY <1>1, <2>1 DEF Apply, Awaited
  <2> QED
    BY <2>2, SwitchFields
<1>2. ASSUME SqlSave(w) \/ SqlSkip(w)
      PROVE  /\ switch'[v].st = switch[v].st /\ switch'[v].to = switch[v].to
             /\ v # w => switch'[v] = switch[v]
  <2>1. PICK n : n = IF switch[w].st = "sql" THEN 0 ELSE switch[w].ahead
    OBVIOUS
  <2>2. switch' = [switch EXCEPT ![w] = [switch[w] EXCEPT !.ahead = n]]
    BY <1>2, <2>1 DEF SqlSave, SqlSkip, SqlAwaited
  <2> QED
    BY <2>2, SwitchFields
<1>3. ASSUME NEW st, NEW n, Step(w, st, n) \/ switch' = [switch EXCEPT ![w] = NoSwitch]
      PROVE  \/ v # w /\ switch'[v] = switch[v]
             \/ v = w /\ switch'[v].st = "none"
             \/ v = w /\ switch'[v].st = st /\ switch'[v].to = switch[v].to /\ switch'[v].ahead = n
  <2>1. CASE v # w
    BY <1>3, <2>1 DEF Step
  <2>2. CASE v = w /\ switch' = [switch EXCEPT ![w] = NoSwitch]
    BY <2>2, Constants
  <2>3. CASE v = w /\ Step(w, st, n)
    <3>1. switch'[w] = [switch[w] EXCEPT !.st = st, !.ahead = n]
      BY <2>3 DEF Step
    <3> QED
      BY <2>3, <3>1, SwitchFields
  <2> QED
    BY <1>3, <2>1, <2>2, <2>3
<1>4. ASSUME KvDrained(w)
      PROVE  \/ v # w /\ switch'[v] = switch[v]
             \/ v = w /\ switch'[v].st = "none"
             \/ /\ v = w /\ switch[v].st # "none"
                /\ switch'[v].st = "sql" /\ switch'[v].to = switch[v].to
                /\ switch'[v].ahead = IF sql[v].dirty THEN 1 ELSE 0
  <2>1. PICK n : n = IF sql[w].dirty THEN 1 ELSE 0
    OBVIOUS
  <2>2. Step(w, "sql", n) \/ switch' = [switch EXCEPT ![w] = NoSwitch]
    BY <1>4, <2>1 DEF KvDrained
  <2>3. switch[w].st # "none"
    BY <1>4 DEF KvDrained
  <2> QED
    BY <1>3, <2>1, <2>2, <2>3
<1>5. ASSUME SqlDrained(w)
      PROVE  \/ v # w /\ switch'[v] = switch[v]
             \/ v = w /\ switch'[v].st = "none"
             \/ v = w /\ Released(v) /\ switch'[v].st = "move" /\ switch'[v].to = switch[v].to
  BY <1>3, <1>5 DEF SqlDrained, Released
<1>6. ASSUME MoveSlot(w)
      PROVE  \/ v # w /\ switch'[v] = switch[v]
             \/ v = w /\ switch'[v].st = "none"
             \/ /\ v = w /\ switch[v].st # "none"
                /\ switch'[v].st = "reload" /\ switch'[v].to = switch[v].to
  BY <1>3, <1>6 DEF MoveSlot
<1> QED
  BY <1>1, <1>2, <1>4, <1>5, <1>6

LEMMA AwayKept == ASSUME Drains, Away, [Next]_vars PROVE Away'
<1> TypeOK /\ switch \in [Windows -> SwitchState] /\ slot \in [Windows -> Slots]
  BY DEF Drains, TypeOK
<1>1. ASSUME NEW w \in Windows, Hydrate(w) PROVE Away'
  BY <1>1, Constants DEF Hydrate, Away
<1>2. ASSUME NEW ws \in SUBSET Windows, Gone(ws) PROVE Away'
  BY <1>2, Constants DEF Gone, Away
<1>3. ASSUME UNCHANGED <<slot, switch>> PROVE Away'
  BY <1>3 DEF Away
<1>4. ASSUME slot' = slot,
             \A v \in Windows : \/ switch'[v].st = "none"
                                \/ switch[v].st # "none" /\ switch'[v].to = switch[v].to
      PROVE  Away'
  BY <1>4 DEF Away
<1>5. ASSUME NEW w \in Windows, Apply(w) PROVE Away'
  BY <1>4, <1>5, SwitchesMove DEF Apply
<1>6. ASSUME NEW w \in Windows, SqlSave(w) \/ SqlSkip(w) PROVE Away'
  BY <1>4, <1>6, SwitchesMove DEF SqlSave, SqlSkip, SqlUnchanged, mirrorVars
<1>7. ASSUME NEW w \in Windows, KvDrained(w) PROVE Away'
  <2>1. \A v \in Windows : \/ switch'[v].st = "none" \/ switch'[v] = switch[v]
                           \/ switch[v].st # "none" /\ switch'[v].to = switch[v].to
    BY <1>7, SwitchesMove
  <2> QED
    BY <1>4, <1>7, <2>1 DEF KvDrained
<1>8. ASSUME NEW w \in Windows, SqlDrained(w) PROVE Away'
  <2>1. \A v \in Windows : \/ switch'[v].st = "none" \/ switch'[v] = switch[v]
                           \/ switch[v].st # "none" /\ switch'[v].to = switch[v].to
    BY <1>8, SwitchesMove DEF Released
  <2> QED
    BY <1>4, <1>8, <2>1 DEF SqlDrained, mirrorVars
<1>9. ASSUME NEW w \in Windows, MoveSlot(w) PROVE Away'
  <2>1. \A v \in Windows : \/ switch'[v].st = "none" \/ switch'[v] = switch[v]
                           \/ switch[v].st # "none" /\ switch'[v].to = switch[v].to
    BY <1>9, SwitchesMove
  <2> QED
    BY <1>4, <1>9, <2>1 DEF MoveSlot, mirrorVars
<1>10. ASSUME NEW w \in Windows, NEW s \in Slots, StartSwitch(w, s) PROVE Away'
  BY <1>10 DEF StartSwitch, Away, mirrorVars
<1>11. ASSUME NEW w \in Windows, CloseWindow(w) PROVE Away'
  <2>1. {w} \in SUBSET Windows
    OBVIOUS
  <2> QED
    BY <1>2, <1>11, <2>1 DEF CloseWindow
<1>12. CASE Crash
  <2>1. Windows \in SUBSET Windows
    OBVIOUS
  <2> QED
    BY <1>2, <1>12, <2>1 DEF Crash
<1>13. ASSUME NEW w \in Windows,
              \/ \E k \in Keys, n \in Lens : KvSet(w, k, n)
              \/ \E k \in Keys : KvDelete(w, k)
              \/ KvClear(w) \/ SqlWake(w) \/ SqlChange(w)
       PROVE  Away'
  <2>1. UNCHANGED <<slot, switch>>
    BY <1>13 DEF KvSet, KvDelete, KvClear, Enqueue, SqlWake, SqlChange, SqlUnchanged, mirrorVars
  <2> QED
    BY <1>3, <2>1
<1>14. CASE UNCHANGED vars
  BY <1>3, <1>14 DEF vars, mirrorVars
<1> QED
  BY <1>1, <1>5, <1>6, <1>7, <1>8, <1>9, <1>10, <1>11, <1>12, <1>13, <1>14
  DEF Next, OpenWindow, Reload

\* Windows whose database, slot and pointer stay keep what is said of them if
\* their switch passes the saves only when nothing is due.
LEMMA SqlStays ==
    ASSUME NEW v \in Windows, SqlOK(v), sql'[v].awake = sql[v].awake, sql'[v].data = sql[v].data,
           sql'[v].dirty = sql[v].dirty, slot'[v] = slot[v], current' = current,
           Released(v)' /\ sql[v].dirty => Released(v)
    PROVE  SqlOK(v)'
BY DEF SqlOK

LEMMA AsleepOK == ASSUME NEW v \in Windows, sql'[v] = Asleep PROVE SqlOK(v)'
BY DEF SqlOK, Asleep, Own

LEMMA HydrateOver == ASSUME OverInv, NEW w \in Windows, Hydrate(w) PROVE \A v \in Windows : SqlOK(v)'
<1> TypeOK
  BY DEF OverInv, Drains
<1>1. SqlOK(w)'
  <2>1. sql'[w] = Asleep
    BY DEF Hydrate, TypeOK
  <2> QED
    BY <2>1, AsleepOK
<1>2. ASSUME NEW v \in Windows, v # w PROVE SqlOK(v)'
  <2>1. sql'[v] = sql[v] /\ slot'[v] = slot[v] /\ switch'[v] = switch[v] /\ current' = current
    BY <1>2 DEF Hydrate, vaultVars, TypeOK
  <2> QED
    BY <2>1, SqlStays DEF OverInv, Released
<1> QED
  BY <1>1, <1>2

LEMMA GoneOver ==
    ASSUME OverInv, NEW ws \in SUBSET Windows, Gone(ws), current' = current \/ ws = Windows
    PROVE  \A v \in Windows : SqlOK(v)'
<1>1. ASSUME NEW v \in ws PROVE SqlOK(v)'
  <2>1. sql'[v] = Asleep
    BY <1>1 DEF Gone
  <2> QED
    BY <2>1, AsleepOK
<1>2. ASSUME NEW v \in Windows, v \notin ws PROVE SqlOK(v)'
  <2>1. sql'[v] = sql[v] /\ slot'[v] = slot[v] /\ switch'[v] = switch[v] /\ current' = current
    BY <1>2 DEF Gone
  <2> QED
    BY <2>1, SqlStays DEF OverInv, Released
<1> QED
  BY <1>1, <1>2

LEMMA WakeOver == ASSUME OverInv, NEW w \in Windows, SqlWake(w) PROVE \A v \in Windows : SqlOK(v)'
<1> TypeOK
  BY DEF OverInv, Drains
<1>1. UNCHANGED <<current, slot, switch>>
  BY DEF SqlWake, SqlUnchanged, mirrorVars, vaultVars
<1>2. sql[w] \in SqlState /\ ~sql[w].awake /\ ~sql[w].dirty
  BY DEF OverInv, SqlOK, SqlWake, TypeOK
<1>3. sql'[w] = [sql[w] EXCEPT !.awake = TRUE, !.data = blob[current]]
      /\ \A v \in Windows \ {w} : sql'[v] = sql[v]
  BY DEF SqlWake, CommandSlot, TypeOK
<1>4. sql'[w].awake /\ ~sql'[w].dirty /\ sql'[w].data = blob[current]
  BY <1>2, <1>3 DEF SqlState
<1>5. Own(blob[current], current)
  BY DEF OverInv, OnlyLateOverwrites, Own, HasLate, TypeOK
<1>6. SqlOK(w)'
  BY <1>1, <1>4, <1>5 DEF SqlOK
<1>7. \A v \in Windows \ {w} : SqlOK(v)'
  BY <1>1, <1>3, SqlStays DEF OverInv, Released
<1> QED
  BY <1>6, <1>7

LEMMA ChangeOver == ASSUME OverInv, NEW w \in Windows, SqlChange(w) PROVE \A v \in Windows : SqlOK(v)'
<1> TypeOK
  BY DEF OverInv, Drains
<1>1. UNCHANGED <<current, slot, switch>>
  BY DEF SqlChange, SqlUnchanged, mirrorVars, vaultVars
<1>2. sql[w] \in SqlState /\ sql[w].awake
  BY DEF SqlChange, TypeOK
<1>3. PICK D : D = sql[w].data \union {NewChange(w)}
  OBVIOUS
<1>4. sql'[w] = [sql[w] EXCEPT !.data = D, !.dirty = TRUE] /\ \A v \in Windows \ {w} : sql'[v] = sql[v]
  BY <1>3 DEF SqlChange, TypeOK
<1>5. sql'[w].awake /\ sql'[w].dirty /\ sql'[w].data = D
  BY <1>2, <1>4 DEF SqlState
<1>6. NewChange(w).from = slot[w] /\ NewChange(w).late = Late(w)
  BY DEF NewChange
<1>7. D # {} /\ (Late(w) => HasLate(D)) /\ (HasLate(sql[w].data) => HasLate(D))
  BY <1>3, <1>6 DEF HasLate
<1>8. Own(D, current)
  <2>1. CASE Late(w)
    BY <1>7, <2>1 DEF Own
  <2>2. CASE ~Late(w)
    <3>1. slot[w] = current /\ Own(sql[w].data, current)
      BY <2>2 DEF Late, OverInv, SqlOK
    <3> QED
      BY <1>3, <1>6, <1>7, <3>1 DEF Own
  <2> QED
    BY <2>1, <2>2
<1>9. Released(w)' => HasLate(D)
  BY <1>1, <1>7 DEF Released, Late
<1>10. SqlOK(w)'
  BY <1>1, <1>5, <1>7, <1>8, <1>9 DEF SqlOK
<1>11. \A v \in Windows \ {w} : SqlOK(v)'
  BY <1>1, <1>4, SqlStays DEF OverInv, Released
<1> QED
  BY <1>10, <1>11

\* A save stores what may be stored where the pointer is.
LEMMA SaveOver ==
    ASSUME OverInv, NEW w \in Windows, SqlSave(w)
    PROVE  OnlyLateOverwrites' /\ \A v \in Windows : SqlOK(v)'
<1> TypeOK
  BY DEF OverInv, Drains
<1>1. UNCHANGED <<current, slot>>
  BY DEF SqlSave, SqlUnchanged, mirrorVars
<1>2. sql[w] \in SqlState /\ sql[w].dirty
  BY DEF SqlSave, TypeOK
<1>3. Own(sql[w].data, current)
  BY <1>2 DEF OverInv, SqlOK
<1>4. OnlyLateOverwrites'
  <2>1. blob' = [blob EXCEPT ![current] = sql[w].data] \/ blob' = blob
    BY DEF SqlSave, CommandSlot
  <2>2. \A s \in Slots : blob'[s] = blob[s] \/ (s = current /\ blob'[s] = sql[w].data)
    BY <2>1 DEF TypeOK
  <2> QED
    BY <1>3, <2>2 DEF OverInv, OnlyLateOverwrites, Own, HasLate
<1>5. /\ sql'[w].awake = sql[w].awake /\ sql'[w].data = sql[w].data /\ ~sql'[w].dirty
      /\ \A v \in Windows \ {w} : sql'[v] = sql[v]
  <2>1. \/ sql' = [sql EXCEPT ![w] = [sql[w] EXCEPT !.dirty = FALSE]]
        \/ sql' = [sql EXCEPT ![w] = [sql[w] EXCEPT !.dirty = FALSE, !.failed = TRUE]]
    BY DEF SqlSave
  <2>2. sql'[w] \in {[sql[w] EXCEPT !.dirty = FALSE], [sql[w] EXCEPT !.dirty = FALSE, !.failed = TRUE]}
        /\ \A v \in Windows \ {w} : sql'[v] = sql[v]
    BY <2>1 DEF TypeOK
  <2> QED
    BY <1>2, <2>2 DEF SqlState
<1>6. SqlOK(w)'
  BY <1>1, <1>5 DEF OverInv, SqlOK
<1>7. \A v \in Windows \ {w} : SqlOK(v)'
  BY <1>1, <1>5, SqlStays, SwitchesMove DEF OverInv, Released
<1> QED
  BY <1>4, <1>6, <1>7

LEMMA SkipOver == ASSUME OverInv, NEW w \in Windows, SqlSkip(w) PROVE \A v \in Windows : SqlOK(v)'
<1> TypeOK
  BY DEF OverInv, Drains
<1>1. UNCHANGED <<current, slot>>
  BY DEF SqlSkip, SqlUnchanged, mirrorVars, vaultVars
<1>2. sql[w] \in SqlState /\ sql[w].dirty /\ sql[w].data # {} /\ sql[w].data \subseteq Change
  BY DEF SqlSkip, OverInv, SqlOK, TypeOK, SqlState
<1>3. PICK D : D = {[x EXCEPT !.late = TRUE] : x \in sql[w].data}
  OBVIOUS
<1>4. HasLate(D) /\ D # {}
  <2>1. PICK y \in sql[w].data : y \in Change
    BY <1>2
  <2>2. [y EXCEPT !.late = TRUE] \in D
    BY <1>3, <2>1
  <2>3. [y EXCEPT !.late = TRUE].late
    BY <2>1 DEF Change
  <2> QED
    BY <2>2, <2>3 DEF HasLate
<1>5. sql'[w] = [sql[w] EXCEPT !.data = D] /\ \A v \in Windows \ {w} : sql'[v] = sql[v]
  BY <1>3 DEF SqlSkip, TypeOK
<1>6. sql'[w].awake = sql[w].awake /\ sql'[w].dirty /\ sql'[w].data = D
  BY <1>2, <1>5 DEF SqlState
<1>7. SqlOK(w)'
  BY <1>1, <1>2, <1>4, <1>6 DEF OverInv, SqlOK, Own
<1>8. \A v \in Windows \ {w} : SqlOK(v)'
  BY <1>1, <1>5, SqlStays, SwitchesMove DEF OverInv, Released
<1> QED
  BY <1>7, <1>8

\* The lone window's switch moves the pointer when no save is due, or a late one.
LEMMA MoveOver ==
    ASSUME Lone, OverInv, NEW w \in Windows, MoveSlot(w)
    PROVE  \A v \in Windows : SqlOK(v)'
<1>1. \A v \in Windows : v = w
  BY DEF Lone
<1>2. switch[w].st = "move" /\ current' = switch[w].to /\ UNCHANGED <<slot, sql>>
  BY DEF MoveSlot, mirrorVars
<1>3. slot'[w] # current'
  BY <1>2 DEF OverInv, Away
<1>4. sql[w].dirty => HasLate(sql[w].data) /\ sql[w].data # {}
  BY <1>2 DEF OverInv, SqlOK, Released
<1>5. SqlOK(w)'
  BY <1>2, <1>3, <1>4 DEF OverInv, SqlOK, Own
<1> QED
  BY <1>1, <1>5

LEMMA NextOver == ASSUME Lone PROVE OverInv /\ [Next]_vars => OverInv'
<1> SUFFICES ASSUME OverInv, [Next]_vars PROVE OverInv'
  OBVIOUS
<1> Drains /\ TypeOK /\ \A v \in Windows : SqlOK(v)
  BY DEF OverInv, Drains
<1>0. Drains' /\ Away'
  BY NextDrains, AwayKept DEF OverInv
<1>1. ASSUME blob' = blob, \A v \in Windows : SqlOK(v)' PROVE OverInv'
  BY <1>0, <1>1 DEF OverInv, OnlyLateOverwrites
<1>2. ASSUME NEW w \in Windows, Hydrate(w) PROVE OverInv'
  BY <1>1, <1>2, HydrateOver DEF Hydrate, vaultVars
<1>3. ASSUME NEW w \in Windows, CloseWindow(w) PROVE OverInv'
  <2>1. {w} \in SUBSET Windows
    OBVIOUS
  <2> QED
    BY <1>1, <1>3, <2>1, GoneOver DEF CloseWindow, vaultVars
<1>4. CASE Crash
  <2>1. Windows \in SUBSET Windows
    OBVIOUS
  <2> QED
    BY <1>1, <1>4, <2>1, GoneOver DEF Crash
<1>5. ASSUME UNCHANGED <<blob, current, slot, sql>>,
             \A v \in Windows : Released(v)' /\ sql[v].dirty => Released(v)
      PROVE  OverInv'
  BY <1>1, <1>5, SqlStays
<1>6. ASSUME NEW w \in Windows,
             \/ \E k \in Keys, n \in Lens : KvSet(w, k, n)
             \/ \E k \in Keys : KvDelete(w, k)
             \/ KvClear(w)
      PROVE  OverInv'
  <2>1. UNCHANGED <<blob, current, slot, sql, switch>>
    BY <1>6 DEF KvSet, KvDelete, KvClear, Enqueue, vaultVars
  <2> QED
    BY <1>5, <2>1 DEF Released
<1>7. ASSUME NEW w \in Windows, Apply(w) PROVE OverInv'
  <2>1. UNCHANGED <<blob, current, slot, sql>>
    BY <1>7 DEF Apply
  <2> QED
    BY <1>5, <1>7, <2>1, SwitchesMove DEF Released
<1>8. ASSUME NEW w \in Windows, SqlWake(w) PROVE OverInv'
  BY <1>1, <1>8, WakeOver DEF SqlWake, vaultVars
<1>9. ASSUME NEW w \in Windows, SqlChange(w) PROVE OverInv'
  BY <1>1, <1>9, ChangeOver DEF SqlChange, vaultVars
<1>10. ASSUME NEW w \in Windows, SqlSave(w) PROVE OverInv'
  BY <1>0, <1>10, SaveOver DEF OverInv
<1>11. ASSUME NEW w \in Windows, SqlSkip(w) PROVE OverInv'
  BY <1>1, <1>11, SkipOver DEF SqlSkip, vaultVars
<1>12. ASSUME NEW w \in Windows, NEW s \in Slots, StartSwitch(w, s) PROVE OverInv'
  <2>1. UNCHANGED <<blob, current, slot, sql>>
    BY <1>12 DEF StartSwitch, vaultVars, mirrorVars
  <2>2. switch'[w].st = "kv" /\ \A v \in Windows \ {w} : switch'[v] = switch[v]
    BY <1>12 DEF StartSwitch, TypeOK
  <2> QED
    BY <1>5, <2>1, <2>2 DEF Released
<1>13. ASSUME NEW w \in Windows, KvDrained(w) PROVE OverInv'
  <2>1. UNCHANGED <<blob, current, slot, sql>>
    BY <1>13 DEF KvDrained, vaultVars
  <2>2. \A v \in Windows : Released(v)' /\ sql[v].dirty => Released(v)
    BY <1>13, SwitchesMove DEF Released
  <2> QED
    BY <1>5, <2>1, <2>2
<1>14. ASSUME NEW w \in Windows, SqlDrained(w) PROVE OverInv'
  <2>1. UNCHANGED <<blob, current, slot>>
    BY <1>14 DEF SqlDrained, vaultVars, mirrorVars
  <2>2. \A v \in Windows : Released(v)' => Released(v)
    BY <1>14, SwitchesMove DEF Released
  <2>3. \A v \in Windows : /\ sql'[v].awake = sql[v].awake /\ sql'[v].data = sql[v].data
                           /\ sql'[v].dirty = sql[v].dirty
    <3>1. sql' = [sql EXCEPT ![w] = [sql[w] EXCEPT !.failed = FALSE]] /\ sql[w] \in SqlState
      BY <1>14 DEF SqlDrained, TypeOK
    <3> QED
      BY <3>1 DEF SqlState, TypeOK
  <2> QED
    BY <1>1, <2>1, <2>2, <2>3, SqlStays
<1>15. ASSUME NEW w \in Windows, MoveSlot(w) PROVE OverInv'
  BY <1>1, <1>15, MoveOver DEF MoveSlot
<1>16. CASE UNCHANGED vars
  BY <1>5, <1>16 DEF vars, vaultVars, mirrorVars, Released
<1> QED
  BY <1>2, <1>3, <1>4, <1>6, <1>7, <1>8, <1>9, <1>10, <1>11, <1>12, <1>13, <1>14, <1>15, <1>16
  DEF Next, OpenWindow, Reload

\* With one window, a slot's database holds changes of another slot only with a
\* change made, or left unsaved, after a switch began or once the pointer had
\* moved.
THEOREM EarlyChangesStay == ASSUME Lone PROVE Spec => []OnlyLateOverwrites
<1>1. Init => OverInv
  <2> SUFFICES ASSUME Init PROVE OverInv
    OBVIOUS
  <2>1. Drains
    BY InitDrains
  <2>2. Away /\ OnlyLateOverwrites
    BY Constants DEF Init, Away, OnlyLateOverwrites
  <2>3. \A v \in Windows : SqlOK(v)
    BY DEF Init, SqlOK, Asleep, Own
  <2> QED
    BY <2>1, <2>2, <2>3 DEF OverInv
<1>2. OverInv /\ [Next]_vars => OverInv'
  BY NextOver
<1>3. OverInv => OnlyLateOverwrites
  BY DEF OverInv
<1> QED
  BY <1>1, <1>2, <1>3, PTL DEF Spec

(***************************************************************************)
(* The mirror is ahead of the vault                                        *)
(***************************************************************************)

MirrorInv == Drains /\ Away /\ MirrorIsAhead

\* What a write does to a key.
LEMMA AppliedAt ==
    ASSUME NEW op, NEW m, NEW k
    PROVE  /\ Touches(op, k) => SameAt(Applied(op, m), op.puts, k)
           /\ ~Touches(op, k) => SameAt(Applied(op, m), m, k)
BY DEF Touches, SameAt, Applied

LEMMA SameTrans ==
    ASSUME NEW m, NEW n, NEW o, NEW k, SameAt(n, m, k)
    PROVE  SameAt(m, n, k) /\ (SameAt(n, o, k) => SameAt(m, o, k))
BY DEF SameAt

LEMMA EnqueueAhead ==
    ASSUME Drains, NEW w \in Windows, NEW op \in Write, Ahead(w), Enqueue(w, op)
    PROVE  Ahead(w)'
<1>1. queue[w] \in Seq(Write) /\ TypeOK
  BY DEF Drains, TypeOK
<1>2. PICK n \in Nat : n = Len(queue[w])
  BY <1>1
<1>3. /\ mirror'[w] = Applied(op, mirror[w]) /\ doc' = doc /\ current' = current
      /\ queue'[w] = Append(queue[w], op)
  BY <1>1 DEF Enqueue, vaultVars, TypeOK
<1>4. /\ DOMAIN queue[w] = 1..n /\ DOMAIN queue'[w] = 1..(n + 1)
      /\ queue'[w][n + 1] = op
      /\ \A i \in 1..n : queue'[w][i] = queue[w][i]
  BY <1>1, <1>2, <1>3
<1>5. ASSUME NEW k \in Keys, \A i \in 1..(n + 1) : ~Touches(queue'[w][i], k)
      PROVE  SameAt(mirror'[w], doc[current], k)
  <2>1. ~Touches(op, k) /\ \A i \in 1..n : ~Touches(queue[w][i], k)
    <3>1. n + 1 \in 1..(n + 1) /\ \A i \in 1..n : i \in 1..(n + 1)
      BY <1>2
    <3> QED
      BY <1>4, <1>5, <3>1
  <2>2. SameAt(mirror[w], doc[current], k)
    BY <1>4, <2>1 DEF Ahead
  <2>3. SameAt(mirror'[w], mirror[w], k)
    BY <1>3, <2>1, AppliedAt
  <2> QED
    BY <2>2, <2>3 DEF SameAt
<1>6. ASSUME NEW k \in Keys, NEW i \in 1..(n + 1), Touches(queue'[w][i], k),
             \A j \in 1..(n + 1) : j > i => ~Touches(queue'[w][j], k)
      PROVE  SameAt(mirror'[w], queue'[w][i].puts, k)
  <2>1. CASE i = n + 1
    BY <1>3, <1>4, <1>6, <2>1, AppliedAt
  <2>2. CASE i # n + 1
    <3>1. i \in 1..n /\ n + 1 > i /\ n + 1 \in 1..(n + 1) /\ \A j \in 1..n : j \in 1..(n + 1)
      BY <1>2, <2>2
    <3>2. ~Touches(op, k) /\ queue'[w][i] = queue[w][i]
      BY <1>4, <1>6, <3>1
    <3>3. \A j \in 1..n : j > i => ~Touches(queue[w][j], k)
      BY <1>4, <1>6, <3>1
    <3>4. SameAt(mirror[w], queue[w][i].puts, k)
      BY <1>4, <1>6, <3>1, <3>2, <3>3 DEF Ahead
    <3>5. SameAt(mirror'[w], mirror[w], k)
      BY <1>3, <3>2, AppliedAt
    <3> QED
      BY <3>2, <3>4, <3>5 DEF SameAt
  <2> QED
    BY <2>1, <2>2
<1> QED
  BY <1>3, <1>4, <1>5, <1>6 DEF Ahead

\* The first queued write reaches the vault.
LEMMA ApplyAhead ==
    ASSUME Drains, NEW w \in Windows, Ahead(w), Apply(w), w \notin refused'
    PROVE  Ahead(w)'
<1>1. queue[w] \in Seq(Write) /\ queue[w] # <<>> /\ TypeOK
  BY DEF Drains, TypeOK, Apply
<1>2. PICK op \in Write : op = Head(queue[w])
  BY <1>1
<1>3. PICK n \in Nat : n = Len(queue[w]) /\ n > 0
  BY <1>1
<1>4. /\ mirror' = mirror /\ current' = current
      /\ doc'[current] = Applied(op, doc[current])
      /\ queue'[w] = Tail(queue[w])
  BY <1>1, <1>2 DEF Apply, CommandSlot, TypeOK
<1>5. /\ DOMAIN queue[w] = 1..n /\ DOMAIN queue'[w] = 1..(n - 1)
      /\ queue[w][1] = op
      /\ \A i \in 1..(n - 1) : queue'[w][i] = queue[w][i + 1]
  BY <1>1, <1>2, <1>3, <1>4
<1>6. /\ 1 \in 1..n /\ \A i \in 1..(n - 1) : i + 1 \in 1..n
      /\ \A j \in 1..n : j = 1 \/ (j > 1 /\ j - 1 \in 1..(n - 1) /\ j = (j - 1) + 1)
  BY <1>3
<1>7. ASSUME NEW k \in Keys, \A i \in 1..(n - 1) : ~Touches(queue'[w][i], k)
      PROVE  SameAt(mirror[w], doc'[current], k)
  <2>1. \A j \in 1..n : j = 1 \/ ~Touches(queue[w][j], k)
    BY <1>5, <1>6, <1>7
  <2>2. CASE Touches(op, k)
    <3>1. \A j \in 1..n : j > 1 => ~Touches(queue[w][j], k)
      BY <1>3, <2>1
    <3>2. SameAt(mirror[w], op.puts, k)
      BY <1>5, <1>6, <2>2, <3>1 DEF Ahead
    <3>3. SameAt(doc'[current], op.puts, k)
      BY <1>4, <2>2, AppliedAt
    <3> QED
      BY <3>2, <3>3 DEF SameAt
  <2>3. CASE ~Touches(op, k)
    <3>1. SameAt(mirror[w], doc[current], k)
      BY <1>5, <2>1, <2>3 DEF Ahead
    <3>2. SameAt(doc'[current], doc[current], k)
      BY <1>4, <2>3, AppliedAt
    <3> QED
      BY <3>1, <3>2 DEF SameAt
  <2> QED
    BY <2>2, <2>3
<1>8. ASSUME NEW k \in Keys, NEW i \in 1..(n - 1), Touches(queue'[w][i], k),
             \A j \in 1..(n - 1) : j > i => ~Touches(queue'[w][j], k)
      PROVE  SameAt(mirror[w], queue'[w][i].puts, k)
  <2>1. i + 1 \in 1..n /\ queue'[w][i] = queue[w][i + 1]
    BY <1>5, <1>6
  <2>2. ASSUME NEW j \in 1..n, j > i + 1 PROVE ~Touches(queue[w][j], k)
    <3>1. j - 1 \in 1..(n - 1) /\ j - 1 > i /\ (j - 1) + 1 = j
      BY <1>3, <2>2
    <3> QED
      BY <1>5, <1>8, <3>1
  <2> QED
    BY <1>5, <1>8, <2>1, <2>2 DEF Ahead
<1> QED
  BY <1>4, <1>5, <1>7, <1>8 DEF Ahead

LEMMA MirrorKept == MirrorInv /\ [Next]_vars => MirrorInv'
<1> SUFFICES ASSUME MirrorInv, [Next]_vars PROVE MirrorInv'
  OBVIOUS
<1> Drains /\ Away /\ MirrorIsAhead /\ TypeOK
  BY DEF MirrorInv, Drains
<1>0. Drains' /\ Away'
  BY NextDrains, AwayKept
<1> SUFFICES ASSUME NEW w \in Windows, Windows = {w}, w \in up', slot'[w] = current', w \notin refused'
             PROVE  Ahead(w)'
  BY <1>0 DEF MirrorInv, MirrorIsAhead, Drains, TypeOK
<1>1. w \in up /\ slot[w] = current /\ w \notin refused => Ahead(w)
  BY DEF MirrorIsAhead
<1>2. CASE Hydrate(w)
  <2>1. mirror'[w] = doc[current] /\ queue'[w] = <<>> /\ UNCHANGED <<doc, current>>
    BY <1>2 DEF Hydrate, vaultVars, TypeOK
  <2> QED
    BY <2>1 DEF Ahead, SameAt
<1>3. CASE CloseWindow(w) \/ Crash
  BY <1>3 DEF CloseWindow, Crash, Gone
<1>4. ASSUME NEW op \in Write, Enqueue(w, op) PROVE Ahead(w)'
  <2>1. Ahead(w)
    BY <1>1, <1>4 DEF Enqueue, vaultVars
  <2> QED
    BY <1>4, <2>1, EnqueueAhead
<1>5. ASSUME NEW k \in Keys, NEW n \in Lens, KvSet(w, k, n) PROVE Ahead(w)'
  <2>1. slot[w] \in Slots /\ Late(w) \in BOOLEAN
    BY LateType DEF TypeOK
  <2> QED
    BY <1>4, <1>5, <2>1, PutType DEF KvSet
<1>6. ASSUME NEW k \in Keys, KvDelete(w, k) PROVE Ahead(w)'
  BY <1>4, <1>6, DelType, LateType DEF KvDelete
<1>7. CASE KvClear(w)
  BY <1>4, <1>7, DelType, LateType DEF KvClear
<1>8. CASE Apply(w)
  <2>1. Ahead(w)
    <3>1. UNCHANGED <<up, slot, current>> /\ (w \in refused => w \in refused')
      BY <1>8 DEF Apply
    <3> QED
      BY <1>1, <3>1
  <2> QED
    BY <1>8, <2>1, ApplyAhead
<1>9. ASSUME UNCHANGED <<doc, current, up, slot, mirror, queue, refused>> PROVE Ahead(w)'
  BY <1>1, <1>9 DEF Ahead
<1>10. CASE \/ SqlWake(w) \/ SqlChange(w) \/ SqlSave(w) \/ SqlSkip(w)
            \/ (\E s \in Slots : StartSwitch(w, s)) \/ KvDrained(w) \/ SqlDrained(w)
  BY <1>9, <1>10
  DEF SqlWake, SqlChange, SqlSave, SqlSkip, StartSwitch, KvDrained, SqlDrained,
      SqlUnchanged, vaultVars, mirrorVars
<1>11. CASE MoveSlot(w)
  <2>1. current' = switch[w].to /\ slot' = slot /\ switch[w].st # "none"
    BY <1>11 DEF MoveSlot, mirrorVars
  <2> QED
    BY <2>1 DEF Away
<1>12. CASE UNCHANGED vars
  BY <1>9, <1>12 DEF vars, vaultVars, mirrorVars
<1> QED
  BY <1>2, <1>3, <1>5, <1>6, <1>7, <1>8, <1>10, <1>11, <1>12
  DEF Next, OpenWindow, Reload

\* What the application of a lone window reads is what the vault will hold once
\* the queued writes are applied, while its slot is current and nothing was
\* refused.
THEOREM MirrorStaysAhead == Spec => []MirrorIsAhead
<1>1. Init => MirrorInv
  <2> SUFFICES ASSUME Init PROVE MirrorInv
    OBVIOUS
  <2>1. Away /\ MirrorIsAhead
    BY Constants DEF Init, Away, MirrorIsAhead
  <2> QED
    BY <2>1, InitDrains DEF MirrorInv
<1>2. MirrorInv /\ [Next]_vars => MirrorInv'
  BY MirrorKept
<1>3. MirrorInv => MirrorIsAhead
  BY DEF MirrorInv
<1> QED
  BY <1>1, <1>2, <1>3, PTL DEF Spec

(***************************************************************************)
(* The quota                                                               *)
(***************************************************************************)

\* A queued write puts one key at most.
OneKey == \A w \in Windows : \A i \in DOMAIN queue[w] : \A k, l \in DOMAIN queue[w][i].puts : k = l

Within(d) == IsFiniteSet(AllBytes(d)) /\ TotalUsage(d) <= Quota

QuotaInv == Drains /\ OneKey /\ Within(doc) /\ Within(disk.doc)

\* The bytes of one entry.
Cell(s, k, n) == {s} \X ({k} \X (0..n))

LEMMA CellSize ==
    ASSUME NEW s, NEW k, NEW n \in Nat
    PROVE  IsFiniteSet(Cell(s, k, n)) /\ Cardinality(Cell(s, k, n)) = 1 + n
<1> DEFINE f == [x \in 0..n |-> <<s, <<k, x>>>>]
<1>1. f \in Bijection(0..n, Cell(s, k, n))
  <2>1. f \in Injection(0..n, Cell(s, k, n))
    BY DEF Injection, IsInjective, Cell
  <2>2. f \in Surjection(0..n, Cell(s, k, n))
    <3>1. \A c \in Cell(s, k, n) : \E x \in 0..n : c = <<s, <<k, x>>>>
      BY DEF Cell
    <3>2. \A c \in Cell(s, k, n) : \E x \in 0..n : f[x] = c
      BY <3>1
    <3>3. f \in [0..n -> Cell(s, k, n)]
      BY DEF Cell
    <3> QED
      BY <3>2, <3>3 DEF Surjection
  <2> QED
    BY <2>1, <2>2 DEF Bijection
<1>2. ExistsBijection(0..n, Cell(s, k, n))
  BY <1>1 DEF ExistsBijection
<1>3. IsFiniteSet(0..n) /\ Cardinality(0..n) = 1 + n
  BY FS_Interval
<1> QED
  BY <1>2, <1>3, FS_Bijection

LEMMA BytesAt ==
    ASSUME NEW d \in [Slots -> Contents], NEW b
    PROVE  b \in AllBytes(d) <=> \E s \in Slots : \E k \in DOMAIN d[s] : b \in Cell(s, k, d[s][k].len)
BY DEF AllBytes, Bytes, Cell

LEMMA ContentsParts ==
    ASSUME NEW m \in Contents
    PROVE  /\ DOMAIN m \subseteq Keys
           /\ \A k \in DOMAIN m : m[k] \in Entry /\ m[k].len \in Nat
<1>1. PICK D \in SUBSET Keys : m \in [D -> Entry]
  BY DEF Contents
<1>2. \A x \in Entry : x.len \in Lens
  BY DEF Entry
<1>3. \A n \in Lens : n \in Nat
  BY VaultSlotsAssumption
<1> QED
  BY <1>1, <1>2, <1>3

\* A put: the bytes of the entry it replaces go, its own come.
LEMMA PutFits ==
    ASSUME NEW d \in [Slots -> Contents], NEW s \in Slots, NEW op \in Write, NEW k \in DOMAIN op.puts,
           \A l \in DOMAIN op.puts : l = k, Within(d), FitsVault(d, s, k, op.puts[k].len)
    PROVE  Within([d EXCEPT ![s] = Applied(op, @)])
<1> DEFINE e == [d EXCEPT ![s] = Applied(op, @)]
           old == IF k \in DOMAIN d[s] THEN Cell(s, k, d[s][k].len) ELSE {}
           new == Cell(s, k, op.puts[k].len)
<1>1. e \in [Slots -> Contents] /\ e[s] = Applied(op, d[s])
  BY AppliedType
<1>2. op.puts \in Contents /\ op.puts[k].len \in Nat
  BY ContentsParts DEF Write
<1>3. PICK n \in Nat : n = op.puts[k].len
  BY <1>2
<1>4. PICK z \in Nat : z = EntrySize(d[s], k)
  BY ContentsParts DEF EntrySize
<1>5. IsFiniteSet(old) /\ Cardinality(old) = z
  <2>1. CASE k \in DOMAIN d[s]
    BY <1>4, <2>1, CellSize, ContentsParts DEF EntrySize
  <2>2. CASE k \notin DOMAIN d[s]
    BY <1>4, <2>2, FS_EmptySet DEF EntrySize
  <2> QED
    BY <2>1, <2>2
<1>6. IsFiniteSet(new) /\ Cardinality(new) = 1 + n
  BY <1>3, CellSize
<1>7. old \subseteq AllBytes(d)
  BY BytesAt
<1>8. AllBytes(e) \subseteq (AllBytes(d) \ old) \union new
  <2> SUFFICES ASSUME NEW b \in AllBytes(e) PROVE b \in (AllBytes(d) \ old) \union new
    OBVIOUS
  <2>1. PICK t \in Slots : \E l \in DOMAIN e[t] : b \in Cell(t, l, e[t][l].len)
    BY <1>1, BytesAt
  <2> PICK l \in DOMAIN e[t] : b \in Cell(t, l, e[t][l].len)
    BY <2>1
  <2>2. CASE t = s /\ l = k
    BY <1>1, <2>1, <2>2 DEF Applied
  <2>3. CASE t # s \/ l # k
    <3>1. l \in DOMAIN d[t] /\ e[t][l] = d[t][l]
      BY <1>1, <2>1, <2>3 DEF Applied
    <3>2. b \in AllBytes(d)
      BY <2>1, <3>1, BytesAt
    <3>3. b \notin old
      BY <2>1, <2>3 DEF Cell
    <3> QED
      BY <3>2, <3>3
  <2> QED
    BY <2>2, <2>3
<1> HIDE DEF e, old, new
<1>9. PICK u \in Nat : u = TotalUsage(d) /\ IsFiniteSet(AllBytes(d))
  BY FS_CardinalityType DEF Within, TotalUsage
<1>10. AllBytes(d) \cap old = old
  BY <1>7
<1>11. IsFiniteSet(AllBytes(d) \ old) /\ Cardinality(AllBytes(d) \ old) = u - z
  <2>1. PICK S : S = AllBytes(d)
    OBVIOUS
  <2>2. IsFiniteSet(S) /\ Cardinality(S) = u
    BY <1>9, <2>1 DEF TotalUsage
  <2>3. IsFiniteSet(S \ old) /\ Cardinality(S \ old) = Cardinality(S) - Cardinality(S \cap old)
    BY <2>2, FS_Difference
  <2> QED
    BY <1>5, <1>10, <2>1, <2>2, <2>3
<1>12. PICK r : r = (AllBytes(d) \ old) \union new
  OBVIOUS
<1>13. IsFiniteSet(r) /\ Cardinality(r) <= u - z + (1 + n)
  <2>1. IsFiniteSet(r) /\ Cardinality(r) = (u - z) + (1 + n) - Cardinality((AllBytes(d) \ old) \cap new)
    BY <1>6, <1>11, <1>12, FS_Union
  <2>2. Cardinality((AllBytes(d) \ old) \cap new) \in Nat
    BY <1>11, FS_Intersection, FS_CardinalityType
  <2> QED
    BY <1>3, <1>4, <1>9, <2>1, <2>2
<1>14. IsFiniteSet(AllBytes(e)) /\ Cardinality(AllBytes(e)) <= Cardinality(r)
  BY <1>8, <1>12, <1>13, FS_Subset
<1>15. Cardinality(AllBytes(e)) \in Nat /\ Cardinality(r) \in Nat
  BY <1>13, <1>14, FS_CardinalityType
<1>16. u - z + 1 + n <= Quota
  BY <1>3, <1>4, <1>9 DEF FitsVault
<1>17. Cardinality(AllBytes(e)) <= Quota
  BY <1>3, <1>4, <1>9, <1>13, <1>14, <1>15, <1>16, VaultSlotsAssumption
<1> QED
  BY <1>14, <1>17 DEF Within, TotalUsage, e

\* A delete or a clear adds nothing.
LEMMA DeleteFits ==
    ASSUME NEW d \in [Slots -> Contents], NEW s \in Slots, NEW op \in Write, DOMAIN op.puts = {},
           Within(d)
    PROVE  Within([d EXCEPT ![s] = Applied(op, @)])
<1> DEFINE e == [d EXCEPT ![s] = Applied(op, @)]
<1>1. e \in [Slots -> Contents] /\ e[s] = Applied(op, d[s])
  BY AppliedType
<1>2. \A t \in Slots : \A l \in DOMAIN e[t] : l \in DOMAIN d[t] /\ e[t][l] = d[t][l]
  BY <1>1 DEF Applied
<1>3. AllBytes(e) \subseteq AllBytes(d)
  <2> SUFFICES ASSUME NEW b \in AllBytes(e) PROVE b \in AllBytes(d)
    OBVIOUS
  <2>1. PICK t \in Slots : \E l \in DOMAIN e[t] : b \in Cell(t, l, e[t][l].len)
    BY <1>1, BytesAt
  <2> PICK l \in DOMAIN e[t] : b \in Cell(t, l, e[t][l].len)
    BY <2>1
  <2>2. l \in DOMAIN d[t] /\ e[t][l] = d[t][l]
    BY <1>2
  <2> QED
    BY <2>2, BytesAt
<1> HIDE DEF e
<1>4. IsFiniteSet(AllBytes(e)) /\ Cardinality(AllBytes(e)) <= Cardinality(AllBytes(d))
  BY <1>3, FS_Subset DEF Within
<1>5. Cardinality(AllBytes(e)) \in Nat /\ Cardinality(AllBytes(d)) \in Nat
  BY <1>4, FS_CardinalityType DEF Within
<1>6. Within(e)
  BY <1>4, <1>5, VaultSlotsAssumption DEF Within, TotalUsage
<1> QED
  BY <1>6 DEF e

LEMMA ApplyFits == ASSUME QuotaInv, NEW w \in Windows, Apply(w) PROVE Within(doc)' /\ Within(disk.doc)'
<1> TypeOK /\ doc \in [Slots -> Contents] /\ current \in Slots /\ Within(doc) /\ Within(disk.doc)
  BY DEF QuotaInv, Drains, TypeOK
<1>1. queue[w] \in Seq(Write) /\ queue[w] # <<>>
  BY DEF TypeOK, Apply
<1>2. PICK op \in Write : op = Head(queue[w]) /\ op = queue[w][1] /\ 1 \in DOMAIN queue[w]
  BY <1>1
<1>3. PICK d : d = [doc EXCEPT ![current] = Applied(op, @)]
  OBVIOUS
<1>4. \/ /\ \A k \in DOMAIN op.puts : FitsVault(doc, current, k, op.puts[k].len)
         /\ doc' = d /\ (disk' = disk \/ disk' = [doc |-> d, current |-> current])
      \/ UNCHANGED <<doc, disk>>
  BY <1>2, <1>3 DEF Apply, CommandSlot, Flushed
<1>5. CASE \A k \in DOMAIN op.puts : FitsVault(doc, current, k, op.puts[k].len)
  <2>1. \A k, l \in DOMAIN op.puts : k = l
    BY <1>2 DEF QuotaInv, OneKey
  <2>2. Within(d)
    <3>1. CASE DOMAIN op.puts = {}
      BY <1>3, <3>1, DeleteFits
    <3>2. ASSUME NEW k \in DOMAIN op.puts PROVE Within(d)
      BY <1>3, <1>5, <2>1, PutFits
    <3> QED
      BY <3>1, <3>2
  <2>3. doc' = doc \/ doc' = d
    BY <1>4
  <2>4. disk'.doc = disk.doc \/ disk'.doc = d
    BY <1>4
  <2> QED
    BY <2>2, <2>3, <2>4 DEF Within, TotalUsage, AllBytes
<1> QED
  BY <1>4, <1>5 DEF Within, TotalUsage, AllBytes

LEMMA EnqueueOneKey ==
    ASSUME QuotaInv, NEW w \in Windows, NEW op \in Write, \A k, l \in DOMAIN op.puts : k = l, Enqueue(w, op)
    PROVE  OneKey'
<1>1. \A i \in DOMAIN queue'[w] :
        (i \in DOMAIN queue[w] /\ queue'[w][i] = queue[w][i]) \/ queue'[w][i] = op
  BY DEF Enqueue, QuotaInv, Drains, TypeOK
<1>2. \A v \in Windows : v # w => queue'[v] = queue[v]
  BY DEF Enqueue, QuotaInv, Drains, TypeOK
<1> QED
  BY <1>1, <1>2 DEF QuotaInv, OneKey

LEMMA QuotaKept == QuotaInv /\ [Next]_vars => QuotaInv'
<1> SUFFICES ASSUME QuotaInv, [Next]_vars PROVE QuotaInv'
  OBVIOUS
<1> TypeOK /\ OneKey /\ Within(doc) /\ Within(disk.doc)
  BY DEF QuotaInv, Drains
<1>0. Drains'
  BY NextDrains DEF QuotaInv
<1>1. ASSUME doc' \in {doc, disk.doc}, disk'.doc \in {doc, disk.doc}, OneKey' PROVE QuotaInv'
  BY <1>0, <1>1 DEF QuotaInv, Within, TotalUsage, AllBytes
<1>2. ASSUME \A v \in Windows : queue'[v] = queue[v] \/ queue'[v] = <<>> PROVE OneKey'
  BY <1>2 DEF OneKey
<1>3. ASSUME NEW w \in Windows, Hydrate(w) PROVE QuotaInv'
  <2>1. \A v \in Windows : queue'[v] = queue[v] \/ queue'[v] = <<>>
    BY <1>3 DEF Hydrate, TypeOK
  <2> QED
    BY <1>1, <1>2, <1>3, <2>1 DEF Hydrate, vaultVars
<1>4. ASSUME NEW ws \in SUBSET Windows, Gone(ws) PROVE OneKey'
  BY <1>2, <1>4 DEF Gone
<1>5. ASSUME NEW w \in Windows, CloseWindow(w) PROVE QuotaInv'
  <2>1. {w} \in SUBSET Windows
    OBVIOUS
  <2> QED
    BY <1>1, <1>4, <1>5, <2>1 DEF CloseWindow, vaultVars
<1>6. CASE Crash
  <2>1. Windows \in SUBSET Windows
    OBVIOUS
  <2> QED
    BY <1>1, <1>4, <1>6, <2>1 DEF Crash
<1>7. ASSUME NEW w \in Windows, NEW op \in Write, \A k, l \in DOMAIN op.puts : k = l, Enqueue(w, op)
      PROVE  QuotaInv'
  BY <1>1, <1>7, EnqueueOneKey DEF Enqueue, vaultVars
<1>8. ASSUME NEW w \in Windows, NEW k \in Keys, NEW n \in Lens, KvSet(w, k, n) PROVE QuotaInv'
  <2> DEFINE op == [puts |-> [x \in {k} |-> [len |-> n, from |-> slot[w], late |-> Late(w)]],
                    dels |-> {}, late |-> Late(w)]
  <2>1. slot[w] \in Slots /\ Late(w) \in BOOLEAN
    BY LateType DEF TypeOK
  <2>2. op \in Write /\ \A l, m \in DOMAIN op.puts : l = m
    BY <2>1, PutType
  <2>3. Enqueue(w, op)
    BY <1>8 DEF KvSet
  <2> HIDE DEF op
  <2> QED
    BY <1>7, <2>2, <2>3
<1>9. ASSUME NEW w \in Windows, NEW ks \in SUBSET Keys,
             Enqueue(w, [puts |-> Empty, dels |-> ks, late |-> Late(w)])
      PROVE  QuotaInv'
  <2> DEFINE op == [puts |-> Empty, dels |-> ks, late |-> Late(w)]
  <2>1. op \in Write /\ \A l, m \in DOMAIN op.puts : l = m
    BY DelType, LateType DEF Empty
  <2>2. Enqueue(w, op)
    BY <1>9
  <2> HIDE DEF op
  <2> QED
    BY <1>7, <2>1, <2>2
<1>10. ASSUME NEW w \in Windows, (\E k \in Keys : KvDelete(w, k)) \/ KvClear(w) PROVE QuotaInv'
  BY <1>9, <1>10 DEF KvDelete, KvClear
<1>11. ASSUME NEW w \in Windows, Apply(w) PROVE QuotaInv'
  <2>1. queue[w] \in Seq(Write) /\ queue[w] # <<>> /\ queue'[w] = Tail(queue[w])
        /\ \A v \in Windows : v # w => queue'[v] = queue[v]
    BY <1>11 DEF Apply, TypeOK
  <2>2. \A i \in DOMAIN Tail(queue[w]) : i + 1 \in DOMAIN queue[w] /\ Tail(queue[w])[i] = queue[w][i + 1]
    BY <2>1
  <2>3. OneKey'
    <3> SUFFICES ASSUME NEW v \in Windows, NEW i \in DOMAIN queue'[v]
                 PROVE  \A k, l \in DOMAIN queue'[v][i].puts : k = l
      BY DEF OneKey
    <3>1. CASE v = w
      <4>1. i + 1 \in DOMAIN queue[w] /\ queue'[w][i] = queue[w][i + 1]
        BY <2>1, <2>2, <3>1
      <4> QED
        BY <3>1, <4>1 DEF OneKey
    <3>2. CASE v # w
      BY <2>1, <3>2 DEF OneKey
    <3> QED
      BY <3>1, <3>2
  <2> QED
    BY <1>0, <1>11, <2>3, ApplyFits DEF QuotaInv
<1>12. ASSUME UNCHANGED <<doc, disk, queue>> PROVE QuotaInv'
  BY <1>1, <1>2, <1>12
<1>13. ASSUME NEW w \in Windows,
              \/ SqlWake(w) \/ SqlChange(w) \/ SqlSave(w) \/ SqlSkip(w)
              \/ (\E s \in Slots : StartSwitch(w, s)) \/ KvDrained(w) \/ SqlDrained(w)
       PROVE  QuotaInv'
  BY <1>12, <1>13
  DEF SqlWake, SqlChange, SqlSave, SqlSkip, StartSwitch, KvDrained, SqlDrained,
      SqlUnchanged, vaultVars, mirrorVars
<1>14. ASSUME NEW w \in Windows, MoveSlot(w) PROVE QuotaInv'
  <2>1. doc' = doc /\ queue' = queue /\ (disk' = disk \/ disk'.doc = doc)
    BY <1>14 DEF MoveSlot, Flushed, mirrorVars
  <2> QED
    BY <1>1, <1>2, <2>1
<1>15. CASE UNCHANGED vars
  BY <1>12, <1>15 DEF vars, vaultVars, mirrorVars
<1> QED
  BY <1>3, <1>5, <1>6, <1>8, <1>10, <1>11, <1>13, <1>14, <1>15
  DEF Next, OpenWindow, Reload

\* The quota holds over all slots, for any number of windows, whatever they
\* queue and whichever slot is current when a write arrives.
THEOREM QuotaHolds == Spec => []WithinQuota
<1>1. Init => QuotaInv
  <2> SUFFICES ASSUME Init PROVE QuotaInv
    OBVIOUS
  <2>1. AllBytes(doc) = {} /\ disk.doc = doc
    BY DEF Init, AllBytes, Bytes, Empty
  <2>2. Within(doc) /\ Within(disk.doc)
    BY <2>1, FS_EmptySet, VaultSlotsAssumption DEF Within, TotalUsage
  <2>3. OneKey
    BY DEF Init, OneKey
  <2> QED
    BY <2>2, <2>3, InitDrains DEF QuotaInv
<1>2. QuotaInv /\ [Next]_vars => QuotaInv'
  BY QuotaKept
<1>3. QuotaInv => WithinQuota
  BY DEF QuotaInv, Within, WithinQuota
<1> QED
  BY <1>1, <1>2, <1>3, PTL DEF Spec
=============================================================================

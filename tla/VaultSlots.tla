----------------------------- MODULE VaultSlots -----------------------------
(***************************************************************************)
(* The desktop vault of one instance and the Reader windows bound to it:   *)
(* the document with its slots and current pointer (crates/poid-vault),    *)
(* the commands that change it (src-tauri/src/commands.rs), and in every   *)
(* window the mirror with its write queue (vault-ipc-engine.ts), the SQL   *)
(* tier's saves (sql-ipc.ts) and the slot switch (reader-main.ts).         *)
(*                                                                         *)
(* Two windows are bound to one instance when the user chose Share memory. *)
(* A command is one step: Tauri runs synchronous commands one at a time.   *)
(***************************************************************************)
EXTENDS Naturals, Sequences, FiniteSets

CONSTANTS
    Windows,      \* Reader windows of the instance's files
    Slots,
    DefaultSlot,  \* the slot of a document whose pointer is unset
    Keys,
    Lens,         \* the lengths a serialized value may have
    Quota,        \* storage.quota_mb, the same in every file of the instance
    MaxQueue,     \* bound: writes a window has queued at most
    Tiers         \* the tiers the application uses, of {"kv", "sql"}

ASSUME VaultSlotsAssumption ==
    /\ DefaultSlot \in Slots
    /\ Lens \subseteq Nat /\ Quota \in Nat /\ MaxQueue \in Nat
    /\ Tiers \subseteq {"kv", "sql"}

VARIABLES
    \* The Rust process and its disk.
    doc,      \* the open document: slot -> key -> entry
    current,  \* its current pointer
    disk,     \* the document file
    blob,     \* the SQL database file of each slot, as the set of its changes
    \* Each window: the web context the application runs in.
    up,       \* the window is open and its application mounted
    slot,     \* VaultIpcEngine.slot, the slot at hydration
    mirror,   \* VaultIpcEngine.entries
    queue,    \* the chain of writes, the one to be applied next first
    failed,   \* VaultIpcEngine.failed
    sql,      \* the SQL tier: asleep, or its database and its persist chain
    switch,   \* the slot switch under way
    \* History, read by no guard.
    refused   \* windows whose accepted writes met the vault's quota

vaultVars  == <<doc, current, disk, blob>>
mirrorVars == <<slot, mirror, queue, failed>>
vars       == <<vaultVars, up, mirrorVars, sql, switch, refused>>

(***************************************************************************)
(* Entries carry the slot their writer was hydrated in, and whether it     *)
(* wrote them late: after a switch began, or once the pointer had moved.   *)
(***************************************************************************)

Empty == <<>>

Entry    == [len : Lens, from : Slots, late : BOOLEAN]
Contents == UNION {[D -> Entry] : D \in SUBSET Keys}
Change   == [from : Slots, late : BOOLEAN]

\* A queued write: the entries it puts, the keys it deletes.
Write == [puts : Contents, dels : SUBSET Keys, late : BOOLEAN]

Asleep    == [awake |-> FALSE, data |-> {}, dirty |-> FALSE, failed |-> FALSE]
SqlState  == [awake : BOOLEAN, data : SUBSET Change, dirty : BOOLEAN, failed : BOOLEAN]

\* A switch awaits the kv queue (ahead writes of it), the SQL saves (ahead 1
\* if one is due), the command that moves the pointer, and the reload.
NoSwitch  == [st |-> "none", to |-> DefaultSlot, ahead |-> 0]
SwitchState == [st : {"none", "kv", "sql", "move", "reload"}, to : Slots, ahead : 0..MaxQueue + 1]

TypeOK ==
    /\ doc \in [Slots -> Contents]
    /\ current \in Slots
    /\ disk \in [doc : [Slots -> Contents], current : Slots]
    /\ blob \in [Slots -> SUBSET Change]
    /\ up \in SUBSET Windows
    /\ slot \in [Windows -> Slots]
    /\ mirror \in [Windows -> Contents]
    /\ queue \in [Windows -> Seq(Write)]
    /\ \A w \in Windows : Len(queue[w]) <= MaxQueue
    /\ failed \in [Windows -> BOOLEAN]
    /\ sql \in [Windows -> SqlState]
    /\ switch \in [Windows -> SwitchState]
    /\ refused \in SUBSET Windows

Init ==
    /\ doc = [s \in Slots |-> Empty]
    /\ current = DefaultSlot
    /\ disk = [doc |-> doc, current |-> current]
    /\ blob = [s \in Slots |-> {}]
    /\ up = {}
    /\ slot = [w \in Windows |-> DefaultSlot]
    /\ mirror = [w \in Windows |-> Empty]
    /\ queue = [w \in Windows |-> <<>>]
    /\ failed = [w \in Windows |-> FALSE]
    /\ sql = [w \in Windows |-> Asleep]
    /\ switch = [w \in Windows |-> NoSwitch]
    /\ refused = {}

(***************************************************************************)
(* Sizes, as sets of bytes.  A key has length 1.                           *)
(***************************************************************************)

EntrySize(m, k) == IF k \in DOMAIN m THEN 1 + m[k].len ELSE 0

Bytes(m)    == UNION {{k} \X (0..m[k].len) : k \in DOMAIN m}
AllBytes(d) == UNION {{s} \X Bytes(d[s]) : s \in Slots}

Usage(m)      == Cardinality(Bytes(m))
TotalUsage(d) == Cardinality(AllBytes(d))

\* Mutant of FitsVault: the vault looks at the active slot, as the host does.
FitsVaultSlot(d, s, k, n) == Usage(d[s]) - EntrySize(d[s], k) + 1 + n <= Quota

\* VaultInstance::kv_set: all slots, with credit for the entry replaced.
FitsVault(d, s, k, n) == TotalUsage(d) - EntrySize(d[s], k) + 1 + n <= Quota

\* Broker.checkQuota over VaultIpcEngine.usage: the mirror, without credit.
FitsHost(m, n) == Usage(m) + 1 + n <= Quota

\* kv_set, kv_delete and kv_clear, on the mirror and in the document.
Applied(op, m) ==
    [k \in DOMAIN op.puts \union (DOMAIN m \ op.dels) |->
        IF k \in DOMAIN op.puts THEN op.puts[k] ELSE m[k]]

(***************************************************************************)
(* A window opens, or reloads after a switch: vault_hydrate.               *)
(***************************************************************************)

Hydrate(w) ==
    /\ up' = up \union {w}
    /\ slot' = [slot EXCEPT ![w] = current]
    /\ mirror' = [mirror EXCEPT ![w] = doc[current]]
    /\ queue' = [queue EXCEPT ![w] = <<>>]
    /\ failed' = [failed EXCEPT ![w] = FALSE]
    /\ sql' = [sql EXCEPT ![w] = Asleep]
    /\ switch' = [switch EXCEPT ![w] = NoSwitch]
    /\ refused' = refused \ {w}
    /\ UNCHANGED vaultVars

OpenWindow(w) == w \notin up /\ Hydrate(w)

\* The web contexts of windows ws are gone, with all they held.
Gone(ws) ==
    /\ up' = up \ ws
    /\ slot' = [w \in Windows |-> IF w \in ws THEN DefaultSlot ELSE slot[w]]
    /\ mirror' = [w \in Windows |-> IF w \in ws THEN Empty ELSE mirror[w]]
    /\ queue' = [w \in Windows |-> IF w \in ws THEN <<>> ELSE queue[w]]
    /\ failed' = [w \in Windows |-> w \notin ws /\ failed[w]]
    /\ sql' = [w \in Windows |-> IF w \in ws THEN Asleep ELSE sql[w]]
    /\ switch' = [w \in Windows |-> IF w \in ws THEN NoSwitch ELSE switch[w]]
    /\ refused' = refused \ ws

\* The window is destroyed and unbound.
CloseWindow(w) ==
    /\ w \in up
    /\ Gone({w})
    /\ UNCHANGED vaultVars

\* The process ends at any point and starts again from its files.
Crash ==
    /\ doc' = disk.doc
    /\ current' = disk.current
    /\ Gone(Windows)
    /\ UNCHANGED <<disk, blob>>

(***************************************************************************)
(* The kv tier                                                             *)
(***************************************************************************)

Late(w) == switch[w].st # "none" \/ slot[w] # current

\* The mirror changes at once, the write joins the chain.
Enqueue(w, op) ==
    /\ w \in up /\ "kv" \in Tiers /\ Len(queue[w]) < MaxQueue
    /\ mirror' = [mirror EXCEPT ![w] = Applied(op, @)]
    /\ queue' = [queue EXCEPT ![w] = Append(@, op)]
    /\ UNCHANGED <<vaultVars, up, slot, failed, sql, switch, refused>>

KvSet(w, k, n) ==
    /\ FitsHost(mirror[w], n)
    /\ LET entry == [len |-> n, from |-> slot[w], late |-> Late(w)]
       IN Enqueue(w, [puts |-> [x \in {k} |-> entry], dels |-> {}, late |-> Late(w)])

KvDelete(w, k) == Enqueue(w, [puts |-> Empty, dels |-> {k}, late |-> Late(w)])

\* Mutant of KvClear: the mirror is cleared, the vault is not told.
KvClearLocal(w) ==
    /\ w \in up /\ "kv" \in Tiers /\ Len(queue[w]) < MaxQueue
    /\ mirror' = [mirror EXCEPT ![w] = Empty]
    /\ UNCHANGED <<vaultVars, up, slot, queue, failed, sql, switch, refused>>

KvClear(w) == Enqueue(w, [puts |-> Empty, dels |-> Keys, late |-> Late(w)])

\* inst.flush(): the whole document, atomically; or an error, with the
\* document in memory changed all the same.
Flushed(ok, d, s) == disk' = IF ok THEN [doc |-> d, current |-> s] ELSE disk

\* Mutant of Awaited: the count runs on below zero.
AwaitedUnguarded(w) == [switch EXCEPT ![w].ahead = IF switch[w].st = "kv" THEN @ - 1 ELSE @]

\* One write fewer for a switch that awaits the queue.
Awaited(w) == [switch EXCEPT ![w].ahead =
                 IF switch[w].st = "kv" /\ @ > 0 THEN @ - 1 ELSE @]

\* Mutant of CommandSlot: the commands always mean the default slot.
DefaultCommandSlot == DefaultSlot

\* No command names a slot: it means the current one when it runs.
CommandSlot == current

\* vault_kv_set, vault_kv_delete, vault_kv_clear.
Apply(w) ==
    /\ queue[w] # <<>>
    /\ LET op == Head(queue[w])
           fits == \A k \in DOMAIN op.puts : FitsVault(doc, CommandSlot, k, op.puts[k].len)
       IN \/ /\ fits
             /\ doc' = [doc EXCEPT ![CommandSlot] = Applied(op, @)]
             /\ \E ok \in BOOLEAN :
                  /\ Flushed(ok, doc', current)
                  /\ failed' = [failed EXCEPT ![w] = @ \/ ~ok]
             /\ UNCHANGED refused
          \/ /\ ~fits
             /\ failed' = [failed EXCEPT ![w] = TRUE]
             /\ refused' = refused \union {w}
             /\ UNCHANGED <<doc, disk>>
    /\ queue' = [queue EXCEPT ![w] = Tail(@)]
    /\ switch' = Awaited(w)
    /\ UNCHANGED <<current, blob, up, slot, mirror, sql>>

(***************************************************************************)
(* The SQL tier: the engine loads the database on the first call and saves *)
(* it whole, in the slot that is current when the command runs.            *)
(***************************************************************************)

SqlUnchanged == UNCHANGED <<up, mirrorVars, refused>>

SqlWake(w) ==
    /\ w \in up /\ "sql" \in Tiers /\ ~sql[w].awake
    /\ sql' = [sql EXCEPT ![w] = [@ EXCEPT !.awake = TRUE, !.data = blob[CommandSlot]]]
    /\ SqlUnchanged /\ UNCHANGED <<vaultVars, switch>>

NewChange(w) == [from |-> slot[w], late |-> Late(w)]

SqlChange(w) ==
    /\ w \in up /\ sql[w].awake
    /\ sql' = [sql EXCEPT ![w] =
                  [@ EXCEPT !.data = sql[w].data \union {NewChange(w)}, !.dirty = TRUE]]
    /\ SqlUnchanged /\ UNCHANGED <<vaultVars, switch>>

SqlAwaited(w) == [switch EXCEPT ![w].ahead = IF switch[w].st = "sql" THEN 0 ELSE @]

\* vault_sql_save.
SqlSave(w) ==
    /\ sql[w].dirty
    /\ \/ /\ blob' = [blob EXCEPT ![CommandSlot] = sql[w].data]
          /\ sql' = [sql EXCEPT ![w].dirty = FALSE]
       \/ /\ UNCHANGED blob
          /\ sql' = [sql EXCEPT ![w] = [@ EXCEPT !.dirty = FALSE, !.failed = TRUE]]
    /\ switch' = SqlAwaited(w)
    /\ SqlUnchanged /\ UNCHANGED <<doc, current, disk>>

\* The persist job of SqlEngine finds a transaction open and saves nothing;
\* what it leaves unsaved counts as late.
SqlSkip(w) ==
    /\ sql[w].dirty
    /\ sql' = [sql EXCEPT ![w].data = {[x EXCEPT !.late = TRUE] : x \in @}]
    /\ switch' = SqlAwaited(w)
    /\ SqlUnchanged /\ UNCHANGED vaultVars

(***************************************************************************)
(* The slot switch: flush, flush, vault_switch_slot, reload.  The          *)
(* application goes on running until the reload.  A step that fails ends   *)
(* the switch.  One switch of a window at a time.                          *)
(***************************************************************************)

Step(w, st, ahead) ==
    switch' = [switch EXCEPT ![w] = [@ EXCEPT !.st = st, !.ahead = ahead]]

StartSwitch(w, s) ==
    /\ w \in up /\ switch[w].st = "none" /\ s # slot[w]
    /\ switch' = [switch EXCEPT ![w] = [st |-> "kv", to |-> s, ahead |-> Len(queue[w])]]
    /\ UNCHANGED <<vaultVars, up, mirrorVars, sql, refused>>

\* Mutant of KvDrained: flush() is not awaited.
KvDrainedAtOnce(w) ==
    /\ switch[w].st = "kv"
    /\ failed' = [failed EXCEPT ![w] = FALSE]
    /\ IF failed[w] THEN switch' = [switch EXCEPT ![w] = NoSwitch]
       ELSE Step(w, "sql", IF sql[w].dirty THEN 1 ELSE 0)
    /\ UNCHANGED <<vaultVars, up, slot, mirror, queue, sql, refused>>

\* Mutant of KvDrained: flush() awaits an empty queue, not the tail it saw.
KvDrainedWhenEmpty(w) ==
    /\ switch[w].st = "kv" /\ queue[w] = <<>>
    /\ failed' = [failed EXCEPT ![w] = FALSE]
    /\ IF failed[w] THEN switch' = [switch EXCEPT ![w] = NoSwitch]
       ELSE Step(w, "sql", IF sql[w].dirty THEN 1 ELSE 0)
    /\ UNCHANGED <<vaultVars, up, slot, mirror, queue, sql, refused>>

KvDrained(w) ==
    /\ switch[w].st = "kv" /\ switch[w].ahead = 0
    /\ failed' = [failed EXCEPT ![w] = FALSE]
    /\ IF failed[w] THEN switch' = [switch EXCEPT ![w] = NoSwitch]
       ELSE Step(w, "sql", IF sql[w].dirty THEN 1 ELSE 0)
    /\ UNCHANGED <<vaultVars, up, slot, mirror, queue, sql, refused>>

\* Mutant of SqlDrained: the SQL tier is not flushed before the switch.
SqlDrainedAtOnce(w) ==
    /\ switch[w].st = "sql"
    /\ Step(w, "move", 0)
    /\ UNCHANGED <<vaultVars, up, mirrorVars, sql, refused>>

SqlDrained(w) ==
    /\ switch[w].st = "sql" /\ switch[w].ahead = 0
    /\ sql' = [sql EXCEPT ![w].failed = FALSE]
    /\ IF sql[w].failed THEN switch' = [switch EXCEPT ![w] = NoSwitch]
       ELSE Step(w, "move", 0)
    /\ UNCHANGED <<vaultVars, up, mirrorVars, refused>>

MoveSlot(w) ==
    /\ switch[w].st = "move"
    /\ current' = switch[w].to
    /\ UNCHANGED doc
    /\ \E ok \in BOOLEAN :
         /\ Flushed(ok, doc, switch[w].to)
         /\ IF ok THEN Step(w, "reload", 0) ELSE switch' = [switch EXCEPT ![w] = NoSwitch]
    /\ UNCHANGED <<blob, up, mirrorVars, sql, refused>>

Reload(w) == switch[w].st = "reload" /\ Hydrate(w)

Next ==
    \/ \E w \in Windows :
         \/ OpenWindow(w) \/ CloseWindow(w)
         \/ \E k \in Keys, n \in Lens : KvSet(w, k, n)
         \/ \E k \in Keys : KvDelete(w, k)
         \/ KvClear(w) \/ Apply(w)
         \/ SqlWake(w) \/ SqlChange(w) \/ SqlSave(w) \/ SqlSkip(w)
         \/ \E s \in Slots : StartSwitch(w, s)
         \/ KvDrained(w) \/ SqlDrained(w) \/ MoveSlot(w) \/ Reload(w)
    \/ Crash

Spec == Init /\ [][Next]_vars

\* Commands return, the SQL chain moves on, and the browser reloads.
FairSpec ==
    /\ Spec
    /\ \A w \in Windows :
         /\ WF_vars(Apply(w)) /\ WF_vars(SqlSave(w))
         /\ WF_vars(KvDrained(w)) /\ WF_vars(SqlDrained(w))
         /\ WF_vars(MoveSlot(w)) /\ WF_vars(Reload(w))

(***************************************************************************)
(* Properties                                                              *)
(***************************************************************************)

\* The per-POID quota holds across all slots, whatever the windows queue and
\* whichever slot is current when a write arrives (VaultInstance::kv_set).
WithinQuota == TotalUsage(doc) <= Quota

Touches(op, k)  == k \in DOMAIN op.puts \union op.dels
SameAt(m, n, k) == (k \in DOMAIN m <=> k \in DOMAIN n) /\ (k \in DOMAIN m => m[k] = n[k])

\* The mirror is the vault's slot with the queued writes applied: of a key it
\* holds what the last of them to touch the key puts, or what the vault holds.
Ahead(w) ==
    \A k \in Keys :
        /\ (\A i \in DOMAIN queue[w] : ~Touches(queue[w][i], k)) =>
              SameAt(mirror[w], doc[current], k)
        /\ \A i \in DOMAIN queue[w] :
              /\ Touches(queue[w][i], k)
              /\ \A j \in DOMAIN queue[w] : j > i => ~Touches(queue[w][j], k)
              => SameAt(mirror[w], queue[w][i].puts, k)

\* What the application reads is what the vault will hold.  For a lone window,
\* while its slot is the current one and nothing was refused.
MirrorIsAhead ==
    \A w \in up : Windows = {w} /\ slot[w] = current /\ w \notin refused => Ahead(w)

\* A switch leaves no earlier write behind: once it has drained the queue,
\* only writes made since it began are still queued, so the reload drops no
\* other (VaultIpcEngine.flush in the slot bar's handler).
SwitchDrains ==
    \A w \in Windows :
        switch[w].st \in {"sql", "move", "reload"} =>
            \A i \in DOMAIN queue[w] : queue[w][i].late

\* With one window, a slot's document holds an entry that another slot's
\* application wrote only if it was written late: the drain before the switch
\* covers every earlier write.
OnlyLateStray ==
    \A s \in Slots : \A k \in DOMAIN doc[s] : doc[s][k].from = s \/ doc[s][k].late

\* The same of a slot's database, which is saved whole: it holds changes of
\* another slot only together with a late one.
OnlyLateOverwrites ==
    \A s \in Slots : (\E x \in blob[s] : x.from # s) => \E x \in blob[s] : x.late

\* A switch comes to an end although the application keeps writing: it awaits
\* the writes queued when it began, not the later ones.
SwitchEnds == \A w \in Windows : switch[w].st # "none" ~> switch[w].st = "none"

\* What the slot bar says of a switch: "the application must start over in the
\* new scope, never observe the switch", after the queues were drained because
\* "the Rust side saves under the *current* slot, which is about to change".
SlotIsolation ==
    /\ \A s \in Slots : \A k \in DOMAIN doc[s] : doc[s][k].from = s
    /\ \A s \in Slots : \A x \in blob[s] : x.from = s
=============================================================================

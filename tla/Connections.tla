----------------------------- MODULE Connections -----------------------------
(***************************************************************************)
(* The user's connections: the registry file and the keychain              *)
(* (poid-connections/src/store.rs), which connection serves which document *)
(* (bindings.rs), and the commands of the hub and of the Reader windows    *)
(* (src-tauri/src/connections.rs).                                         *)
(*                                                                         *)
(* Commands are synchronous, on the main thread, and so atomic but for the *)
(* death of the process between two writes.  A credential is the number of *)
(* the save that brought it, and a record's target that of the credential  *)
(* it was parsed from.                                                     *)
(***************************************************************************)
EXTENDS Naturals

CONSTANTS
    Conns,       \* ids Studio assigns
    Docs,        \* documents (app id and instance id) in connection mode
    Windows,     \* Reader windows
    Kinds,       \* kinds of connection, of {"sql", "net"}
    MaxSecrets,  \* bound: credentials typed
    Missing,     \* no record, no session, no document, nobody
    Local        \* the binding "keep the data here"

ASSUME ConnectionsAssumption ==
    /\ MaxSecrets \in Nat /\ Kinds \subseteq {"sql", "net"}
    /\ Local \notin Conns \union {Missing}
    /\ Missing \notin Conns \union Docs \union Windows
                     \union [kind : Kinds, target : 1..MaxSecrets]

VARIABLES
    \* Disk.
    keychain,  \* the credential of an id, 0 when there is none
    recDisk,   \* connections.json
    bindDisk,  \* bindings.json
    \* The process.
    rec,       \* ConnectionStore.records
    bind,      \* BindingStore.bindings
    window,    \* each window: its document, its stage, what it offers and chose
    \* History, read by no guard (drawn and used bound what is new).
    drawn,
    used,      \* ids drawn: a new connection gets a fresh one
    removed,   \* ids whose removal was reported done
    cut,       \* ids whose last save did not reach connections.json
    lost       \* documents whose last answer was not saved before a restart

diskVars    == <<keychain, recDisk, bindDisk>>
historyVars == <<drawn, used, removed, cut, lost>>
vars == <<diskVars, rec, bind, window, historyVars>>

Secrets  == 1..MaxSecrets
Record   == [kind : Kinds, target : Secrets]
Binding  == Conns \union {Local, Missing}
Closed   == [doc |-> Missing, stage |-> "none", offered |-> {}, choice |-> Missing]
Window   == [doc : Docs, offered : SUBSET Conns, choice : Binding,
             stage : {"asking", "prompt", "chosen", "running"}]

TypeOK ==
    /\ keychain \in [Conns -> 0..MaxSecrets]
    /\ recDisk \in [Conns -> Record \union {Missing}] /\ rec \in [Conns -> Record \union {Missing}]
    /\ bindDisk \in [Docs -> Binding] /\ bind \in [Docs -> Binding]
    /\ window \in [Windows -> Window \union {Closed}]
    /\ drawn \in 0..MaxSecrets
    /\ used \subseteq Conns /\ removed \subseteq Conns /\ cut \subseteq Conns /\ lost \subseteq Docs

Init ==
    /\ keychain = [c \in Conns |-> 0]
    /\ recDisk = [c \in Conns |-> Missing] /\ rec = recDisk
    /\ bindDisk = [d \in Docs |-> Missing] /\ bind = bindDisk
    /\ window = [w \in Windows |-> Closed]
    /\ drawn = 0 /\ used = {} /\ removed = {} /\ cut = {} /\ lost = {}

\* The process ends and starts again, on what is on disk.
Restarted(records) ==
    /\ recDisk' = records /\ rec' = records
    /\ bind' = bindDisk /\ UNCHANGED bindDisk
    /\ window' = [w \in Windows |-> Closed]
    /\ lost' = lost \union {d \in Docs : bind[d] # bindDisk[d]}

Restart ==
    /\ Restarted(recDisk)
    /\ UNCHANGED <<keychain, drawn, used, removed, cut>>

(***************************************************************************)
(* The hub.                                                                *)
(***************************************************************************)

HubOnly == UNCHANGED <<window, lost>>

Has(c)          == keychain[c] # 0
Covers(c, kind) == rec[c] # Missing /\ rec[c].kind = kind

\* Mutant of Upsert: the record of an edited connection keeps its target.
UpsertKeeping(c, kind) ==
    /\ drawn < MaxSecrets /\ (c \notin used \/ rec[c] # Missing)
    /\ drawn' = drawn + 1
    /\ keychain' = [keychain EXCEPT ![c] = drawn']
    /\ used' = used \union {c} /\ UNCHANGED removed
    /\ rec' = [rec EXCEPT ![c] = IF @ = Missing THEN [kind |-> kind, target |-> drawn'] ELSE @]
    /\ recDisk' = rec' /\ cut' = cut \ {c}
    /\ HubOnly /\ UNCHANGED <<bind, bindDisk>>

\* connection_save, with valid input: the keychain, the record, the file.  An id
\* that has a record is overwritten, with a target of either kind.
Upsert(c, kind) ==
    /\ drawn < MaxSecrets /\ (c \notin used \/ rec[c] # Missing)
    /\ drawn' = drawn + 1
    /\ keychain' = [keychain EXCEPT ![c] = drawn']
    /\ used' = used \union {c} /\ UNCHANGED removed
    /\ \/ /\ rec' = [rec EXCEPT ![c] = [kind |-> kind, target |-> drawn']]
          /\ \/ recDisk' = rec' /\ cut' = cut \ {c}
             \/ UNCHANGED recDisk /\ cut' = cut \union {c}
          /\ HubOnly /\ UNCHANGED <<bind, bindDisk>>
       \/ /\ Restarted(recDisk)
          /\ cut' = cut \union {c}

\* connection_rename: the label is not modelled, the write of the file is, and
\* with it of every other change that had not reached the file.
Rename(c) ==
    /\ rec[c] # Missing
    /\ recDisk' = rec
    /\ HubOnly /\ UNCHANGED <<keychain, rec, bind, bindDisk, drawn, used, removed, cut>>

\* Mutant of Forgotten: only the documents that are open are asked again.
ForgottenOpen(c) ==
    [d \in Docs |-> IF bind[d] = c /\ \E w \in Windows : window[w].doc = d THEN Missing ELSE bind[d]]

\* Mutant of Forgotten: every document is asked again.
ForgottenAll(c) == [d \in Docs |-> Missing]

Forgotten(c) == [d \in Docs |-> IF bind[d] = c THEN Missing ELSE bind[d]]

\* connection_remove: memory, keychain, file; then the bindings, in memory and
\* file.  A step that fails ends the command and undoes nothing.
Remove(c) ==
    /\ rec[c] # Missing
    /\ LET without == [rec EXCEPT ![c] = Missing]
       IN  \/ \* the keychain refuses
              /\ rec' = without
              /\ HubOnly /\ UNCHANGED <<diskVars, bind, drawn, used, removed, cut>>
           \/ \* the file cannot be written
              /\ rec' = without /\ keychain' = [keychain EXCEPT ![c] = 0]
              /\ HubOnly /\ UNCHANGED <<recDisk, bind, bindDisk, drawn, used, removed, cut>>
           \/ /\ rec' = without /\ recDisk' = without /\ keychain' = [keychain EXCEPT ![c] = 0]
              /\ bind' = Forgotten(c)
              /\ \/ /\ bindDisk' = IF bind' = bind THEN bindDisk ELSE bind'
                    /\ removed' = removed \union {c}
                 \/ bind' # bind /\ UNCHANGED <<bindDisk, removed>>
              /\ HubOnly /\ UNCHANGED <<drawn, used, cut>>
           \/ \* the process dies after the keychain, or after the file
              /\ keychain' = [keychain EXCEPT ![c] = 0]
              /\ Restarted(recDisk) \/ Restarted(without)
              /\ UNCHANGED <<drawn, used, removed, cut>>

\* A credential deleted from outside Studio.
LoseCredential(c) ==
    /\ Has(c)
    /\ keychain' = [keychain EXCEPT ![c] = 0]
    /\ UNCHANGED <<recDisk, bindDisk, rec, bind, window, historyVars>>

(***************************************************************************)
(* A Reader window finds out where its document keeps its data.            *)
(***************************************************************************)

WindowOnly == UNCHANGED <<diskVars, rec, bind, historyVars>>
Set(w, f)  == window' = [window EXCEPT ![w] = f]

OpenDocument(w, d) ==
    /\ window[w] = Closed
    /\ Set(w, [Closed EXCEPT !.doc = d, !.stage = "asking"])
    /\ WindowOnly

\* connection_choices, and the answer on record if it can still serve.
Ask(w) ==
    /\ window[w].stage \in {"asking", "prompt"}
    /\ LET b == bind[window[w].doc]
           serves == b \in Conns /\ Covers(b, "sql") /\ Has(b)
       IN  \/ /\ b = Local \/ serves
              /\ Set(w, [window[w] EXCEPT !.stage = "chosen", !.choice = b, !.offered = {}])
           \/ /\ b # Local  \* also when the keychain cannot be read
              /\ Set(w, [window[w] EXCEPT !.stage = "prompt",
                                          !.offered = {c \in Conns : Covers(c, "sql")}])
    /\ WindowOnly

Choose(w, b) ==
    /\ window[w].stage = "prompt" /\ b \in window[w].offered \union {Local}
    /\ Set(w, [window[w] EXCEPT !.stage = "chosen", !.choice = b, !.offered = {}])
    /\ WindowOnly

\* connection_bind: the choice holds for this window whether or not it could be
\* recorded; it is not recorded when the connection is gone by now.
Bind(w) ==
    /\ window[w].stage = "chosen"
    /\ LET d == window[w].doc
           b == window[w].choice
       IN  IF b = Local \/ Covers(b, "sql")
           THEN /\ bind' = [bind EXCEPT ![d] = b]
                /\ bindDisk' = bind' \/ UNCHANGED bindDisk
           ELSE UNCHANGED <<bind, bindDisk>>
    /\ Set(w, [window[w] EXCEPT !.stage = "running"])
    /\ UNCHANGED <<keychain, recDisk, rec, historyVars>>

CloseWindow(w) ==
    /\ window[w] # Closed
    /\ Set(w, Closed)
    /\ WindowOnly

Next ==
    \/ Restart
    \/ \E c \in Conns : \/ \E kind \in Kinds : Upsert(c, kind)
                       \/ Rename(c) \/ Remove(c) \/ LoseCredential(c)
    \/ \E w \in Windows :
         \/ \E d \in Docs : OpenDocument(w, d)
         \/ \E b \in Conns \union {Local} : Choose(w, b)
         \/ Ask(w) \/ Bind(w) \/ CloseWindow(w)

Spec == Init /\ [][Next]_vars

(***************************************************************************)
(* Properties                                                              *)
(***************************************************************************)

\* Once connection_remove has reported success, the credential is gone from the
\* keychain and the record from memory and from the file, through any later
\* save, failure or restart, and no document is bound to the connection: unless
\* its last answer had not been saved when the process ended, so that an older
\* one came back (forget_connection writes only if it changed memory).
RemovedIsGone ==
    \A c \in removed :
        /\ keychain[c] = 0 /\ rec[c] = Missing /\ recDisk[c] = Missing
        /\ \A d \in Docs : bind[d] = c => d \in lost

\* The credential of a connection is the one its record was made from, unless
\* the record never reached connections.json: upsert writes the keychain first.
FitsUnlessCut ==
    \A c \in Conns : rec[c] # Missing /\ Has(c) => rec[c].target = keychain[c] \/ c \in cut

\* A user who declined is not asked again: a recorded "keep it here" gives way
\* only to the answer of a window that was already asking, or to a restart that
\* loses it; deleting connections never undoes it.
DeclineStands ==
    [][\A d \in Docs :
         bind[d] = Local /\ bind'[d] # Local =>
            \/ d \in lost'
            \/ \E w \in Windows : window[w].doc = d /\ window[w].stage = "chosen"
                                  /\ window[w].choice = bind'[d]]_vars
=============================================================================

----------------------------- MODULE Containers -----------------------------
(***************************************************************************)
(* The life of one .poid file (crates/poid-core, poid-vault/src/convert.rs *)
(* and protect.rs, poid-cli, and the Web Reader's download).               *)
(*                                                                         *)
(* A file is packed or converted from a project, then signed, updated,     *)
(* encrypted, moved into the vault and back, and saved by readers.  Every  *)
(* operation opens the file, changes its own copy and saves that copy over *)
(* the file; no lock is held in between, so operations of two programs     *)
(* interleave, and a program may die before it saves.                      *)
(*                                                                         *)
(* What a container may hold is in ContainerRules.  A program is a name    *)
(* for the files a project is built into, and a digest is the program it   *)
(* was computed from (SHA-256 is taken to be injective).  The state trees  *)
(* are "default" (data/store.json), "sql" (data/database.sql) and the      *)
(* named slots; a tree is the set of keys it holds, or Absent.             *)
(***************************************************************************)
EXTENDS ContainerRules

CONSTANTS
    Projects,    \* what can be packed; files in data/ are its field data
    SigningKeys, \* the publisher's keys
    Passes,      \* passphrases
    Slots,       \* named slots
    Keys,        \* keys an application may store
    Weight,      \* key -> the size of its value, and its compressed size
    Programs,    \* programs that may work on the file at the same time
    MaxIds,      \* bound: instance ids drawn
    MaxEdits     \* bound: operations that open the file to change it

Modes == {"embedded", "vault", "connection"}
NoKey == "unsigned"
NoMark == [key |-> NoKey, payload |-> << >>, mismatched |-> FALSE]
NoFile == [app |-> "none"]
NoEdit == [stale |-> "none"]
Absent == {"absent"}
NoEnvelope == [pass |-> "none", data |-> Absent]
NoId == 0

ASSUME ContainersAssumption ==
    /\ MaxIds \in Nat
    /\ "absent" \notin Keys
    /\ \A p \in Projects : /\ p.mode \in Modes /\ p.requires \in BOOLEAN
                          /\ p.data \in (SUBSET Keys) \cup {Absent}

Trees == {"default", "sql"} \cup Slots
NoTrees == [t \in Trees |-> Absent]
Nothing == [t \in Trees |-> {}]

VARIABLES
    file,    \* the container on disk, or NoFile
    vault,   \* instance id -> the trees of its vault entry
    drawn,   \* instance ids assigned so far
    edits,   \* operations started so far
    edit,    \* program -> the container it is about to save, or NoEdit
    mine,    \* history: what the user last stored, by tree
    agreed,  \* history: permissions the user was asked about
    lost     \* history: a save overwrote what it had not read, or dropped state

vars == << file, vault, drawn, edits, edit, mine, agreed, lost >>

-----------------------------------------------------------------------------
(* Building a container from a project.                                    *)

(* build_app: static content packs as it is; sources need an entry and     *)
(* every import from the Standard Library.                                 *)
Builds(p) == p.kind = "static" \/ (p.entry /\ Resolves(p.imports))

ProjectOf(prog) == CHOOSE p \in Projects : p.prog = prog

(* The files each program consists of.                                     *)
Content ==
    [prog \in {p.prog : p \in Projects} |->
        LET p == ProjectOf(prog) IN Built(Collected(p.dir), p.kind)]

(* converted_manifest, in its blocks: those of a new application.          *)
ConvertedManifest ==
    [poid |-> "1.0", type |-> "app", given |-> Required("app"), malformed |-> {},
     entry |-> Index.path, size |-> 1]

Manifest(c) == IF c.converted THEN ConvertedManifest ELSE ProjectOf(c.prog).manifest

(* A fresh container of project p, before it is packed.                    *)
Fresh(p) ==
    [app |-> p.app, prog |-> p.prog, converted |-> FALSE, perms |-> p.perms,
     mode |-> p.mode, requires |-> p.requires, protected |-> FALSE,
     inst |-> NoId, digest |-> "none", sig |-> NoMark,
     trees |-> [NoTrees EXCEPT !["default"] = p.data], enc |-> NoEnvelope]

(* poid convert: a local application in embedded mode, and never the       *)
(* network.                                                                *)
Converted(p) ==
    [Fresh(p) EXCEPT !.app = p.local, !.converted = TRUE, !.mode = "embedded",
                     !.requires = FALSE, !.perms = @ \ {"network", "mcp"}]

(* The state trees as files of the container; the envelope is not          *)
(* compressible.                                                           *)
StatePath(t) ==
    CASE t = "default" -> <<"data", "store.json">>
      [] t = "sql"     -> <<"data", "database.sql">>
      [] OTHER         -> <<"slots", t, "store.json">>

StateSize(keys)   == 1 + MapThenSumSet(LAMBDA k : Weight[k].size, keys)
StatePacked(keys) == 1 + MapThenSumSet(LAMBDA k : Weight[k].packed, keys)

StateFiles(c) ==
    { [Index EXCEPT !.path = StatePath(t), !.size = StateSize(c.trees[t]),
                    !.packed = StatePacked(c.trees[t])] :
        t \in {u \in Trees : c.trees[u] # Absent} }
    \cup (IF c.enc = NoEnvelope THEN {}
          ELSE {[Index EXCEPT !.path = <<"data", "store.enc">>,
                              !.size = StateSize(c.enc.data),
                              !.packed = StateSize(c.enc.data)]})

Files(c) == Content[c.prog] \cup StateFiles(c)

(* Manifest::validate, its last rule: a connection needs storage.requires. *)
Validate(c) == c.mode = "connection" => c.requires

(* The verdicts of pack and of open (compared with TRUE so that TLC takes  *)
(* a guard for a value and not for a choice).                              *)
Packs(c) == (Validate(c) /\ WriterAccepts(Manifest(c), Files(c))) = TRUE

Opens(c) == (Validate(c) /\ ReaderAccepts(Manifest(c), Files(c))) = TRUE

-----------------------------------------------------------------------------
(* Digests and signatures.  Of a signature, "mismatched" is history: an     *)
(* update took it over together with a program it does not cover.          *)

(* integrity::refresh.                                                     *)
Digests(c) == c.prog
Refresh(c) == [c EXCEPT !.digest = Digests(c)]

Verify(c) == c.digest = Digests(c)

(* Mutant: the placement is attested too.                                  *)
PayloadAll(c) == <<c.app, c.perms, c.digest, c.mode>>

(* The publisher's attestation: everything but instance, storage and the   *)
(* state trees.                                                            *)
Payload(c) == <<c.app, c.perms, c.digest>>

Signed(c, k) ==
    LET r == Refresh(c)
    IN  [r EXCEPT !.sig = [key |-> k, payload |-> Payload(r), mismatched |-> FALSE]]

SignatureStatus(c) ==
    IF c.sig.key = NoKey THEN "unsigned"
    ELSE IF c.sig.payload = Payload(c) THEN "valid" ELSE "invalid"

(* conformance_check.                                                      *)
Conformant(c) == Opens(c) /\ Verify(c) /\ SignatureStatus(c) # "invalid"

-----------------------------------------------------------------------------
(* Creating the file.                                                      *)

(* poid pack and poid convert check what they packed before they write it. *)
SelfChecked(c) == Packs(c) /\ Opens(Refresh(c)) /\ Verify(Refresh(c))

(* The data a project ships counts as stored where a reader reads it: in   *)
(* embedded mode.                                                          *)
Create(c) ==
    /\ file = NoFile
    /\ SelfChecked(c)
    /\ file' = Refresh(c)
    /\ mine' = [t \in Trees |-> IF c.mode = "embedded" THEN c.trees[t] \ Absent ELSE {}]
    /\ agreed' = c.perms
    /\ UNCHANGED << vault, drawn, edits, edit, lost >>

Pack(p) == Builds(p) /\ Create(Fresh(p))

Convert(p) == Builds(p) /\ Create(Converted(p))

-----------------------------------------------------------------------------
(* Operations.  Each one opens the file and keeps its own copy, with what  *)
(* a successful save will mean to the user: the trees that are stored anew *)
(* (puts, Absent for the others), the permissions that are reported (asks) *)
(* and whether state is dropped.                                           *)

Opened(by) == file # NoFile /\ edit[by] = NoEdit /\ edits < MaxEdits /\ Opens(file)

Edit(by, c, puts, asks, drops) ==
    /\ edits' = edits + 1
    /\ edit' = [edit EXCEPT ![by] =
        [stale |-> FALSE, new |-> c, puts |-> IF lost \/ drops THEN NoTrees ELSE puts,
         asks |-> asks, drops |-> drops]]

Keeping(by, c) == Edit(by, c, NoTrees, {}, FALSE)

(* poid sign.                                                              *)
Sign(by, k) ==
    /\ Opened(by)
    /\ Keeping(by, Signed(file, k))
    /\ UNCHANGED << file, vault, drawn, mine, agreed, lost >>

(* Mutant: only the network axis is compared.                              *)
PermissionsWidenedNet(old, new) == "network" \in new \ old

(* permissions_widened.                                                    *)
PermissionsWidened(old, new) == ~(new \subseteq old)

(* What an update may be given: any container that opens, packed, put      *)
(* together by hand or converted.  It carries no signature, one that       *)
(* covers it, or one over something else: the program was changed after it *)
(* was signed, or the signature was taken from another file.               *)
Unsigned == {Fresh(p) : p \in Projects} \cup {Converted(p) : p \in Projects}

Sources ==
    { newer \in Unsigned \cup {Signed(c, k) : c \in Unsigned, k \in SigningKeys}
                 \cup {[c EXCEPT !.sig.key = k] : c \in Unsigned, k \in SigningKeys} :
        Opens(newer) }

(* The signature of newer, if any, covers its program as it is, whatever   *)
(* digests newer came with.                                                *)
Covers(newer) == SignatureStatus(Refresh(newer)) # "invalid"

(* Mutant: the envelope is not recognised as state.                        *)
UpdatedPlain(c, newer) ==
    Refresh([newer EXCEPT !.trees = c.trees, !.inst = c.inst,
                          !.mode = c.mode, !.protected = c.protected,
                          !.sig.mismatched = ~Covers(newer)])

(* update_program: the program, its manifest and its signature are those   *)
(* of newer, and nobody asks whether that signature is valid; the state    *)
(* trees, the identity and the placement stay.                             *)
Updated(c, newer) ==
    Refresh([newer EXCEPT !.trees = c.trees, !.enc = c.enc, !.inst = c.inst,
                          !.mode = c.mode, !.protected = c.protected,
                          !.sig.mismatched = ~Covers(newer)])

(* poid update: refused unless both are the same application.              *)
Update(by, newer) ==
    /\ newer.app = file.app
    /\ Opened(by)
    /\ Edit(by, Updated(file, newer), NoTrees,
            IF PermissionsWidened(file.perms, newer.perms) THEN newer.perms ELSE {},
            FALSE)
    /\ UNCHANGED << file, vault, drawn, mine, agreed, lost >>

(* poid protect: only data/store.json is sealed.                           *)
Protect(by, pass) ==
    /\ Opened(by)
    /\ ~file.protected /\ file.trees["default"] # Absent
    /\ Edit(by, [file EXCEPT !.trees["default"] = Absent, !.protected = TRUE,
                             !.enc = [pass |-> pass, data |-> file.trees["default"]]],
            NoTrees, {}, file.enc # NoEnvelope)
    /\ UNCHANGED << file, vault, drawn, mine, agreed, lost >>

(* poid unprotect: what the envelope holds replaces data/store.json.  A    *)
(* wrong passphrase changes nothing.                                       *)
Unprotect(by, pass) ==
    /\ Opened(by)
    /\ file.enc # NoEnvelope /\ file.enc.pass = pass
    /\ Edit(by, [file EXCEPT !.trees["default"] = file.enc.data, !.protected = FALSE,
                             !.enc = NoEnvelope],
            NoTrees, {}, file.trees["default"] # Absent)
    /\ UNCHANGED << file, vault, drawn, mine, agreed, lost >>

(* set_instance_id: the reader assigns an identity on first open.          *)
Identified(c) == IF c.inst = NoId THEN [c EXCEPT !.inst = drawn + 1] ELSE c

DrawFor(c) ==
    /\ c.inst = NoId => drawn < MaxIds
    /\ drawn' = IF c.inst = NoId THEN drawn + 1 ELSE drawn

(* The desktop reader's first open.                                        *)
FirstOpen(by) ==
    /\ Opened(by) /\ file.inst = NoId
    /\ DrawFor(file)
    /\ Keeping(by, Identified(file))
    /\ UNCHANGED << file, vault, mine, agreed, lost >>

(* The Web Reader (which refuses what is not conformant) saves its session *)
(* as a download: the stores of an embedded container are replaced, those  *)
(* of a protected one too although the session never saw the envelope.     *)
Download(by, keys, sql) ==
    /\ Opened(by) /\ Conformant(file) /\ file.mode = "embedded"
    /\ DrawFor(file)
    /\ LET trees == [file.trees EXCEPT !["default"] = keys,
                                       !["sql"] = IF sql = {} THEN @ ELSE sql]
       IN  Edit(by, [Identified(file) EXCEPT !.trees = trees],
                [NoTrees EXCEPT !["default"] = keys,
                                !["sql"] = IF sql = {} THEN Absent ELSE sql],
                {}, file.protected)
    /\ UNCHANGED << file, vault, mine, agreed, lost >>

(* The vault entry once the default and the named trees of c are seeded:   *)
(* keys are set, none is removed, and the SQL dump is not read.            *)
Seeded(c) ==
    [t \in Trees |-> IF t = "sql" \/ c.trees[t] = Absent THEN vault[c.inst][t]
                     ELSE (vault[c.inst][t] \ Absent) \cup c.trees[t]]

(* convert_storage_mode: leaving embedded drops the state trees, the       *)
(* envelope among them; the protected flag stays.                          *)
Moved(c, mode) ==
    IF c.mode = "embedded" /\ mode # "embedded"
    THEN [c EXCEPT !.mode = mode, !.trees = NoTrees, !.enc = NoEnvelope]
    ELSE [c EXCEPT !.mode = mode]

(* embedded_to_vault: the vault entry is flushed before the file is saved. *)
ToVault(by) ==
    LET c == Identified(file) IN
    /\ Opened(by) /\ file.mode = "embedded"
    /\ DrawFor(file)
    /\ vault' = [vault EXCEPT ![c.inst] = Seeded(c)]
    /\ Edit(by, Moved(c, "vault"), NoTrees, {},
            file.enc # NoEnvelope \/ file.trees["sql"] # Absent)
    /\ UNCHANGED << file, mine, agreed, lost >>

(* export_slot: a slot that holds nothing writes no file.                  *)
Exported(c, t) ==
    IF t = "sql" \/ vault[c.inst][t] \ Absent = {} THEN c.trees[t] ELSE vault[c.inst][t]

(* vault_to_embedded: the entry is left in place, and what is exported is  *)
(* plain text whatever the protected flag says.                            *)
ToEmbedded(by) ==
    /\ Opened(by) /\ file.mode = "vault" /\ file.inst # NoId
    /\ Edit(by, [Moved(file, "embedded") EXCEPT
                   !.trees = [t \in Trees |-> Exported(file, t)]],
            NoTrees, {}, file.protected)
    /\ UNCHANGED << file, vault, drawn, mine, agreed, lost >>

(* A window of the vault-mode file stores keys in slot t, whatever else is *)
(* under way.  A program that has read the vault entry and takes it out of *)
(* the vault misses them.                                                  *)
Store(t, keys) ==
    /\ file # NoFile /\ file.mode = "vault" /\ file.inst # NoId
    /\ vault' = [vault EXCEPT ![file.inst][t] = keys]
    /\ mine' = IF lost THEN Nothing ELSE [mine EXCEPT ![t] = keys]
    /\ edit' = [by \in Programs |->
                 IF edit[by] = NoEdit THEN NoEdit
                 ELSE [edit[by] EXCEPT !.stale = @ \/ edit[by].new.mode # "vault"]]
    /\ UNCHANGED << file, drawn, edits, agreed, lost >>

(* clear_data, "Duplicate as empty": no state and no identity.             *)
Duplicate(by) ==
    /\ Opened(by)
    /\ Edit(by, [file EXCEPT !.trees = NoTrees, !.enc = NoEnvelope, !.inst = NoId],
            Nothing, {}, FALSE)
    /\ UNCHANGED << file, vault, drawn, mine, agreed, lost >>

Overlaid(stored, puts) == [t \in Trees |-> IF puts[t] = Absent THEN stored[t] ELSE puts[t]]

(* save_path: pack, write a temporary file, rename it over the old one.    *)
(* What pack refuses leaves the file alone.                                *)
Save(by) ==
    /\ edit[by] # NoEdit
    /\ IF Packs(edit[by].new)
       THEN /\ file' = Refresh(edit[by].new)
            /\ edit' = [o \in Programs |->
                         IF o = by \/ edit[o] = NoEdit THEN NoEdit
                         ELSE [edit[o] EXCEPT !.stale = @ \/ file' # file]]
            /\ agreed' = agreed \cup edit[by].asks
            /\ lost' = (lost \/ edit[by].drops \/ edit[by].stale)
            /\ mine' = IF lost' THEN Nothing ELSE Overlaid(mine, edit[by].puts)
       ELSE /\ edit' = [edit EXCEPT ![by] = NoEdit]
            /\ UNCHANGED << file, mine, agreed, lost >>
    /\ UNCHANGED << vault, drawn, edits >>

(* The program dies before the rename.                                     *)
Crash(by) ==
    /\ edit[by] # NoEdit
    /\ edit' = [edit EXCEPT ![by] = NoEdit]
    /\ UNCHANGED << file, vault, drawn, edits, mine, agreed, lost >>

-----------------------------------------------------------------------------
Init ==
    /\ file = NoFile
    /\ vault = [i \in 1..MaxIds |-> NoTrees]
    /\ drawn = 0
    /\ edits = 0
    /\ edit = [by \in Programs |-> NoEdit]
    /\ mine = Nothing
    /\ agreed = {}
    /\ lost = FALSE

Operation(by) ==
    \/ \E k \in SigningKeys : Sign(by, k)
    \/ \E newer \in Sources : Update(by, newer)
    \/ \E pass \in Passes : Protect(by, pass) \/ Unprotect(by, pass)
    \/ FirstOpen(by)
    \/ \E keys, sql \in SUBSET Keys : Download(by, keys, sql)
    \/ ToVault(by)
    \/ ToEmbedded(by)
    \/ Duplicate(by)
    \/ Save(by)
    \/ Crash(by)

Next ==
    \/ \E p \in Projects : Pack(p) \/ Convert(p)
    \/ \E by \in Programs : Operation(by)
    \/ \E t \in Trees \ {"sql"}, keys \in SUBSET Keys : Store(t, keys)

Spec == Init /\ [][Next]_vars

-----------------------------------------------------------------------------
(* Properties.                                                             *)

(* Whatever programs do to the file, together or one after the other, and  *)
(* wherever they die, the file on disk opens, its digests match and its    *)
(* signature, if any, is valid, so that it passes the conformance check.   *)
(* A signature is invalid only if update took it over, with its program,   *)
(* where it was invalid already: no operation breaks one by itself (the    *)
(* placement and the state it leaves are not attested).  Apart from that   *)
(* the exceptions are the limits pack does not look at: a state tree that  *)
(* compresses beyond the reader's cap, and state that takes the file over  *)
(* the number of entries or the budget.  Nothing opens such a file again.  *)
AlwaysConforms ==
    /\ file # NoFile
    /\ \A f \in StateFiles(file) : RatioOk(f)
    /\ WithinLimits(Manifest(file), Files(file))
    => /\ Opens(file) /\ Verify(file)
       /\ SignatureStatus(file) = "invalid" => file.sig.mismatched

Prohibited ==
    { prog \in DOMAIN Content :
        \E f \in Content[prog] : \E e \in {f} \cup f.entries :
            \/ e.content = "native" \/ e.kind = "link"
            \/ \E i \in DOMAIN e.path : e.path[i] = ".." }

(* No native code, no link and no name that could escape gets into a file, *)
(* at any depth of archives within archives, whatever the project that it  *)
(* was built from holds.                                                   *)
NothingProhibited ==
    file # NoFile => file.prog \notin Prohibited

(* What a reader of c finds in tree t.                                     *)
Found(c, t) ==
    IF c.mode = "vault" THEN IF c.inst = NoId THEN {} ELSE vault[c.inst][t]
    ELSE IF t = "default" /\ c.protected THEN c.enc.data
    ELSE c.trees[t]

(* Everything the user last stored is found in the file or in its vault    *)
(* entry, over any series of updates, signatures, encryptions and moves,   *)
(* unless a save overwrote one it had not read, or the operation was one   *)
(* of those that drop state: a move into the vault of an encrypted store   *)
(* or of a SQL dump, and a download over an envelope.                      *)
DataKept ==
    file # NoFile /\ ~lost => \A t \in Trees : mine[t] \subseteq Found(file, t)

(* The program in the file never asks for a permission that was neither in *)
(* the program first agreed to nor reported as widened by an update.       *)
ConsentCovers == file # NoFile => file.perms \subseteq agreed
=============================================================================

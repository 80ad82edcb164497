-------------------------- MODULE InstanceIdentity --------------------------
(***************************************************************************)
(* Which memory a container file addresses: the id inside the file         *)
(* (poid-core), the index of ids and paths (poid-vault/src/index.rs), what *)
(* opening a file does with both (src-tauri/src/document.rs, windows.rs),  *)
(* and the user's answer when the file is a copy (commands.rs), with       *)
(* failing writes, crashes, and a user who copies and moves files.         *)
(*                                                                         *)
(* Commands run one at a time on the main thread; those that write the     *)
(* file and then the index are several steps, so that the process can die  *)
(* between them.  Files are not touched from outside during a command.     *)
(***************************************************************************)
EXTENDS Naturals, FiniteSets

CONSTANTS
    Paths,
    Modes,       \* the storage modes of the files, of {"vault", "embedded"}
    Tiers,       \* the tiers applications use, of {"kv", "sql"}
    MaxFiles,    \* bound: files that ever exist, copies included
    MaxIds,      \* bound: instance ids ever drawn
    MaxReaders,  \* bound: Reader windows one process opens
    NoFile, NoDoc

ASSUME InstanceIdentityAssumption ==
    /\ MaxFiles \in Nat /\ MaxIds \in Nat /\ MaxReaders \in Nat
    /\ Modes \subseteq {"vault", "embedded"} /\ Tiers \subseteq {"kv", "sql"}
    /\ NoFile \notin [tok : 1..MaxFiles, id : 0..MaxIds, mode : Modes]
    /\ NoDoc \notin [path : Paths, tok : 1..MaxFiles, mode : Modes, conflict : BOOLEAN]

VARIABLES
    \* Disk.
    file,       \* the container at a path
    mem,        \* the vault's memory of an id, as the files that wrote to it
    indexDisk,  \* index.json
    \* The process.
    index,      \* InstanceIndex.entries: the paths of an id, none when absent
    seq,        \* READER_SEQ
    docs,       \* Documents, by window label
    bound,      \* VaultState.windows
    job,        \* the command between two of its writes
    \* Bookkeeping.
    born,       \* files so far
    drawn,      \* ids so far
    \* History, read by no guard.
    acked,      \* files with a stored write while they named its memory
    chosen,     \* ids for which the user answered Move or Share
    blind,      \* ids opened while the index could not know the original
    original,   \* the file this process opened as the one an id belongs to
    settled     \* answered and recorded: path and id

diskVars    == <<file, mem, indexDisk>>
processVars == <<index, seq, docs, bound, job>>
historyVars == <<acked, chosen, blind, original, settled>>
vars == <<diskVars, processVars, born, drawn, historyVars>>

Tokens  == 1..MaxFiles
Ids     == 1..MaxIds
NoId    == 0                    \* instance.id is null
NoToken == 0                    \* no file yet
Readers == 1..MaxReaders

\* tok tells two files with the same bytes apart; the program never sees it.
File == [tok : Tokens, id : Ids \union {NoId}, mode : Modes]
Doc  == [path : Paths, tok : Tokens, mode : Modes, conflict : BOOLEAN]
Idle == [st |-> "idle"]
Job  == [st : {"register", "save", "record"}, path : Paths, id : Ids, w : Readers]

TypeOK ==
    /\ file \in [Paths -> File \union {NoFile}]
    /\ mem \in [Tiers -> [Ids -> SUBSET Tokens]]
    /\ indexDisk \in [Ids -> SUBSET Paths] /\ index \in [Ids -> SUBSET Paths]
    /\ seq \in 0..MaxReaders
    /\ docs \in [Readers -> Doc \union {NoDoc}]
    /\ bound \in [Readers -> Ids \union {NoId}]
    /\ job \in Job \union {Idle}
    /\ born \in 0..MaxFiles /\ drawn \in 0..MaxIds
    /\ acked \in [Tiers -> SUBSET Tokens]
    /\ chosen \subseteq Ids /\ blind \subseteq Ids /\ settled \subseteq Paths \X Ids
    /\ original \in [Ids -> Tokens \union {NoToken}]

Init ==
    /\ file = [p \in Paths |-> NoFile]
    /\ mem = [t \in Tiers |-> [i \in Ids |-> {}]]
    /\ indexDisk = [i \in Ids |-> {}] /\ index = indexDisk
    /\ seq = 0
    /\ docs = [w \in Readers |-> NoDoc] /\ bound = [w \in Readers |-> NoId]
    /\ job = Idle
    /\ born = 0 /\ drawn = 0
    /\ acked = [t \in Tiers |-> {}]
    /\ chosen = {} /\ blind = {} /\ settled = {}
    /\ original = [i \in Ids |-> NoToken]

Exists(p) == file[p] # NoFile

(***************************************************************************)
(* The user's file manager.                                                *)
(***************************************************************************)

FilesOnly == UNCHANGED <<mem, indexDisk, processVars, historyVars>>

\* A file arrives: never opened, or with an id from another machine.
Arrive(p, m) ==
    /\ job = Idle /\ ~Exists(p) /\ born < MaxFiles
    /\ born' = born + 1
    /\ \/ /\ file' = [file EXCEPT ![p] = [tok |-> born', id |-> NoId, mode |-> m]]
          /\ UNCHANGED drawn
       \/ /\ drawn < MaxIds /\ drawn' = drawn + 1
          /\ file' = [file EXCEPT ![p] = [tok |-> born', id |-> drawn', mode |-> m]]
    /\ FilesOnly

\* A copy has the same bytes.
CopyFile(p, q) ==
    /\ job = Idle /\ Exists(p) /\ ~Exists(q) /\ born < MaxFiles
    /\ born' = born + 1
    /\ file' = [file EXCEPT ![q] = [file[p] EXCEPT !.tok = born']]
    /\ FilesOnly /\ UNCHANGED drawn

MoveFile(p, q) ==
    /\ job = Idle /\ Exists(p) /\ ~Exists(q)
    /\ file' = [file EXCEPT ![p] = NoFile, ![q] = file[p]]
    /\ FilesOnly /\ UNCHANGED <<born, drawn>>

(***************************************************************************)
(* InstanceIndex.  Every use ends in a save, which may fail and leave the  *)
(* change in memory only.                                                  *)
(***************************************************************************)

\* Mutant of Disposition: a new path of a known id is always a move.
DispositionMoves(i, p) ==
    IF index[i] = {} THEN "Register" ELSE IF p \in index[i] THEN "Open" ELSE "Moved"

Disposition(i, p) ==
    IF index[i] = {} THEN "Register"
    ELSE IF p \in index[i] THEN "Open"
    ELSE IF \E q \in index[i] : Exists(q) THEN "Copy"
    ELSE "Moved"

WithPath(i, p)   == [index EXCEPT ![i] = {p}]
RecordMove(i, p) == [index EXCEPT ![i] = IF @ = {} THEN {} ELSE {p}]
AddShared(i, p)  == [index EXCEPT ![i] = IF @ = {} THEN {} ELSE @ \union {p}]

WithIndex(new, ok) ==
    /\ index' = new
    /\ indexDisk' = IF ok THEN new ELSE indexDisk

OpenedAs(i, p) == [original EXCEPT ![i] = file[p].tok]

\* What is settled once the paths of i are replaced by p.
Resettled(i, p) == {s \in settled : s[2] # i} \union {<<p, i>>}

(***************************************************************************)
(* Opening a file in a new window.                                         *)
(***************************************************************************)

\* open_reader: a window that cannot be built keeps its binding.
OpenWindow(p, i, conflict) ==
    /\ seq < MaxReaders
    /\ seq' = seq + 1
    /\ bound' = [bound EXCEPT ![seq'] = IF conflict THEN NoId ELSE i]
    /\ \E built \in BOOLEAN :
         docs' = IF built THEN [docs EXCEPT ![seq'] = [path |-> p, tok |-> file[p].tok,
                                    mode |-> file[p].mode, conflict |-> conflict]]
                          ELSE docs

\* A null id is replaced in the file.  A file that cannot be written keeps its
\* null id, and the window a memory of its own.
LoadFresh(p) ==
    /\ job = Idle /\ Exists(p) /\ file[p].id = NoId
    /\ seq < MaxReaders /\ drawn < MaxIds
    /\ drawn' = drawn + 1
    /\ \/ /\ file' = [file EXCEPT ![p].id = drawn']
          /\ job' = [st |-> "register", path |-> p, id |-> drawn', w |-> seq + 1]
          /\ UNCHANGED <<seq, docs, bound>>
       \/ /\ OpenWindow(p, drawn', FALSE)
          /\ UNCHANGED <<file, job>>
    /\ UNCHANGED <<mem, indexDisk, index, born, historyVars>>

\* The new id is registered, whether or not the index can be saved.
LoadRegister ==
    /\ job.st = "register"
    /\ IF file[job.path].mode = "vault"
       THEN /\ \E ok \in BOOLEAN : WithIndex(WithPath(job.id, job.path), ok)
            /\ original' = OpenedAs(job.id, job.path)
       ELSE UNCHANGED <<index, indexDisk, original>>
    /\ OpenWindow(job.path, job.id, FALSE)
    /\ job' = Idle
    /\ UNCHANGED <<file, mem, born, drawn, acked, chosen, blind, settled>>

\* The original exists, but was moved where the index does not know it.
Astray(i, p) == \E q \in Paths \ (index[i] \union {p}) : Exists(q) /\ file[q].id = i

\* Another file was opened as the original, and p has been put in its place.
Replaced(i, p) == original[i] \notin {NoToken, file[p].tok}

\* resolve goes through with_index too, and saves the index as it was.
Recorded(new, ok) ==
    /\ index' = new
    /\ indexDisk' = IF ok THEN new ELSE index

\* When that save fails, the file is opened as if its path were registered.
LoadKnown(p) ==
    /\ job = Idle /\ Exists(p) /\ file[p].id # NoId /\ file[p].mode = "vault"
    /\ LET i == file[p].id
           d == Disposition(i, p)
       IN  \/ /\ d # "Open" /\ OpenWindow(p, i, FALSE)
              /\ blind' = blind \union {i}
              /\ UNCHANGED <<index, indexDisk, original, settled>>
           \/ /\ d = "Register" /\ OpenWindow(p, i, FALSE)
              /\ \E ok \in BOOLEAN : Recorded(WithPath(i, p), ok)
              /\ original' = OpenedAs(i, p)
              /\ UNCHANGED <<blind, settled>>
           \/ /\ d = "Open" /\ OpenWindow(p, i, FALSE)
              /\ \E ok \in BOOLEAN : WithIndex(index, ok)
              /\ original' = OpenedAs(i, p)
              /\ blind' = IF Replaced(i, p) THEN blind \union {i} ELSE blind
              /\ UNCHANGED settled
           \/ /\ d = "Moved" /\ OpenWindow(p, i, FALSE)
              /\ \E ok \in BOOLEAN : Recorded(RecordMove(i, p), ok)
              /\ settled' = {s \in settled : s[2] # i}
              /\ original' = OpenedAs(i, p)
              /\ blind' = IF Astray(i, p) THEN blind \union {i} ELSE blind
           \/ /\ d = "Copy" /\ OpenWindow(p, i, TRUE) /\ WithIndex(index, TRUE)
              /\ UNCHANGED <<blind, original, settled>>
    /\ UNCHANGED <<file, mem, job, born, drawn, acked, chosen>>

\* Embedded data travels in the file: no index, no question.
LoadEmbedded(p) ==
    /\ job = Idle /\ Exists(p) /\ file[p].id # NoId /\ file[p].mode = "embedded"
    /\ OpenWindow(p, file[p].id, FALSE)
    /\ UNCHANGED <<diskVars, index, job, born, drawn, historyVars>>

(***************************************************************************)
(* resolve_copy_conflict: the file is read again, the answer applied to    *)
(* the id it names now.                                                    *)
(***************************************************************************)

\* The command does not look at the flag: the page does, and asks once, for a
\* document that came with a conflict.
Asked(w) ==
    /\ job = Idle /\ docs[w] # NoDoc /\ docs[w].conflict
    /\ Exists(docs[w].path) /\ file[docs[w].path].id # NoId

\* The window's document is read anew, and the window bound.
Resolved(w, i) ==
    /\ docs' = [docs EXCEPT ![w].conflict = FALSE, ![w].tok = file[docs[w].path].tok]
    /\ bound' = [bound EXCEPT ![w] = i]

Answer(w, new, ok, i) ==
    /\ WithIndex(new, ok)
    /\ IF ok THEN Resolved(w, i) ELSE UNCHANGED <<docs, bound>>
    /\ chosen' = chosen \union {i}
    /\ UNCHANGED <<file, mem, seq, job, born, drawn, acked, blind, original>>

AnswerMove(w) ==
    /\ Asked(w)
    /\ LET p == docs[w].path
           i == file[p].id
       IN  \E ok \in BOOLEAN :
             /\ Answer(w, RecordMove(i, p), ok, i)
             /\ settled' = IF ok /\ index[i] # {} THEN Resettled(i, p)
                           ELSE {s \in settled : s[2] # i}

\* Mutant of AnswerShare: the answer is remembered and not saved.
AnswerShareUnsaved(w) ==
    /\ Asked(w)
    /\ LET p == docs[w].path
           i == file[p].id
       IN  /\ index[i] # {} /\ index' = AddShared(i, p) /\ UNCHANGED indexDisk
           /\ Resolved(w, i)
           /\ settled' = settled \union {<<p, i>>}
           /\ chosen' = chosen \union {i}
           /\ UNCHANGED <<file, mem, seq, job, born, drawn, acked, blind, original>>

AnswerShare(w) ==
    /\ Asked(w)
    /\ LET p == docs[w].path
           i == file[p].id
       IN  \E ok \in BOOLEAN :
             /\ Answer(w, AddShared(i, p), ok, i)
             /\ settled' = IF ok /\ index[i] # {} THEN settled \union {<<p, i>>} ELSE settled

\* Mutant of Copied: the memory is left to be copied later.
CopiedLater(i, j) == mem

\* Fork: the memory's file is copied to a new id, ...
Copied(i, j) == [t \in Tiers |-> IF t = "kv" THEN [mem[t] EXCEPT ![j] = mem[t][i]] ELSE mem[t]]

ForkCopy(w) ==
    /\ Asked(w) /\ drawn < MaxIds
    /\ drawn' = drawn + 1
    /\ mem' = Copied(file[docs[w].path].id, drawn')
    /\ job' = [st |-> "save", path |-> docs[w].path, id |-> drawn', w |-> w]
    /\ UNCHANGED <<file, indexDisk, index, seq, docs, bound, born, historyVars>>

\* Mutant of ForkSave: the failure leaves the command open.
ForkSaveOpen ==
    /\ job.st = "save"
    /\ \/ /\ file' = [file EXCEPT ![job.path].id = job.id]
          /\ job' = [job EXCEPT !.st = "record"]
       \/ UNCHANGED file /\ job' = [job EXCEPT !.st = "failed"]
    /\ UNCHANGED <<mem, indexDisk, index, seq, docs, bound, born, drawn, historyVars>>

\* ... the container saved with it, or the command fails, ...
ForkSave ==
    /\ job.st = "save"
    /\ \/ /\ file' = [file EXCEPT ![job.path].id = job.id]
          /\ job' = [job EXCEPT !.st = "record"]
       \/ UNCHANGED file /\ job' = Idle
    /\ UNCHANGED <<mem, indexDisk, index, seq, docs, bound, born, drawn, historyVars>>

\* ... and the new id registered.
ForkRegister ==
    /\ job.st = "record"
    /\ \E ok \in BOOLEAN :
         /\ WithIndex(WithPath(job.id, job.path), ok)
         /\ IF ok THEN Resolved(job.w, job.id) ELSE UNCHANGED <<docs, bound>>
         /\ settled' = IF ok THEN Resettled(job.id, job.path) ELSE settled
    /\ job' = Idle
    /\ original' = OpenedAs(job.id, job.path)
    /\ UNCHANGED <<file, mem, seq, born, drawn, acked, chosen, blind>>

(***************************************************************************)
(* Windows at work.                                                        *)
(***************************************************************************)

InPlace(w) == docs[w] # NoDoc /\ Exists(docs[w].path) /\ file[docs[w].path].tok = docs[w].tok
Names(w)   == InPlace(w) /\ file[docs[w].path].id = bound[w]
Unforked(w) == InPlace(w) /\ file[docs[w].path].id \in {bound[w], NoId}

\* A vault command of the window: the memory is the one its label is bound to.
Write(w, t) ==
    /\ job = Idle /\ docs[w] # NoDoc /\ docs[w].mode = "vault"
    /\ ~docs[w].conflict /\ bound[w] # NoId
    /\ mem' = [mem EXCEPT ![t][bound[w]] = @ \union {docs[w].tok}]
    /\ acked' = IF Names(w) THEN [acked EXCEPT ![t] = @ \union {docs[w].tok}] ELSE acked
    /\ UNCHANGED <<file, indexDisk, processVars, born, drawn, chosen, blind, original, settled>>

CloseWindow(w) ==
    /\ job = Idle /\ docs[w] # NoDoc
    /\ docs' = [docs EXCEPT ![w] = NoDoc] /\ bound' = [bound EXCEPT ![w] = NoId]
    /\ UNCHANGED <<diskVars, index, seq, job, born, drawn, historyVars>>

\* The process ends, in the middle of a command or not, and starts again.
Restart ==
    /\ seq > 0 \/ job # Idle
    /\ index' = indexDisk /\ seq' = 0 /\ job' = Idle
    /\ docs' = [w \in Readers |-> NoDoc] /\ bound' = [w \in Readers |-> NoId]
    /\ original' = [i \in Ids |-> NoToken]
    /\ UNCHANGED <<diskVars, born, drawn, acked, chosen, blind, settled>>

Next ==
    \/ \E p \in Paths :
         \/ \E m \in Modes : Arrive(p, m)
         \/ \E q \in Paths : CopyFile(p, q) \/ MoveFile(p, q)
         \/ LoadFresh(p) \/ LoadKnown(p) \/ LoadEmbedded(p)
    \/ LoadRegister \/ ForkSave \/ ForkRegister \/ Restart
    \/ \E w \in Readers :
         \/ AnswerMove(w) \/ AnswerShare(w) \/ ForkCopy(w) \/ CloseWindow(w)
         \/ \E t \in Tiers : Write(w, t)

Spec == Init /\ [][Next]_vars

(***************************************************************************)
(* Properties                                                              *)
(***************************************************************************)

\* Two windows whose files lie where they were opened, at two paths, and were
\* not forked since, write to one memory only if the user answered Move or Share
\* for it, or the copy was opened while the index could not be saved (document.rs
\* falls back to Open), after the original had been moved unseen (then a copy
\* looks like the moved file), or where the original had been (index.rs tells
\* files apart by their path).
NoSilentSharing ==
    \A v, w \in Readers :
        /\ Unforked(v) /\ Unforked(w) /\ docs[v].path # docs[w].path
        /\ docs[v].mode = "vault" /\ docs[w].mode = "vault"
        /\ bound[v] = bound[w] /\ bound[v] # NoId
        => bound[v] \in chosen \union blind

\* A write stored while the file named the memory is in the memory the file
\* names now, whatever was forked, moved, copied, refused or cut short since:
\* load and fork write the memory before the file, and the file before the index.
FollowsFile(t) ==
    \A p \in Paths :
        Exists(p) /\ file[p].tok \in acked[t] =>
            file[p].id # NoId /\ file[p].tok \in mem[t][file[p].id]

MemoryFollowsFile == FollowsFile("kv")

\* An answer the user gave and Studio confirmed is still in the index, in
\* memory and on disk, until another answer or a move replaces the paths of the
\* instance: the user is asked once (index.rs).
AskedOnce ==
    \A s \in settled : s[1] \in index[s[2]] \intersect indexDisk[s[2]]
=============================================================================

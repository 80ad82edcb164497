----------------------- MODULE InstanceIdentityProofs -----------------------
(***************************************************************************)
(* Proofs about InstanceIdentity, for any paths, modes, files, ids and     *)
(* windows: type correctness, that an answer is kept, that the memory of a *)
(* file follows it, and that no memory is shared silently.                 *)
(***************************************************************************)
EXTENDS InstanceIdentity, TLAPS

LEMMA ConstantsDiffer ==
    /\ MaxFiles \in Nat /\ MaxIds \in Nat /\ MaxReaders \in Nat
    /\ NoFile \notin File /\ NoDoc \notin Doc
    /\ Ids \union {NoId} = 0..MaxIds
    /\ NoId \notin Ids /\ Ids \subseteq Nat /\ Tokens \subseteq Nat
BY InstanceIdentityAssumption DEF File, Doc, Tokens, Ids, NoId

LEMMA FileParts ==
    ASSUME TypeOK, NEW p \in Paths, Exists(p)
    PROVE  /\ file[p] \in File
           /\ file[p].tok \in Tokens /\ file[p].id \in Ids \union {NoId} /\ file[p].mode \in Modes
           /\ \A i \in Ids : [file[p] EXCEPT !.id = i] \in File
BY DEF TypeOK, Exists, File

\* A command under way names a file that exists and a window that is open.
JobOK ==
    job # Idle =>
        /\ job \in Job /\ Exists(job.path)
        /\ job.st \in {"save", "record"} => docs[job.w] # NoDoc /\ docs[job.w].path = job.path

Typed == TypeOK /\ JobOK

LEMMA OpenTyped ==
    ASSUME TypeOK, NEW p \in Paths, Exists(p), NEW i \in Ids, NEW conflict \in BOOLEAN,
           OpenWindow(p, i, conflict)
    PROVE  /\ seq' \in 0..MaxReaders
           /\ docs' \in [Readers -> Doc \union {NoDoc}]
           /\ bound' \in [Readers -> Ids \union {NoId}]
<1>1. seq' \in 0..MaxReaders /\ seq' \in Readers
  BY ConstantsDiffer DEF OpenWindow, TypeOK, Readers
<1>2. [path |-> p, tok |-> file[p].tok, mode |-> file[p].mode, conflict |-> conflict] \in Doc
  BY FileParts DEF Doc
<1>3. docs' \in [Readers -> Doc \union {NoDoc}]
  BY <1>1, <1>2 DEF OpenWindow, TypeOK
<1>4. bound' \in [Readers -> Ids \union {NoId}]
  BY <1>1 DEF OpenWindow, TypeOK
<1> QED
  BY <1>1, <1>3, <1>4

LEMMA IndexTyped ==
    ASSUME TypeOK, NEW i \in Ids, NEW p \in Paths, NEW new, NEW ok \in BOOLEAN,
           new \in {index, WithPath(i, p), RecordMove(i, p), AddShared(i, p)},
           WithIndex(new, ok) \/ Recorded(new, ok)
    PROVE  index' \in [Ids -> SUBSET Paths] /\ indexDisk' \in [Ids -> SUBSET Paths]
<1>1. new \in [Ids -> SUBSET Paths]
  BY DEF TypeOK, WithPath, RecordMove, AddShared
<1> QED
  BY <1>1 DEF TypeOK, WithIndex, Recorded

LEMMA ResolvedTyped ==
    ASSUME TypeOK, NEW w \in Readers, NEW i \in Ids, docs[w] # NoDoc, Exists(docs[w].path),
           Resolved(w, i)
    PROVE  docs' \in [Readers -> Doc \union {NoDoc}] /\ bound' \in [Readers -> Ids \union {NoId}]
<1>1. docs[w] \in Doc /\ docs[w].path \in Paths
  BY DEF TypeOK, Doc
<1>2. [[docs[w] EXCEPT !.conflict = FALSE] EXCEPT !.tok = file[docs[w].path].tok] \in Doc
  BY <1>1, FileParts DEF Doc
<1>3. docs' = [docs EXCEPT ![w] = [[docs[w] EXCEPT !.conflict = FALSE]
                                     EXCEPT !.tok = file[docs[w].path].tok]]
  BY <1>1 DEF Resolved, TypeOK
<1> QED
  BY <1>2, <1>3 DEF Resolved, TypeOK

LEMMA OriginalTyped ==
    ASSUME TypeOK, NEW p \in Paths, Exists(p), NEW i \in Ids
    PROVE  OpenedAs(i, p) \in [Ids -> Tokens \union {NoToken}]
BY FileParts DEF TypeOK, OpenedAs

LEMMA AskedParts ==
    ASSUME TypeOK, NEW w \in Readers, Asked(w)
    PROVE  /\ docs[w] \in Doc /\ docs[w].path \in Paths
           /\ file[docs[w].path].id \in Ids
BY FileParts DEF Asked, TypeOK, Doc

(***************************************************************************)
(* Type correctness, by the files', the loads' and the answers' steps.     *)
(***************************************************************************)

LEMMA OutsideTyped ==
    ASSUME Typed, NEW p \in Paths, NEW q \in Paths, NEW m \in Modes,
           Arrive(p, m) \/ CopyFile(p, q) \/ MoveFile(p, q)
    PROVE  Typed'
<1> USE DEF Typed
<1>1. job' = Idle
  BY DEF Arrive, CopyFile, MoveFile, FilesOnly, processVars
<1>2. /\ mem' \in [Tiers -> [Ids -> SUBSET Tokens]]
      /\ indexDisk' \in [Ids -> SUBSET Paths] /\ index' \in [Ids -> SUBSET Paths]
      /\ seq' \in 0..MaxReaders
      /\ docs' \in [Readers -> Doc \union {NoDoc}]
      /\ bound' \in [Readers -> Ids \union {NoId}]
      /\ acked' \in [Tiers -> SUBSET Tokens]
      /\ chosen' \subseteq Ids /\ blind' \subseteq Ids /\ settled' \subseteq Paths \X Ids
      /\ original' \in [Ids -> Tokens \union {NoToken}]
  BY DEF Arrive, CopyFile, MoveFile, FilesOnly, processVars, historyVars, TypeOK
<1>3. CASE Arrive(p, m)
  <2>1. born' \in 0..MaxFiles /\ born' \in Tokens
    BY <1>3, ConstantsDiffer DEF Arrive, TypeOK, Tokens
  <2>2. drawn' \in 0..MaxIds
    BY <1>3, ConstantsDiffer DEF Arrive, TypeOK
  <2>3. \A i \in Ids \union {NoId} : [tok |-> born', id |-> i, mode |-> m] \in File
    BY <2>1 DEF File
  <2>4. drawn < MaxIds /\ drawn' = drawn + 1 => drawn' \in Ids
    BY ConstantsDiffer DEF TypeOK, Ids
  <2>5. file' \in [Paths -> File \union {NoFile}]
    BY <1>3, <2>3, <2>4 DEF Arrive, TypeOK
  <2> QED
    BY <1>1, <1>2, <2>1, <2>2, <2>5 DEF TypeOK, JobOK
<1>4. CASE CopyFile(p, q)
  <2>1. born' \in 0..MaxFiles /\ born' \in Tokens
    BY <1>4, ConstantsDiffer DEF CopyFile, TypeOK, Tokens
  <2>2. [file[p] EXCEPT !.tok = born'] \in File
    BY <1>4, <2>1, FileParts DEF CopyFile, File
  <2>3. file' \in [Paths -> File \union {NoFile}] /\ drawn' = drawn
    BY <1>4, <2>2 DEF CopyFile, TypeOK
  <2> QED
    BY <1>1, <1>2, <2>1, <2>3 DEF TypeOK, JobOK
<1>5. CASE MoveFile(p, q)
  <2>1. file' \in [Paths -> File \union {NoFile}] /\ drawn' = drawn /\ born' = born
    BY <1>5 DEF MoveFile, TypeOK
  <2> QED
    BY <1>1, <1>2, <2>1 DEF TypeOK, JobOK
<1> QED
  BY <1>3, <1>4, <1>5

LEMMA LoadsTyped ==
    ASSUME Typed, NEW p \in Paths, LoadFresh(p) \/ LoadKnown(p) \/ LoadEmbedded(p)
    PROVE  Typed'
<1> USE DEF Typed
<1>1. Exists(p) /\ job = Idle
  BY DEF LoadFresh, LoadKnown, LoadEmbedded
<1>2. CASE LoadFresh(p)
  <2>1. drawn' \in 0..MaxIds /\ drawn' \in Ids
    BY <1>2, ConstantsDiffer DEF LoadFresh, TypeOK, Ids
  <2>2. CASE /\ file' = [file EXCEPT ![p].id = drawn']
             /\ job' = [st |-> "register", path |-> p, id |-> drawn', w |-> seq + 1]
             /\ UNCHANGED <<seq, docs, bound>>
    <3>1. seq + 1 \in Readers
      BY <1>2, ConstantsDiffer DEF LoadFresh, TypeOK, Readers
    <3>2. job' \in Job /\ job'.st = "register" /\ job'.path = p
      BY <2>1, <2>2, <3>1 DEF Job
    <3>3. file' \in [Paths -> File \union {NoFile}] /\ file'[p] # NoFile
      BY <1>1, <2>1, <2>2, FileParts, ConstantsDiffer DEF TypeOK
    <3> QED
      BY <1>2, <2>1, <2>2, <3>2, <3>3 DEF LoadFresh, TypeOK, JobOK, Exists, historyVars
  <2>3. CASE OpenWindow(p, drawn', FALSE) /\ UNCHANGED <<file, job>>
    BY <1>1, <1>2, <2>1, <2>3, OpenTyped DEF LoadFresh, TypeOK, JobOK, historyVars
  <2> QED
    BY <1>2, <2>2, <2>3 DEF LoadFresh
<1>3. CASE LoadKnown(p)
  <2> DEFINE i == file[p].id
  <2>1. i \in Ids
    BY <1>1, <1>3, FileParts DEF LoadKnown
  <2>2. \E conflict \in BOOLEAN : OpenWindow(p, i, conflict)
    BY <1>3 DEF LoadKnown
  <2>3. /\ seq' \in 0..MaxReaders
        /\ docs' \in [Readers -> Doc \union {NoDoc}]
        /\ bound' \in [Readers -> Ids \union {NoId}]
    BY <1>1, <2>1, <2>2, OpenTyped
  <2>4. \/ UNCHANGED <<index, indexDisk>>
        \/ \E ok \in BOOLEAN : WithIndex(index, ok) \/ Recorded(WithPath(i, p), ok)
                               \/ Recorded(RecordMove(i, p), ok)
    BY <1>3 DEF LoadKnown
  <2>5. index' \in [Ids -> SUBSET Paths] /\ indexDisk' \in [Ids -> SUBSET Paths]
    BY <2>1, <2>4, IndexTyped DEF TypeOK
  <2>6. blind' \subseteq Ids /\ settled' \subseteq Paths \X Ids
    BY <1>3, <2>1 DEF LoadKnown, TypeOK
  <2>7. UNCHANGED <<file, mem, job, born, drawn, acked, chosen>>
    BY <1>3 DEF LoadKnown
  <2>8. original' = original \/ original' = OpenedAs(i, p)
    BY <1>3 DEF LoadKnown
  <2>9. original' \in [Ids -> Tokens \union {NoToken}]
    BY <1>1, <2>1, <2>8, OriginalTyped DEF TypeOK
  <2> QED
    BY <1>1, <2>3, <2>5, <2>6, <2>7, <2>9 DEF TypeOK, JobOK
<1>4. CASE LoadEmbedded(p)
  <2>1. file[p].id \in Ids
    BY <1>1, <1>4, FileParts DEF LoadEmbedded
  <2> QED
    BY <1>1, <1>4, <2>1, OpenTyped DEF LoadEmbedded, TypeOK, JobOK, diskVars, historyVars
<1> QED
  BY <1>2, <1>3, <1>4

LEMMA MidCommand ==
    ASSUME LoadRegister \/ ForkSave \/ ForkRegister
    PROVE  job # Idle
<1>1. Idle.st = "idle"
  BY DEF Idle
<1>2. job.st # "idle"
  BY DEF LoadRegister, ForkSave, ForkRegister
<1> QED
  BY <1>1, <1>2

LEMMA CommandsTyped ==
    ASSUME Typed, LoadRegister \/ ForkSave \/ ForkRegister
    PROVE  Typed'
<1> USE DEF Typed
<1>1. job # Idle
  BY MidCommand
<1>2. /\ job.path \in Paths /\ job.id \in Ids /\ job.w \in Readers /\ Exists(job.path)
      /\ job.st \in {"save", "record"} => docs[job.w] # NoDoc /\ docs[job.w].path = job.path
  BY <1>1 DEF JobOK, Job
<1>3. CASE LoadRegister
  <2>1. index' \in [Ids -> SUBSET Paths] /\ indexDisk' \in [Ids -> SUBSET Paths]
    BY <1>2, <1>3, IndexTyped DEF LoadRegister, TypeOK
  <2>2. OpenWindow(job.path, job.id, FALSE)
    BY <1>3 DEF LoadRegister
  <2>3. PICK p \in Paths, i \in Ids : p = job.path /\ i = job.id
    BY <1>2
  <2>4. /\ seq' \in 0..MaxReaders
        /\ docs' \in [Readers -> Doc \union {NoDoc}]
        /\ bound' \in [Readers -> Ids \union {NoId}]
    BY <1>2, <2>2, <2>3, OpenTyped
  <2>5. original' \in [Ids -> Tokens \union {NoToken}]
    BY <1>2, <1>3, <2>3, OriginalTyped DEF LoadRegister, TypeOK
  <2> QED
    BY <1>3, <2>1, <2>4, <2>5 DEF LoadRegister, TypeOK, JobOK
<1>4. CASE ForkSave
  <2>1. CASE file' = [file EXCEPT ![job.path].id = job.id] /\ job' = [job EXCEPT !.st = "record"]
    <3>1. file' \in [Paths -> File \union {NoFile}] /\ file'[job.path] # NoFile
      BY <1>2, <2>1, FileParts, ConstantsDiffer DEF TypeOK
    <3>2. job' \in Job /\ job'.path = job.path /\ job'.w = job.w
      BY <1>1, <2>1 DEF JobOK, Job
    <3> QED
      BY <1>2, <1>4, <3>1, <3>2 DEF ForkSave, TypeOK, JobOK, Exists, historyVars
  <2>2. CASE UNCHANGED file /\ job' = Idle
    BY <1>4, <2>2 DEF ForkSave, TypeOK, JobOK, historyVars
  <2> QED
    BY <1>4, <2>1, <2>2 DEF ForkSave
<1>5. CASE ForkRegister
  <2>1. PICK ok \in BOOLEAN :
          /\ WithIndex(WithPath(job.id, job.path), ok)
          /\ IF ok THEN Resolved(job.w, job.id) ELSE UNCHANGED <<docs, bound>>
          /\ settled' = IF ok THEN Resettled(job.id, job.path) ELSE settled
    BY <1>5 DEF ForkRegister
  <2>2. index' \in [Ids -> SUBSET Paths] /\ indexDisk' \in [Ids -> SUBSET Paths]
    BY <1>2, <2>1, IndexTyped
  <2>3. docs' \in [Readers -> Doc \union {NoDoc}] /\ bound' \in [Readers -> Ids \union {NoId}]
    BY <1>2, <1>5, <2>1, ResolvedTyped DEF ForkRegister, TypeOK
  <2>4. settled' \subseteq Paths \X Ids
    BY <1>2, <2>1 DEF Resettled, TypeOK
  <2> QED
    BY <1>2, <1>5, <2>2, <2>3, <2>4, OriginalTyped DEF ForkRegister, TypeOK, JobOK
<1> QED
  BY <1>3, <1>4, <1>5

LEMMA AnswersTyped ==
    ASSUME Typed, NEW w \in Readers, AnswerMove(w) \/ AnswerShare(w) \/ ForkCopy(w)
    PROVE  Typed'
<1> USE DEF Typed
<1> DEFINE p == docs[w].path
           i == file[p].id
<1>1. Asked(w)
  BY DEF AnswerMove, AnswerShare, ForkCopy
<1>2. /\ job = Idle /\ docs[w] # NoDoc /\ Exists(p)
      /\ p \in Paths /\ i \in Ids
  BY <1>1, AskedParts DEF Asked
<1>3. CASE AnswerMove(w) \/ AnswerShare(w)
  <2>1. PICK ok \in BOOLEAN : Answer(w, RecordMove(i, p), ok, i) \/ Answer(w, AddShared(i, p), ok, i)
    BY <1>3 DEF AnswerMove, AnswerShare
  <2>2. index' \in [Ids -> SUBSET Paths] /\ indexDisk' \in [Ids -> SUBSET Paths]
    BY <1>2, <2>1, IndexTyped DEF Answer
  <2>3. docs' \in [Readers -> Doc \union {NoDoc}] /\ bound' \in [Readers -> Ids \union {NoId}]
    BY <1>2, <2>1, ResolvedTyped DEF Answer, TypeOK
  <2>4. settled' \subseteq Paths \X Ids
    <3>1. settled' \subseteq settled \union {<<p, i>>}
      BY <1>3 DEF AnswerMove, AnswerShare, Resettled
    <3>2. settled \subseteq Paths \X Ids
      BY DEF TypeOK
    <3>3. <<p, i>> \in Paths \X Ids
      BY <1>2
    <3> HIDE DEF p, i
    <3> QED
      BY <3>1, <3>2, <3>3
  <2>5. chosen' \subseteq Ids /\ UNCHANGED <<file, mem, seq, job, born, drawn, acked, blind, original>>
    BY <1>2, <2>1 DEF Answer, TypeOK
  <2> QED
    BY <1>2, <2>2, <2>3, <2>4, <2>5 DEF TypeOK, JobOK
<1>4. CASE ForkCopy(w)
  <2>1. drawn' \in 0..MaxIds /\ drawn' \in Ids
    BY <1>4, ConstantsDiffer DEF ForkCopy, TypeOK, Ids
  <2>2. mem' \in [Tiers -> [Ids -> SUBSET Tokens]]
    <3>1. mem' = Copied(i, drawn')
      BY <1>4 DEF ForkCopy
    <3> HIDE DEF i
    <3>2. \A t \in Tiers : mem[t] \in [Ids -> SUBSET Tokens]
      BY DEF TypeOK
    <3>3. ASSUME NEW t \in Tiers, NEW j \in Ids PROVE [mem[t] EXCEPT ![j] = mem[t][i]] \in [Ids -> SUBSET Tokens]
      BY <1>2, <3>2
    <3> QED
      BY <2>1, <3>1, <3>2, <3>3 DEF Copied
  <2>3. job' \in Job /\ job'.path = p /\ job'.w = w
    BY <1>2, <1>4, <2>1 DEF ForkCopy, Job
  <2> QED
    BY <1>2, <1>4, <2>1, <2>2, <2>3 DEF ForkCopy, TypeOK, JobOK, Exists, historyVars
<1> QED
  BY <1>3, <1>4

LEMMA WindowsTyped ==
    ASSUME Typed, NEW w \in Readers, CloseWindow(w) \/ \E t \in Tiers : Write(w, t)
    PROVE  Typed'
<1> USE DEF Typed
<1>1. CASE CloseWindow(w)
  BY <1>1 DEF CloseWindow, TypeOK, JobOK, diskVars, historyVars
<1>2. ASSUME NEW t \in Tiers, Write(w, t) PROVE Typed'
  <2>1. docs[w].tok \in Tokens /\ bound[w] \in Ids
    BY <1>2 DEF Write, TypeOK, Doc
  <2>2. mem' \in [Tiers -> [Ids -> SUBSET Tokens]] /\ acked' \in [Tiers -> SUBSET Tokens]
    BY <1>2, <2>1 DEF Write, TypeOK
  <2> QED
    BY <1>2, <2>2 DEF Write, TypeOK, JobOK, processVars
<1> QED
  BY <1>1, <1>2

LEMMA StepsTyped ==
    ASSUME Typed, [Next]_vars
    PROVE  Typed'
<1>1. CASE Restart
  BY <1>1, ConstantsDiffer DEF Restart, Typed, TypeOK, JobOK, diskVars, historyVars
<1>2. ASSUME NEW p \in Paths,
             \/ \E m \in Modes : Arrive(p, m)
             \/ \E q \in Paths : CopyFile(p, q) \/ MoveFile(p, q)
      PROVE  Typed'
  <2>1. ASSUME NEW m \in Modes, Arrive(p, m) PROVE Typed'
    BY <2>1, OutsideTyped
  <2>2. ASSUME NEW q \in Paths, CopyFile(p, q) \/ MoveFile(p, q) PROVE Typed'
    <3>1. file[p] \in File
      BY <2>2 DEF CopyFile, MoveFile, Exists, Typed, TypeOK
    <3>2. file[p].mode \in Modes
      BY <3>1 DEF File
    <3> QED
      BY <2>2, <3>2, OutsideTyped
  <2> QED
    BY <1>2, <2>1, <2>2
<1>3. ASSUME NEW p \in Paths, LoadFresh(p) \/ LoadKnown(p) \/ LoadEmbedded(p) PROVE Typed'
  BY <1>3, LoadsTyped
<1>4. CASE LoadRegister \/ ForkSave \/ ForkRegister
  BY <1>4, CommandsTyped
<1>5. ASSUME NEW w \in Readers, AnswerMove(w) \/ AnswerShare(w) \/ ForkCopy(w) PROVE Typed'
  BY <1>5, AnswersTyped
<1>6. ASSUME NEW w \in Readers, CloseWindow(w) \/ \E t \in Tiers : Write(w, t) PROVE Typed'
  BY <1>6, WindowsTyped
<1>7. CASE UNCHANGED vars
  BY <1>7 DEF vars, diskVars, processVars, historyVars, Typed, TypeOK, JobOK, Exists
<1> QED
  BY <1>1, <1>2, <1>3, <1>4, <1>5, <1>6, <1>7 DEF Next

LEMMA TypedHolds == Spec => []Typed
<1>1. Init => Typed
  BY ConstantsDiffer DEF Init, Typed, TypeOK, JobOK
<1>2. Typed /\ [Next]_vars => Typed'
  BY StepsTyped
<1> QED
  BY <1>1, <1>2, PTL DEF Spec

\* TypeOK: files, memories, index, windows and the command under way keep their
\* shape through every failure and restart.
THEOREM IdentityTypeCorrect == Spec => []TypeOK
<1>1. Typed => TypeOK
  BY DEF Typed
<1> QED
  BY <1>1, TypedHolds, PTL

(***************************************************************************)
(* An answer is kept.                                                      *)
(***************************************************************************)

\* Ids in files and answers have been drawn, and the id of a command under way
\* is too new for any answer to be about it.
IdsDrawn ==
    /\ \A p \in Paths : Exists(p) => file[p].id <= drawn
    /\ \A s \in settled : s[2] <= drawn
    /\ job # Idle => job.id <= drawn /\ \A s \in settled : s[2] # job.id

AnswerInv == IdsDrawn /\ AskedOnce

\* An instance with an answer has an entry in the index.
LEMMA SettledIsKnown ==
    ASSUME TypeOK, AskedOnce
    PROVE  /\ \A s \in settled : s[1] \in Paths /\ s[2] \in Ids /\ index[s[2]] # {}
           /\ \A s \in settled : s[1] \in index[s[2]] /\ s[1] \in indexDisk[s[2]]
BY DEF TypeOK, AskedOnce

LEMMA IdsStayDrawn ==
    ASSUME Typed, AnswerInv, [Next]_vars
    PROVE  IdsDrawn'
<1> USE DEF Typed, AnswerInv
<1>1. drawn \in Nat /\ \A p \in Paths : Exists(p) => file[p].id \in 0..MaxIds
  BY FileParts, ConstantsDiffer DEF TypeOK
<1>2. \A s \in settled : s[2] \in Nat
  BY SettledIsKnown, ConstantsDiffer
<1>3. ASSUME NEW p \in Paths, NEW m \in Modes, Arrive(p, m) PROVE IdsDrawn'
  <2>1. UNCHANGED <<settled, job>> /\ drawn <= drawn'
    BY <1>1, <1>3 DEF Arrive, FilesOnly, processVars, historyVars
  <2>2. file' = [file EXCEPT ![p] = file'[p]] /\ file'[p].id \in {0, drawn'}
    BY <1>3 DEF Arrive, TypeOK, NoId
  <2>3. \A x \in Paths : Exists(x)' => file'[x].id \in {0, drawn'} \/ (Exists(x) /\ file'[x] = file[x])
    BY <2>2 DEF Exists, TypeOK
  <2>4. drawn' \in Nat
    BY <1>1, <1>3 DEF Arrive
  <2>5. \A x \in Paths : Exists(x)' => file'[x].id <= drawn'
    BY <1>1, <2>1, <2>3, <2>4 DEF IdsDrawn
  <2>6. job # Idle => job.id \in Nat
    BY <1>3 DEF Arrive
  <2> QED
    BY <1>1, <1>2, <2>1, <2>4, <2>5, <2>6 DEF IdsDrawn
<1>4. ASSUME NEW p \in Paths, NEW q \in Paths, CopyFile(p, q) \/ MoveFile(p, q) PROVE IdsDrawn'
  <2>1. UNCHANGED <<drawn, settled, job>>
    BY <1>4 DEF CopyFile, MoveFile, FilesOnly, processVars, historyVars
  <2>2. \A x \in Paths : Exists(x)' => \E y \in {x, p} : Exists(y) /\ file'[x].id = file[y].id
    <3>1. file[p] \in File /\ Exists(p)
      BY <1>4, FileParts DEF CopyFile, MoveFile
    <3>2. CASE CopyFile(p, q)
      BY <3>1, <3>2 DEF CopyFile, Exists, TypeOK, File
    <3>3. CASE MoveFile(p, q)
      BY <3>1, <3>3 DEF MoveFile, Exists, TypeOK
    <3> QED
      BY <1>4, <3>2, <3>3
  <2> QED
    BY <2>1, <2>2 DEF IdsDrawn
<1>5. ASSUME NEW p \in Paths, LoadFresh(p) PROVE IdsDrawn'
  <2>1. drawn' = drawn + 1 /\ UNCHANGED settled /\ job = Idle /\ Exists(p)
    BY <1>5 DEF LoadFresh, historyVars
  <2>2. CASE /\ file' = [file EXCEPT ![p].id = drawn']
             /\ job' = [st |-> "register", path |-> p, id |-> drawn', w |-> seq + 1]
    <3>1. job'.id = drawn'
      BY <2>2
    <3>2. \A x \in Paths : Exists(x)' => Exists(x) /\ file'[x].id \in {file[x].id, drawn'}
      BY <2>1, <2>2, FileParts DEF Exists, TypeOK, File
    <3> QED
      BY <1>1, <1>2, <2>1, <3>1, <3>2 DEF IdsDrawn
  <2>3. CASE UNCHANGED <<file, job>>
    BY <1>1, <1>2, <2>1, <2>3 DEF IdsDrawn, Exists
  <2> QED
    BY <1>5, <2>2, <2>3 DEF LoadFresh
<1>6. ASSUME NEW p \in Paths, LoadKnown(p) \/ LoadEmbedded(p) PROVE IdsDrawn'
  <2>1. UNCHANGED <<file, job, drawn>> /\ job = Idle
    BY <1>6 DEF LoadKnown, LoadEmbedded, diskVars
  <2>2. settled' \subseteq settled
    BY <1>6 DEF LoadKnown, LoadEmbedded, historyVars
  <2> QED
    BY <2>1, <2>2 DEF IdsDrawn, Exists
<1>7. CASE LoadRegister
  BY <1>7 DEF LoadRegister, historyVars, IdsDrawn, Exists
<1>8. CASE ForkSave
  <2>1. job # Idle /\ UNCHANGED <<drawn, settled>>
    BY <1>8, MidCommand DEF ForkSave, historyVars
  <2>2. job.id <= drawn /\ (job' = Idle \/ job'.id = job.id)
    BY <1>8, <2>1 DEF ForkSave, IdsDrawn, JobOK, Job
  <2>3. \A x \in Paths : Exists(x)' => Exists(x) /\ file'[x].id \in {file[x].id, job.id}
    <3>1. Exists(job.path) /\ job.path \in Paths
      BY <2>1 DEF JobOK, Job
    <3> QED
      BY <1>8, <3>1, FileParts DEF ForkSave, Exists, TypeOK, File
  <2> QED
    BY <2>1, <2>2, <2>3 DEF IdsDrawn
<1>9. CASE ForkRegister
  <2>1. job # Idle /\ UNCHANGED <<file, drawn>> /\ job' = Idle
    BY <1>9, MidCommand DEF ForkRegister
  <2>2. settled' \subseteq settled \union {<<job.path, job.id>>}
    BY <1>9 DEF ForkRegister, Resettled
  <2> QED
    BY <2>1, <2>2 DEF IdsDrawn, Exists
<1>10. ASSUME NEW w \in Readers, AnswerMove(w) \/ AnswerShare(w) PROVE IdsDrawn'
  <2> DEFINE i == file[docs[w].path].id
  <2>1. Asked(w) /\ UNCHANGED <<file, job, drawn>> /\ job = Idle
    BY <1>10 DEF AnswerMove, AnswerShare, Answer, Asked
  <2>2. i <= drawn
    BY <2>1, AskedParts DEF IdsDrawn, Asked
  <2>3. settled' \subseteq settled \union {<<docs[w].path, i>>}
    BY <1>10 DEF AnswerMove, AnswerShare, Resettled
  <2> QED
    BY <2>1, <2>2, <2>3 DEF IdsDrawn, Exists
<1>11. ASSUME NEW w \in Readers, ForkCopy(w) PROVE IdsDrawn'
  <2>1. drawn' = drawn + 1 /\ UNCHANGED <<file, settled>> /\ job'.id = drawn'
    BY <1>11 DEF ForkCopy, historyVars
  <2> QED
    BY <1>1, <1>2, <2>1 DEF IdsDrawn, Exists
<1>12. ASSUME NEW w \in Readers, CloseWindow(w) \/ \E t \in Tiers : Write(w, t) PROVE IdsDrawn'
  BY <1>12 DEF CloseWindow, Write, diskVars, processVars, historyVars, IdsDrawn, Exists
<1>13. CASE Restart
  BY <1>13 DEF Restart, diskVars, historyVars, IdsDrawn, Exists
<1>14. CASE UNCHANGED vars
  BY <1>14 DEF vars, diskVars, processVars, historyVars, IdsDrawn, Exists
<1> QED
  BY <1>3, <1>4, <1>5, <1>6, <1>7, <1>8, <1>9, <1>10, <1>11, <1>12, <1>13, <1>14 DEF Next

\* A save, or a failed one, of an index that keeps what is settled.
LEMMA IndexKeepsAnswers ==
    ASSUME Typed, AnswerInv, NEW new, NEW ok \in BOOLEAN,
           WithIndex(new, ok) \/ Recorded(new, ok),
           settled' \subseteq settled,
           \A s \in settled' : s[1] \in new[s[2]]
    PROVE  AskedOnce'
BY SettledIsKnown DEF Typed, AnswerInv, AskedOnce, WithIndex, Recorded

LEMMA AnswersKept ==
    ASSUME Typed, AnswerInv, [Next]_vars
    PROVE  AskedOnce'
<1> USE DEF Typed, AnswerInv
<1>1. \A s \in settled : /\ s[1] \in Paths /\ s[2] \in Ids /\ index[s[2]] # {}
                         /\ s[1] \in index[s[2]] /\ s[1] \in indexDisk[s[2]]
  BY SettledIsKnown
<1>2. ASSUME UNCHANGED <<index, indexDisk, settled>> PROVE AskedOnce'
  BY <1>2 DEF AskedOnce
<1>3. ASSUME NEW p \in Paths,
             \/ \E m \in Modes : Arrive(p, m)
             \/ \E q \in Paths : CopyFile(p, q) \/ MoveFile(p, q)
             \/ LoadFresh(p) \/ LoadEmbedded(p)
      PROVE  AskedOnce'
  BY <1>2, <1>3 DEF Arrive, CopyFile, MoveFile, FilesOnly, LoadFresh, LoadEmbedded,
                    diskVars, processVars, historyVars
<1>4. ASSUME NEW p \in Paths, LoadKnown(p) PROVE AskedOnce'
  <2> DEFINE i == file[p].id
  <2>1. i \in Ids
    BY <1>4, FileParts DEF LoadKnown
  <2>2. CASE UNCHANGED <<index, indexDisk, settled>>
    BY <1>2, <2>2
  <2>3. ASSUME NEW ok \in BOOLEAN, WithIndex(index, ok), UNCHANGED settled
        PROVE  AskedOnce'
    BY <1>1, <2>3, IndexKeepsAnswers
  <2>4. ASSUME NEW ok \in BOOLEAN, Disposition(i, p) = "Register", Recorded(WithPath(i, p), ok),
               UNCHANGED settled
        PROVE  AskedOnce'
    <3>1. index[i] = {}
      BY <2>4 DEF Disposition
    <3>2. \A s \in settled : WithPath(i, p)[s[2]] = index[s[2]]
      BY <1>1, <3>1 DEF WithPath, TypeOK
    <3> QED
      BY <1>1, <2>4, <3>2, IndexKeepsAnswers
  <2>5. ASSUME NEW ok \in BOOLEAN, Recorded(RecordMove(i, p), ok),
               settled' = {s \in settled : s[2] # i}
        PROVE  AskedOnce'
    <3>1. \A s \in settled' : RecordMove(i, p)[s[2]] = index[s[2]]
      BY <1>1, <2>5 DEF RecordMove, TypeOK
    <3> QED
      BY <1>1, <2>5, <3>1, IndexKeepsAnswers
  <2> QED
    BY <1>4, <2>2, <2>3, <2>4, <2>5 DEF LoadKnown
<1>5. CASE LoadRegister \/ ForkRegister
  <2>1. job # Idle
    BY <1>5, MidCommand
  <2>2. job.id \in Ids /\ job.path \in Paths /\ \A s \in settled : s[2] # job.id
    BY <2>1 DEF JobOK, Job, IdsDrawn
  <2>3. \A s \in settled : WithPath(job.id, job.path)[s[2]] = index[s[2]]
    BY <1>1, <2>2 DEF WithPath, TypeOK
  <2>4. ASSUME NEW ok \in BOOLEAN, WithIndex(WithPath(job.id, job.path), ok), UNCHANGED settled
        PROVE  AskedOnce'
    BY <1>1, <2>3, <2>4, IndexKeepsAnswers
  <2>5. ASSUME WithIndex(WithPath(job.id, job.path), TRUE), settled' = Resettled(job.id, job.path)
        PROVE  AskedOnce'
    <3>1. index' = WithPath(job.id, job.path) /\ indexDisk' = index'
      BY <2>5 DEF WithIndex
    <3>2. index'[job.id] = {job.path}
      BY <2>2, <3>1 DEF WithPath, TypeOK
    <3>3. \A s \in settled' : s \in settled \/ s = <<job.path, job.id>>
      BY <2>5 DEF Resettled
    <3>4. ASSUME NEW s \in settled' PROVE s[1] \in index'[s[2]]
      <4>1. CASE s \in settled
        BY <1>1, <2>3, <3>1, <4>1
      <4>2. CASE s = <<job.path, job.id>>
        BY <3>2, <4>2
      <4> QED
        BY <3>3, <4>1, <4>2
    <3> QED
      BY <3>1, <3>4 DEF AskedOnce
  <2>6. CASE LoadRegister
    BY <1>2, <2>4, <2>6 DEF LoadRegister, historyVars
  <2>7. CASE ForkRegister
    BY <2>4, <2>5, <2>7 DEF ForkRegister
  <2> QED
    BY <1>5, <2>6, <2>7
<1>6. ASSUME NEW w \in Readers, AnswerMove(w) \/ AnswerShare(w) PROVE AskedOnce'
  <2> DEFINE p == docs[w].path
             i == file[p].id
  <2>1. p \in Paths /\ i \in Ids
    BY <1>6, AskedParts DEF AnswerMove, AnswerShare
  <2> HIDE DEF i, p
  <2>2. CASE AnswerMove(w)
    <3>1. PICK ok \in BOOLEAN :
            /\ WithIndex(RecordMove(i, p), ok)
            /\ settled' = IF ok /\ index[i] # {} THEN Resettled(i, p)
                          ELSE {s \in settled : s[2] # i}
      BY <2>2 DEF AnswerMove, Answer, i, p
    <3>2. \A s \in settled : s[2] # i => RecordMove(i, p)[s[2]] = index[s[2]]
      BY <1>1, <2>1 DEF RecordMove, TypeOK
    <3>3. CASE settled' = {s \in settled : s[2] # i}
      BY <1>1, <3>1, <3>2, <3>3, IndexKeepsAnswers
    <3>4. CASE ok /\ index[i] # {} /\ settled' = Resettled(i, p)
      <4>1. index' = RecordMove(i, p) /\ indexDisk' = index'
        BY <3>1, <3>4 DEF WithIndex
      <4>2. index'[i] = {p}
        BY <2>1, <3>4, <4>1 DEF RecordMove, TypeOK
      <4>3. ASSUME NEW s \in settled' PROVE s[1] \in index'[s[2]]
        <5>1. CASE s \in settled /\ s[2] # i
          BY <1>1, <3>2, <4>1, <5>1
        <5>2. CASE s = <<p, i>>
          BY <4>2, <5>2
        <5> QED
          BY <3>4, <5>1, <5>2 DEF Resettled
      <4> QED
        BY <4>1, <4>3 DEF AskedOnce
    <3> QED
      BY <3>1, <3>3, <3>4
  <2>3. CASE AnswerShare(w)
    <3>1. PICK ok \in BOOLEAN :
            /\ WithIndex(AddShared(i, p), ok)
            /\ settled' = IF ok /\ index[i] # {} THEN settled \union {<<p, i>>} ELSE settled
      BY <2>3 DEF AnswerShare, Answer, i, p
    <3>2. \A s \in settled : s[1] \in AddShared(i, p)[s[2]]
      BY <1>1, <2>1 DEF AddShared, TypeOK
    <3>3. CASE settled' = settled
      BY <3>1, <3>2, <3>3, IndexKeepsAnswers
    <3>4. CASE ok /\ index[i] # {} /\ settled' = settled \union {<<p, i>>}
      <4>1. index' = AddShared(i, p) /\ indexDisk' = index'
        BY <3>1, <3>4 DEF WithIndex
      <4>2. p \in index'[i]
        BY <2>1, <3>4, <4>1 DEF AddShared, TypeOK
      <4>3. ASSUME NEW s \in settled' PROVE s[1] \in index'[s[2]]
        <5>1. CASE s \in settled
          BY <3>2, <4>1, <5>1
        <5>2. CASE s = <<p, i>>
          BY <4>2, <5>2
        <5> QED
          BY <3>4, <5>1, <5>2
      <4> QED
        BY <4>1, <4>3 DEF AskedOnce
    <3> QED
      BY <3>1, <3>3, <3>4
  <2> QED
    BY <1>6, <2>2, <2>3
<1>7. ASSUME NEW w \in Readers,
             ForkCopy(w) \/ CloseWindow(w) \/ \E t \in Tiers : Write(w, t)
      PROVE  AskedOnce'
  BY <1>2, <1>7 DEF ForkCopy, CloseWindow, Write, diskVars, processVars, historyVars
<1>8. CASE ForkSave
  BY <1>2, <1>8 DEF ForkSave, historyVars
<1>9. CASE Restart
  BY <1>1, <1>9 DEF Restart, diskVars, historyVars, AskedOnce
<1>10. CASE UNCHANGED vars
  BY <1>2, <1>10 DEF vars, diskVars, processVars, historyVars
<1> QED
  BY <1>3, <1>4, <1>5, <1>6, <1>7, <1>8, <1>9, <1>10 DEF Next

LEMMA AnswerInvHolds == Spec => []AnswerInv
<1>1. Init => AnswerInv
  BY DEF Init, AnswerInv, IdsDrawn, AskedOnce, Exists
<1>2. Typed /\ AnswerInv /\ [Next]_vars => AnswerInv'
  BY IdsStayDrawn, AnswersKept DEF AnswerInv
<1> QED
  BY <1>1, <1>2, TypedHolds, PTL DEF Spec

\* AskedOnce: what the user answered is in the index, in memory and on disk,
\* until another answer or a move replaces it, through failed saves and crashes.
THEOREM AnswersStay == Spec => []AskedOnce
<1>1. AnswerInv => AskedOnce
  BY DEF AnswerInv
<1> QED
  BY <1>1, AnswerInvHolds, PTL

(***************************************************************************)
(* Memory follows its file.                                                *)
(***************************************************************************)

\* Two files are two tokens, and no write is acknowledged for one yet to come.
TokensApart ==
    /\ \A p \in Paths : Exists(p) => file[p].tok <= born
    /\ \A k \in acked["kv"] : k <= born
    /\ \A p, q \in Paths : Exists(p) /\ Exists(q) /\ file[p].tok = file[q].tok => p = q

\* A fork about to save the new id has copied the memory to it.
CopyReady ==
    job.st = "save" =>
        (file[job.path].tok \in acked["kv"] => file[job.path].tok \in mem["kv"][job.id])

MemoryInv == TokensApart /\ CopyReady /\ MemoryFollowsFile

\* The steps that leave files, memories and acknowledgements as they are.
LEMMA MemoryUntouched ==
    ASSUME MemoryInv, UNCHANGED <<file, mem, acked, born>>, job' = job \/ job'.st # "save"
    PROVE  MemoryInv'
BY DEF MemoryInv, TokensApart, CopyReady, MemoryFollowsFile, FollowsFile, Exists

\* A file that changes its id, or appears, without an acknowledged write.
LEMMA FilesAround ==
    ASSUME "kv" \in Tiers, Typed, MemoryInv, NEW p \in Paths, NEW q \in Paths,
           \/ \E m \in Modes : Arrive(p, m)
           \/ CopyFile(p, q) \/ MoveFile(p, q)
    PROVE  MemoryInv'
<1> USE DEF Typed, MemoryInv
<1>1. job = Idle /\ UNCHANGED <<job, mem, acked>>
  BY DEF Arrive, CopyFile, MoveFile, FilesOnly, processVars, historyVars
<1>2. Idle.st # "save"
  BY DEF Idle
<1>3. CopyReady'
  BY <1>1, <1>2 DEF CopyReady
<1>4. born \in Nat /\ \A x \in Paths : Exists(x) => file[x].tok \in Nat
  BY FileParts, ConstantsDiffer DEF TypeOK
<1>5. ASSUME NEW r \in Paths, born' = born + 1, file'[r].tok = born',
             \A x \in Paths \ {r} : file'[x] = file[x]
      PROVE  TokensApart' /\ MemoryFollowsFile'
  <2>1. \A k \in acked["kv"] : k # born'
    BY <1>4, <1>5 DEF TokensApart
  <2>2. MemoryFollowsFile'
    BY <1>1, <1>5, <2>1 DEF MemoryFollowsFile, FollowsFile, Exists
  <2>3. \A x \in Paths \ {r} : Exists(x)' => file'[x].tok <= born
    BY <1>5 DEF TokensApart, Exists
  <2>4. \A x \in Paths : Exists(x)' => file'[x].tok <= born'
    BY <1>4, <1>5, <2>3 DEF Exists
  <2>5. \A k \in acked["kv"] : k <= born
    BY DEF TokensApart
  <2>6. \A x, y \in Paths : Exists(x)' /\ Exists(y)' /\ file'[x].tok = file'[y].tok => x = y
    BY <1>4, <1>5, <2>3 DEF TokensApart, Exists
  <2>7. \A k \in acked'["kv"] : k <= born'
    <3>1. acked["kv"] \subseteq Nat
      BY ConstantsDiffer DEF TypeOK
    <3> QED
      BY <1>1, <1>4, <1>5, <2>5, <3>1
  <2> QED
    BY <2>2, <2>4, <2>6, <2>7 DEF TokensApart
<1>6. ASSUME NEW m \in Modes, Arrive(p, m) PROVE MemoryInv'
  <2>1. born' = born + 1 /\ file'[p].tok = born'
    BY <1>6 DEF Arrive, TypeOK
  <2>2. \A x \in Paths \ {p} : file'[x] = file[x]
    BY <1>6 DEF Arrive, TypeOK
  <2> QED
    BY <1>3, <1>5, <2>1, <2>2
<1>7. CASE CopyFile(p, q)
  <2>1. born' = born + 1 /\ file'[q].tok = born'
    BY <1>7, FileParts DEF CopyFile, TypeOK, File
  <2>2. \A x \in Paths \ {q} : file'[x] = file[x]
    BY <1>7 DEF CopyFile, TypeOK
  <2> QED
    BY <1>3, <1>5, <2>1, <2>2
<1>8. CASE MoveFile(p, q)
  <2>1. p # q /\ Exists(p) /\ ~Exists(q) /\ born' = born
    BY <1>8 DEF MoveFile
  <2>2. file'[q] = file[p] /\ file'[p] = NoFile /\ \A x \in Paths \ {p, q} : file'[x] = file[x]
    BY <1>8, <2>1 DEF MoveFile, TypeOK
  <2>3. \A x \in Paths : Exists(x)' =>
          /\ x # p
          /\ x = q => file'[x] = file[p]
          /\ x # q => file'[x] = file[x] /\ Exists(x)
    BY <2>2 DEF Exists
  <2>4. TokensApart'
    BY <1>1, <2>1, <2>3 DEF TokensApart
  <2>5. MemoryFollowsFile'
    BY <1>1, <2>1, <2>3 DEF MemoryFollowsFile, FollowsFile
  <2> QED
    BY <1>3, <2>4, <2>5
<1> QED
  BY <1>6, <1>7, <1>8

\* A file named anew: its tokens and all others stay, and what it named before
\* is in the memory it names now.
LEMMA Renamed ==
    ASSUME Typed, MemoryInv, NEW p \in Paths, Exists(p), NEW i \in Ids,
           file' = [file EXCEPT ![p].id = i], UNCHANGED <<mem, acked, born>>, job'.st # "save",
           file[p].tok \in acked["kv"] => file[p].tok \in mem["kv"][i]
    PROVE  MemoryInv'
<1>1. \A x \in Paths \ {p} : file'[x] = file[x]
  BY DEF Typed, TypeOK
<1>2. file'[p].tok = file[p].tok /\ file'[p].id = i /\ file'[p] # NoFile
  BY FileParts, ConstantsDiffer DEF Typed, TypeOK, File
<1>3. i # NoId
  BY ConstantsDiffer
<1>4. \A x \in Paths : Exists(x)' => Exists(x) /\ file'[x].tok = file[x].tok
  BY <1>1, <1>2 DEF Exists
<1>5. TokensApart' /\ CopyReady'
  BY <1>4 DEF MemoryInv, TokensApart, CopyReady
<1>6. MemoryFollowsFile'
  BY <1>1, <1>2, <1>3, <1>4 DEF MemoryInv, MemoryFollowsFile, FollowsFile, Exists
<1> QED
  BY <1>5, <1>6 DEF MemoryInv

LEMMA MemoryKept ==
    ASSUME "kv" \in Tiers, Typed, IdsDrawn, MemoryInv, [Next]_vars
    PROVE  MemoryInv'
<1> USE DEF Typed
<1>1. Idle.st # "save"
  BY DEF Idle
<1>2. ASSUME NEW p \in Paths,
             \/ \E m \in Modes : Arrive(p, m)
             \/ \E q \in Paths : CopyFile(p, q) \/ MoveFile(p, q)
      PROVE  MemoryInv'
  BY <1>2, FilesAround
<1>3. ASSUME NEW p \in Paths, LoadFresh(p) PROVE MemoryInv'
  <2>1. Exists(p) /\ file[p].id = NoId /\ job = Idle /\ UNCHANGED <<mem, acked, born>>
    BY <1>3 DEF LoadFresh, historyVars
  <2>2. file[p].tok \notin acked["kv"]
    BY <2>1 DEF MemoryInv, MemoryFollowsFile, FollowsFile
  <2>3. drawn' \in Ids
    BY <1>3, ConstantsDiffer DEF LoadFresh, TypeOK, Ids
  <2>4. CASE /\ file' = [file EXCEPT ![p].id = drawn']
             /\ job' = [st |-> "register", path |-> p, id |-> drawn', w |-> seq + 1]
    <3>1. job'.st # "save"
      BY <2>4
    <3> QED
      BY <2>1, <2>2, <2>3, <2>4, <3>1, Renamed
  <2>5. CASE UNCHANGED <<file, job>>
    BY <2>1, <2>5, MemoryUntouched
  <2> QED
    BY <1>3, <2>4, <2>5 DEF LoadFresh
<1>4. ASSUME NEW p \in Paths, LoadKnown(p) \/ LoadEmbedded(p) PROVE MemoryInv'
  BY <1>4, MemoryUntouched DEF LoadKnown, LoadEmbedded, diskVars, historyVars
<1>5. CASE LoadRegister \/ ForkRegister
  BY <1>1, <1>5, MemoryUntouched DEF LoadRegister, ForkRegister, historyVars
<1>6. CASE ForkSave
  <2>1. job # Idle /\ UNCHANGED <<mem, acked, born>>
    BY <1>6, MidCommand DEF ForkSave, historyVars
  <2>2. job \in Job /\ job.path \in Paths /\ job.id \in Ids /\ Exists(job.path)
    BY <2>1 DEF JobOK, Job
  <2>3. CASE file' = [file EXCEPT ![job.path].id = job.id] /\ job' = [job EXCEPT !.st = "record"]
    <3>1. job'.st # "save"
      BY <2>2, <2>3 DEF Job
    <3>2. file[job.path].tok \in acked["kv"] => file[job.path].tok \in mem["kv"][job.id]
      BY <1>6 DEF ForkSave, MemoryInv, CopyReady
    <3> QED
      BY <2>1, <2>2, <2>3, <3>1, <3>2, Renamed
  <2>4. CASE UNCHANGED file /\ job' = Idle
    BY <1>1, <2>1, <2>4, MemoryUntouched
  <2> QED
    BY <1>6, <2>3, <2>4 DEF ForkSave
<1>7. ASSUME NEW w \in Readers, AnswerMove(w) \/ AnswerShare(w) PROVE MemoryInv'
  BY <1>7, MemoryUntouched DEF AnswerMove, AnswerShare, Answer
<1>8. ASSUME NEW w \in Readers, ForkCopy(w) PROVE MemoryInv'
  <2> DEFINE p == docs[w].path
             i == file[p].id
  <2>1. /\ Asked(w) /\ drawn' = drawn + 1 /\ UNCHANGED <<file, acked, born>>
        /\ mem' = Copied(i, drawn')
        /\ job' = [st |-> "save", path |-> p, id |-> drawn', w |-> w]
    BY <1>8 DEF ForkCopy, historyVars
  <2>2. p \in Paths /\ i \in Ids /\ Exists(p)
    BY <2>1, AskedParts DEF Asked
  <2>3. drawn' \in Ids /\ drawn \in Nat
    BY <1>8, ConstantsDiffer DEF ForkCopy, TypeOK, Ids
  <2> HIDE DEF p, i
  <2>4. mem'["kv"] = [mem["kv"] EXCEPT ![drawn'] = mem["kv"][i]]
    BY <2>1 DEF Copied
  <2>5. mem["kv"] \in [Ids -> SUBSET Tokens]
    BY DEF TypeOK
  <2>6. mem'["kv"][drawn'] = mem["kv"][i] /\ \A j \in Ids \ {drawn'} : mem'["kv"][j] = mem["kv"][j]
    BY <2>3, <2>4, <2>5
  <2>7. \A x \in Paths : Exists(x) => file[x].id \in Ids \union {NoId} /\ file[x].id # drawn'
    BY <2>1, <2>3, FileParts, ConstantsDiffer DEF IdsDrawn
  <2>8. MemoryFollowsFile'
    BY <2>1, <2>6, <2>7 DEF MemoryInv, MemoryFollowsFile, FollowsFile, Exists
  <2>9. CopyReady'
    <3>1. file[p].tok \in acked["kv"] => file[p].tok \in mem["kv"][i]
      BY <2>2 DEF MemoryInv, MemoryFollowsFile, FollowsFile, i
    <3>2. job'.path = p /\ job'.id = drawn'
      BY <2>1
    <3> QED
      BY <2>1, <2>6, <3>1, <3>2 DEF CopyReady
  <2>10. TokensApart'
    BY <2>1 DEF MemoryInv, TokensApart, Exists
  <2> QED
    BY <2>8, <2>9, <2>10 DEF MemoryInv
<1>9. ASSUME NEW w \in Readers, NEW t \in Tiers, Write(w, t) PROVE MemoryInv'
  <2>1. UNCHANGED <<file, born, job>> /\ job = Idle
    BY <1>9 DEF Write, processVars
  <2>2. docs[w] \in Doc /\ bound[w] \in Ids /\ docs[w].path \in Paths
    BY <1>9 DEF Write, TypeOK, Doc
  <2>3. /\ \A u \in Tiers, j \in Ids : mem[u][j] \subseteq mem'[u][j]
        /\ docs[w].tok \in mem'[t][bound[w]]
    BY <1>9, <2>2 DEF Write, TypeOK
  <2>4. \A k \in acked'["kv"] : k \in acked["kv"] \/ (t = "kv" /\ k = docs[w].tok /\ Names(w))
    BY <1>9 DEF Write, TypeOK
  <2>5. Names(w) => /\ Exists(docs[w].path) /\ file[docs[w].path].tok = docs[w].tok
                    /\ file[docs[w].path].id = bound[w]
    BY DEF Names, InPlace
  <2>6. TokensApart'
    BY <2>1, <2>2, <2>4, <2>5 DEF MemoryInv, TokensApart, Exists
  <2>7. ASSUME NEW x \in Paths, Exists(x), file[x].tok \in acked'["kv"]
        PROVE  file[x].id # NoId /\ file[x].tok \in mem'["kv"][file[x].id]
    <3>1. CASE file[x].tok \in acked["kv"]
      <4>1. file[x].id # NoId /\ file[x].tok \in mem["kv"][file[x].id]
        BY <2>7, <3>1 DEF MemoryInv, MemoryFollowsFile, FollowsFile
      <4>2. file[x].id \in Ids
        BY <2>7, <4>1, FileParts
      <4> QED
        BY <2>3, <4>1, <4>2
    <3>2. CASE t = "kv" /\ file[x].tok = docs[w].tok /\ Names(w)
      <4>1. x = docs[w].path
        BY <2>2, <2>5, <2>7, <3>2 DEF MemoryInv, TokensApart
      <4> QED
        BY <2>2, <2>3, <2>5, <3>2, <4>1, ConstantsDiffer
    <3> QED
      BY <2>4, <2>7, <3>1, <3>2
  <2>8. MemoryFollowsFile'
    BY <2>1, <2>7 DEF MemoryFollowsFile, FollowsFile, Exists
  <2>9. CopyReady'
    BY <1>1, <2>1 DEF CopyReady
  <2> QED
    BY <2>6, <2>8, <2>9 DEF MemoryInv
<1>10. CASE Restart \/ \E w \in Readers : CloseWindow(w)
  BY <1>1, <1>10, MemoryUntouched DEF Restart, CloseWindow, diskVars, historyVars
<1>11. CASE UNCHANGED vars
  BY <1>11, MemoryUntouched DEF vars, diskVars, processVars, historyVars
<1> QED
  BY <1>2, <1>3, <1>4, <1>5, <1>6, <1>7, <1>8, <1>9, <1>10, <1>11 DEF Next

\* MemoryFollowsFile: a write stored while its file named the memory stays in
\* the memory the file names, for any number of files, windows, forks and crashes.
THEOREM MemoryStaysWithFile ==
    ASSUME "kv" \in Tiers
    PROVE  Spec => []MemoryFollowsFile
<1>1. Init => MemoryInv
  <2>1. ASSUME Init PROVE job.st # "save" /\ acked["kv"] = {} /\ \A p \in Paths : ~Exists(p)
    BY <2>1 DEF Init, Idle, Exists
  <2> QED
    BY <2>1 DEF MemoryInv, TokensApart, CopyReady, MemoryFollowsFile, FollowsFile
<1>2. Typed /\ AnswerInv /\ MemoryInv /\ [Next]_vars => MemoryInv'
  BY MemoryKept DEF AnswerInv
<1>3. MemoryInv => MemoryFollowsFile
  BY DEF MemoryInv
<1> QED
  BY <1>1, <1>2, <1>3, TypedHolds, AnswerInvHolds, PTL DEF Spec

(***************************************************************************)
(* No silent sharing.                                                      *)
(***************************************************************************)

\* Two files are two tokens, those of windows among them, and a window that has
\* not been opened shows nothing.
FilesApart ==
    /\ \A p \in Paths : Exists(p) => file[p].tok <= born
    /\ \A p, q \in Paths : Exists(p) /\ Exists(q) /\ file[p].tok = file[q].tok => p = q
    /\ \A w \in Readers : docs[w] # NoDoc => docs[w].tok <= born /\ w <= seq

\* No window is bound to an id yet to come, or to that of a command under way,
\* which its file has once it is saved.
BoundDrawn ==
    /\ \A w \in Readers : bound[w] <= drawn
    /\ job # Idle => \A w \in Readers : bound[w] # job.id
    /\ job.st \in {"register", "record"} => file[job.path].id = job.id

\* What was opened as the original of an id has an entry in the index.
OriginalKnown == \A i \in Ids : original[i] # NoToken => index[i] # {}

\* Window w writes to the memory of an id that nobody answered about and that
\* was not opened blindly, and p is where its file is now.
Quiet(w, p) ==
    /\ docs[w] # NoDoc /\ docs[w].mode = "vault" /\ bound[w] # NoId
    /\ bound[w] \notin chosen \union blind
    /\ Exists(p) /\ file[p].tok = docs[w].tok

\* If the file still has the id, it is the original of it; if it could not be
\* given one, the memory is nobody else's.
Held ==
    \A w \in Readers, p \in Paths : Quiet(w, p) =>
        /\ file[p].id = bound[w] => original[bound[w]] = docs[w].tok
        /\ file[p].id = NoId =>
             /\ \A q \in Paths : Exists(q) => file[q].id # bound[w]
             /\ \A v \in Readers : bound[v] = bound[w] => v = w

SharingInv == FilesApart /\ BoundDrawn /\ OriginalKnown /\ Held

LEMMA Numbers ==
    ASSUME TypeOK
    PROVE  /\ born \in Nat /\ drawn \in Nat /\ seq \in Nat /\ Readers \subseteq Nat
           /\ \A p \in Paths : Exists(p) => file[p].tok \in Nat /\ file[p].tok # NoToken
           /\ \A p \in Paths : Exists(p) => file[p].id \in Nat
           /\ \A w \in Readers : docs[w] # NoDoc => docs[w].tok \in Nat /\ docs[w].tok # NoToken
           /\ \A w \in Readers : bound[w] \in Nat
<1>1. \A t \in Tokens : t \in Nat /\ t # NoToken
  BY ConstantsDiffer DEF Tokens, NoToken
<1>2. \A w \in Readers : docs[w] # NoDoc => docs[w].tok \in Tokens
  BY DEF TypeOK, Doc
<1>3. \A w \in Readers : bound[w] \in Nat
  BY ConstantsDiffer DEF TypeOK
<1> QED
  BY <1>1, <1>2, <1>3, FileParts, ConstantsDiffer DEF TypeOK, Readers

\* The steps that open and bind nothing: windows stay as they are, or close.
LEMMA NothingShown ==
    ASSUME Typed, SharingInv, UNCHANGED <<file, born, seq>>, chosen \subseteq chosen', blind' = blind,
           \A w \in Readers : bound[w] # NoId => original'[bound[w]] = original[bound[w]],
           \A w \in Readers : \/ docs'[w] = docs[w] /\ bound'[w] = bound[w]
                              \/ docs'[w] = NoDoc /\ bound'[w] = NoId
    PROVE  FilesApart' /\ Held'
<1> USE DEF SharingInv
<1>1. FilesApart'
  BY DEF FilesApart, Exists
<1>2. ASSUME NEW w \in Readers, NEW p \in Paths, Quiet(w, p)'
      PROVE  /\ file[p].id = bound'[w] => original'[bound'[w]] = docs'[w].tok
             /\ file[p].id = NoId =>
                  /\ \A q \in Paths : Exists(q) => file[q].id # bound'[w]
                  /\ \A v \in Readers : bound'[v] = bound'[w] => v = w
  <2>1. docs'[w] = docs[w] /\ bound'[w] = bound[w] /\ bound[w] # NoId
    BY <1>2 DEF Quiet
  <2>2. Quiet(w, p)
    BY <1>2, <2>1 DEF Quiet, Exists
  <2>3. \A v \in Readers : bound'[v] = bound'[w] => bound[v] = bound[w]
    BY <2>1
  <2> QED
    BY <2>1, <2>2, <2>3 DEF Held
<1>3. Held'
  BY <1>2 DEF Held, Exists
<1> QED
  BY <1>1, <1>3

\* What is opened as an original has an entry, and entries are never emptied.
LEMMA KnownStays ==
    ASSUME Typed, OriginalKnown,
           \A j \in Ids : index[j] # {} => index'[j] # {},
           \/ original' = original
           \/ \E i \in Ids, p \in Paths : original' = OpenedAs(i, p) /\ index'[i] # {}
    PROVE  OriginalKnown'
<1>1. ASSUME NEW i \in Ids, NEW p \in Paths, original' = OpenedAs(i, p), index'[i] # {}
      PROVE  OriginalKnown'
  <2>1. \A j \in Ids \ {i} : original'[j] = original[j]
    BY <1>1 DEF OpenedAs, Typed, TypeOK
  <2> QED
    BY <1>1, <2>1 DEF OriginalKnown
<1>2. CASE original' = original
  BY <1>2 DEF OriginalKnown
<1> QED
  BY <1>1, <1>2

\* A file with a new id, one that no window is bound to.
LEMMA RenamedQuietly ==
    ASSUME Typed, SharingInv, NEW p \in Paths, Exists(p), NEW i \in Ids,
           file' = [file EXCEPT ![p].id = i], \A w \in Readers : bound[w] # i,
           UNCHANGED <<born, seq, docs, bound, index, original, chosen, blind>>
    PROVE  FilesApart' /\ OriginalKnown' /\ Held'
<1> USE DEF SharingInv
<1>1. \A x \in Paths \ {p} : file'[x] = file[x]
  BY DEF Typed, TypeOK
<1>2. file'[p].tok = file[p].tok /\ file'[p].id = i /\ file'[p] # NoFile /\ i # NoId
  BY FileParts, ConstantsDiffer DEF Typed, TypeOK, File
<1>3. \A x \in Paths : Exists(x)' => Exists(x) /\ file'[x].tok = file[x].tok
  BY <1>1, <1>2 DEF Exists
<1>4. FilesApart'
  BY <1>3 DEF FilesApart
<1>5. OriginalKnown'
  BY DEF OriginalKnown
<1>6. ASSUME NEW w \in Readers, NEW x \in Paths, Quiet(w, x)'
      PROVE  /\ file'[x].id = bound[w] => original[bound[w]] = docs[w].tok
             /\ file'[x].id = NoId =>
                  /\ \A q \in Paths : Exists(q)' => file'[q].id # bound[w]
                  /\ \A v \in Readers : bound[v] = bound[w] => v = w
  <2>1. Quiet(w, x)
    BY <1>3, <1>6 DEF Quiet
  <2>2. bound[w] # i
    OBVIOUS
  <2>3. CASE x = p
    BY <1>2, <2>2, <2>3
  <2>4. CASE x # p
    <3>1. file'[x] = file[x]
      BY <1>1, <2>4
    <3>2. ASSUME file[x].id = NoId, NEW q \in Paths, Exists(q)' PROVE file'[q].id # bound[w]
      BY <1>1, <1>2, <1>3, <2>1, <2>2, <3>2 DEF Held
    <3>3. file[x].id = bound[w] => original[bound[w]] = docs[w].tok
      BY <2>1 DEF Held
    <3>4. ASSUME file[x].id = NoId, NEW v \in Readers, bound[v] = bound[w] PROVE v = w
      BY <2>1, <3>4 DEF Held
    <3> QED
      BY <3>1, <3>2, <3>3, <3>4
  <2> QED
    BY <2>3, <2>4
<1>7. Held'
  BY <1>6 DEF Held
<1> QED
  BY <1>4, <1>5, <1>7

\* Window o comes to show the file at p, bound to i or to nothing.
LEMMA Shown ==
    ASSUME Typed, SharingInv, NEW o \in Readers, NEW p \in Paths, Exists(p), NEW i \in Ids,
           UNCHANGED <<file, born>>, seq' \in Nat, seq <= seq', o <= seq',
           \A w \in Readers \ {o} : docs'[w] = docs[w] /\ bound'[w] = bound[w],
           docs'[o] # NoDoc => docs'[o].tok = file[p].tok,
           bound'[o] \in {NoId, i},
           chosen \subseteq chosen', blind \subseteq blind',
           \A w \in Readers, x \in Paths :
               Quiet(w, x) /\ bound[w] \notin chosen' \union blind' /\ file[x].id = bound[w] =>
                   original'[bound[w]] = docs[w].tok,
           \A w \in Readers, x \in Paths : Quiet(w, x) /\ file[x].id = NoId => bound[w] # i,
           docs'[o] # NoDoc /\ docs'[o].mode = "vault" /\ bound'[o] = i /\ i \notin chosen' \union blind' =>
               \/ file[p].id = i /\ original'[i] = file[p].tok
               \/ /\ file[p].id = NoId
                  /\ \A q \in Paths : Exists(q) => file[q].id # i
                  /\ \A v \in Readers : bound[v] # i
    PROVE  FilesApart' /\ Held'
<1> USE DEF SharingInv
<1>1. FilesApart'
  <2>1. \A w \in Readers : docs'[w] # NoDoc => docs'[w].tok <= born /\ w <= seq'
    <3>1. ASSUME NEW w \in Readers, docs'[w] # NoDoc PROVE docs'[w].tok <= born /\ w <= seq'
      <4>1. CASE w = o
        BY <3>1, <4>1 DEF FilesApart
      <4>2. CASE w # o
        BY <3>1, <4>2, Numbers DEF FilesApart, Typed
      <4> QED
        BY <4>1, <4>2
    <3> QED
      BY <3>1
  <2> QED
    BY <2>1 DEF FilesApart, Exists
<1>2. ASSUME NEW w \in Readers, NEW x \in Paths, Quiet(w, x)'
      PROVE  /\ file[x].id = bound'[w] => original'[bound'[w]] = docs'[w].tok
             /\ file[x].id = NoId =>
                  /\ \A q \in Paths : Exists(q) => file[q].id # bound'[w]
                  /\ \A v \in Readers : bound'[v] = bound'[w] => v = w
  <2>1. CASE w # o
    <3>1. docs'[w] = docs[w] /\ bound'[w] = bound[w]
      BY <2>1
    <3>2. Quiet(w, x) /\ bound[w] \notin chosen' \union blind' /\ bound[w] # NoId
      BY <1>2, <3>1 DEF Quiet, Exists
    <3>3. ASSUME file[x].id = NoId, NEW v \in Readers, bound'[v] = bound[w] PROVE v = w
      <4>1. v # o
        BY <3>2, <3>3
      <4> QED
        BY <3>2, <3>3, <4>1 DEF Held
    <3> QED
      BY <3>1, <3>2, <3>3 DEF Held
  <2>2. CASE w = o
    <3>1. /\ docs'[o] # NoDoc /\ docs'[o].mode = "vault" /\ bound'[o] = i
          /\ i \notin chosen' \union blind' /\ Exists(x) /\ file[x].tok = docs'[o].tok
      BY <1>2, <2>2 DEF Quiet, Exists
    <3>2. x = p /\ i # NoId
      BY <3>1, ConstantsDiffer DEF FilesApart
    <3> QED
      BY <2>2, <3>1, <3>2
  <2> QED
    BY <2>1, <2>2
<1>3. Held'
  BY <1>2 DEF Held, Exists
<1> QED
  BY <1>1, <1>3

\* The user's file manager: what a window shows moves, or a new file comes in
\* with its own id, none, or that of another.
LEMMA FilesShared ==
    ASSUME Typed, IdsDrawn, SharingInv, NEW p \in Paths, NEW q \in Paths,
           \/ \E m \in Modes : Arrive(p, m)
           \/ CopyFile(p, q) \/ MoveFile(p, q)
    PROVE  SharingInv'
<1> USE DEF Typed, SharingInv
<1>1. /\ job = Idle /\ born <= born' /\ drawn <= drawn' /\ drawn' \in Nat
      /\ UNCHANGED <<docs, bound, seq, index, job, original, chosen, blind>>
  BY Numbers DEF Arrive, CopyFile, MoveFile, FilesOnly, processVars, historyVars
<1>2. Idle.st = "idle"
  BY DEF Idle
<1>3. BoundDrawn'
  <2>1. \A w \in Readers : bound'[w] <= drawn'
    BY <1>1, Numbers DEF BoundDrawn
  <2> QED
    BY <1>1, <1>2, <2>1 DEF BoundDrawn
<1>4. OriginalKnown'
  BY <1>1 DEF OriginalKnown
<1>5. /\ \A x \in Paths : Exists(x)' =>
           \/ /\ born' = born + 1 /\ file'[x].tok = born'
              /\ file'[x].id \in {NoId, drawn + 1} \/ \E y \in Paths : Exists(y) /\ file'[x].id = file[y].id
           \/ \E y \in Paths : Exists(y) /\ file'[x] = file[y]
      /\ \A x, y \in Paths : Exists(x)' /\ Exists(y)' /\ file'[x].tok = file'[y].tok => x = y
  <2>1. ASSUME NEW m \in Modes, Arrive(p, m)
        PROVE  /\ born' = born + 1 /\ file'[p].tok = born' /\ file'[p].id \in {NoId, drawn + 1}
               /\ \A x \in Paths \ {p} : file'[x] = file[x]
    BY <2>1 DEF Arrive, TypeOK
  <2>2. ASSUME CopyFile(p, q)
        PROVE  /\ born' = born + 1 /\ file'[q].tok = born' /\ file'[q].id = file[p].id /\ Exists(p)
               /\ \A x \in Paths \ {q} : file'[x] = file[x]
    BY <2>2, FileParts DEF CopyFile, TypeOK, File
  <2>3. ASSUME NEW r \in Paths, born' = born + 1, file'[r].tok = born',
               \A x \in Paths \ {r} : file'[x] = file[x]
        PROVE  \A x, y \in Paths : Exists(x)' /\ Exists(y)' /\ file'[x].tok = file'[y].tok => x = y
    <3>1. \A x \in Paths \ {r} : Exists(x)' => Exists(x) /\ file'[x].tok # born'
      BY <2>3, Numbers DEF FilesApart, Exists
    <3> QED
      BY <2>3, <3>1 DEF FilesApart, Exists
  <2>4. CASE \E m \in Modes : Arrive(p, m)
    BY <2>1, <2>3, <2>4 DEF Exists
  <2>5. CASE CopyFile(p, q)
    BY <2>2, <2>3, <2>5 DEF Exists
  <2>6. CASE MoveFile(p, q)
    <3>1. p # q /\ Exists(p) /\ ~Exists(q)
      BY <2>6 DEF MoveFile
    <3>2. file'[q] = file[p] /\ file'[p] = NoFile /\ \A x \in Paths \ {p, q} : file'[x] = file[x]
      BY <2>6, <3>1 DEF MoveFile, TypeOK
    <3>3. \A x \in Paths : Exists(x)' =>
            /\ x # p
            /\ x = q => file'[x] = file[p]
            /\ x # q => file'[x] = file[x] /\ Exists(x)
      BY <3>2 DEF Exists
    <3> QED
      BY <3>1, <3>3 DEF FilesApart
  <2> QED
    BY <2>4, <2>5, <2>6
<1>6. FilesApart'
  <2>1. \A x \in Paths : Exists(x)' => file'[x].tok <= born'
    BY <1>1, <1>5, Numbers DEF FilesApart, Arrive, CopyFile, MoveFile
  <2>2. \A w \in Readers : docs'[w] # NoDoc => docs'[w].tok <= born' /\ w <= seq'
    <3>1. born' \in Nat
      BY Numbers DEF Arrive, CopyFile, MoveFile
    <3> QED
      BY <1>1, <3>1, Numbers DEF FilesApart
  <2> QED
    BY <1>5, <2>1, <2>2 DEF FilesApart
<1>7. ASSUME NEW w \in Readers, NEW x \in Paths, Quiet(w, x)'
      PROVE  /\ file'[x].id = bound[w] => original[bound[w]] = docs[w].tok
             /\ file'[x].id = NoId =>
                  /\ \A y \in Paths : Exists(y)' => file'[y].id # bound[w]
                  /\ \A v \in Readers : bound[v] = bound[w] => v = w
  <2>1. docs[w] # NoDoc /\ docs[w].tok <= born /\ file'[x].tok = docs[w].tok /\ Exists(x)'
    BY <1>1, <1>7 DEF Quiet, FilesApart
  <2>2. PICK y \in Paths : Exists(y) /\ file'[x] = file[y]
    BY <1>5, <2>1, Numbers
  <2>3. Quiet(w, y)
    BY <1>1, <1>7, <2>1, <2>2 DEF Quiet
  <2>4. bound[w] \notin {NoId, drawn + 1}
    BY <2>3, Numbers DEF Quiet, BoundDrawn
  <2>5. \A z \in Paths : Exists(z)' =>
          file'[z].id \in {NoId, drawn + 1} \/ \E u \in Paths : Exists(u) /\ file'[z].id = file[u].id
    BY <1>5
  <2> QED
    BY <2>2, <2>3, <2>4, <2>5 DEF Held
<1>8. Held'
  BY <1>1, <1>7 DEF Held
<1> QED
  BY <1>3, <1>4, <1>6, <1>8

LEMMA OpenShows ==
    ASSUME Typed, FilesApart, NEW p \in Paths, Exists(p), NEW i \in Ids, NEW conflict \in BOOLEAN,
           OpenWindow(p, i, conflict)
    PROVE  \E o \in Readers :
             /\ seq' = o /\ seq <= seq' /\ seq' \in Nat
             /\ \A w \in Readers \ {o} : docs'[w] = docs[w] /\ bound'[w] = bound[w]
             /\ docs'[o] # NoDoc => docs'[o].tok = file[p].tok /\ docs'[o].mode = file[p].mode
             /\ bound'[o] = IF conflict THEN NoId ELSE i
<1> USE DEF Typed
<1>1. PICK o \in Readers : o = seq + 1
  BY ConstantsDiffer DEF OpenWindow, TypeOK, Readers
<1>2. docs[o] = NoDoc
  BY <1>1, Numbers DEF FilesApart
<1>3. seq' = o /\ seq <= seq' /\ seq' \in Nat
  BY <1>1, Numbers DEF OpenWindow
<1>4. bound' = [bound EXCEPT ![o] = IF conflict THEN NoId ELSE i]
  BY <1>3 DEF OpenWindow
<1>5. \/ docs' = docs
      \/ docs' = [docs EXCEPT ![o] = [path |-> p, tok |-> file[p].tok,
                                      mode |-> file[p].mode, conflict |-> conflict]]
  BY <1>3 DEF OpenWindow
<1>6. \A w \in Readers \ {o} : docs'[w] = docs[w] /\ bound'[w] = bound[w]
  BY <1>4, <1>5 DEF TypeOK
<1>7. docs'[o] # NoDoc => docs'[o].tok = file[p].tok /\ docs'[o].mode = file[p].mode
  BY <1>2, <1>5 DEF TypeOK
<1>8. bound'[o] = IF conflict THEN NoId ELSE i
  BY <1>4 DEF TypeOK
<1> QED
  BY <1>3, <1>6, <1>7, <1>8

\* A file that had none is opened with an id of its own.
LEMMA FreshShared ==
    ASSUME Typed, IdsDrawn, SharingInv, NEW p \in Paths, LoadFresh(p)
    PROVE  SharingInv'
<1> USE DEF Typed, SharingInv
<1>1. /\ Exists(p) /\ file[p].id = NoId /\ drawn' = drawn + 1 /\ job = Idle
      /\ UNCHANGED <<born, index, original, chosen, blind>>
  BY DEF LoadFresh, historyVars
<1>2. PICK i \in Ids : i = drawn + 1
  BY ConstantsDiffer DEF LoadFresh, TypeOK, Ids
<1>3. \A w \in Readers : bound[w] # i /\ bound[w] <= drawn'
  BY <1>1, <1>2, Numbers DEF BoundDrawn
<1>4. \A q \in Paths : Exists(q) => file[q].id # i
  BY <1>2, Numbers DEF IdsDrawn
<1>5. CASE /\ file' = [file EXCEPT ![p].id = drawn']
           /\ job' = [st |-> "register", path |-> p, id |-> drawn', w |-> seq + 1]
           /\ UNCHANGED <<seq, docs, bound>>
  <2>1. FilesApart' /\ OriginalKnown' /\ Held'
    BY <1>1, <1>2, <1>3, <1>5, RenamedQuietly
  <2>2. file'[p].id = i
    BY <1>1, <1>2, <1>5, FileParts DEF TypeOK, File
  <2>3. job'.id = i /\ job'.path = p
    BY <1>1, <1>2, <1>5
  <2>4. BoundDrawn'
    BY <1>3, <1>5, <2>2, <2>3 DEF BoundDrawn
  <2> QED
    BY <2>1, <2>4
<1>6. CASE OpenWindow(p, drawn', FALSE) /\ UNCHANGED <<file, job>>
  <2>1. OpenWindow(p, i, FALSE)
    BY <1>1, <1>2, <1>6
  <2>2. PICK o \in Readers :
          /\ seq' = o /\ seq <= seq' /\ seq' \in Nat
          /\ \A w \in Readers \ {o} : docs'[w] = docs[w] /\ bound'[w] = bound[w]
          /\ docs'[o] # NoDoc => docs'[o].tok = file[p].tok /\ docs'[o].mode = file[p].mode
          /\ bound'[o] = i
    BY <1>1, <2>1, OpenShows
  <2>3. \A w \in Readers, x \in Paths : Quiet(w, x) /\ file[x].id = bound[w] => original'[bound[w]] = docs[w].tok
    BY <1>1 DEF Held
  <2>4. FilesApart' /\ Held'
    BY <1>1, <1>3, <1>4, <1>6, <2>2, <2>3, Numbers, Shown
  <2>5. OriginalKnown'
    BY <1>1 DEF OriginalKnown
  <2>6. \A w \in Readers : bound'[w] <= drawn'
    BY <1>1, <1>2, <1>3, <2>2, Numbers
  <2>7. job' = Idle /\ Idle.st = "idle"
    BY <1>1, <1>6 DEF Idle
  <2>8. BoundDrawn'
    BY <2>6, <2>7 DEF BoundDrawn
  <2> QED
    BY <2>4, <2>5, <2>8
<1> QED
  BY <1>5, <1>6 DEF LoadFresh

\* A file with an id is opened as what the index says it is.  The original of
\* the id changes only when no other file has the id, or blindly.
LEMMA KnownShared ==
    ASSUME Typed, IdsDrawn, SharingInv, NEW p \in Paths, LoadKnown(p)
    PROVE  SharingInv'
<1> USE DEF Typed, SharingInv
<1>1. /\ Exists(p) /\ job = Idle /\ file[p].id # NoId
      /\ UNCHANGED <<file, born, drawn, job, chosen>> /\ blind \subseteq blind'
  BY DEF LoadKnown
<1>2. PICK i \in Ids : i = file[p].id
  BY <1>1, FileParts
<1>3. \/ blind' = blind \union {i} /\ UNCHANGED <<index, original>> /\ OpenWindow(p, i, FALSE)
      \/ /\ Disposition(i, p) = "Register" /\ index' = WithPath(i, p) /\ original' = OpenedAs(i, p)
         /\ OpenWindow(p, i, FALSE)
      \/ /\ Disposition(i, p) = "Open" /\ index' = index /\ original' = OpenedAs(i, p)
         /\ Replaced(i, p) => i \in blind'
         /\ OpenWindow(p, i, FALSE)
      \/ /\ Disposition(i, p) = "Moved" /\ index' = RecordMove(i, p) /\ original' = OpenedAs(i, p)
         /\ Astray(i, p) => i \in blind'
         /\ OpenWindow(p, i, FALSE)
      \/ UNCHANGED <<index, original>> /\ OpenWindow(p, i, TRUE)
  BY <1>2 DEF LoadKnown, Recorded, WithIndex
<1>4. OpenWindow(p, i, FALSE) \/ (OpenWindow(p, i, TRUE) /\ UNCHANGED <<index, original>>)
  BY <1>3
<1>5. original' = original \/ original' = OpenedAs(i, p)
  BY <1>3
<1>6. original' = OpenedAs(i, p) => original'[i] = file[p].tok /\ \A j \in Ids \ {i} : original'[j] = original[j]
  BY DEF OpenedAs, TypeOK
<1>7. OriginalKnown'
  <2>1. original' = OpenedAs(i, p) => index'[i] # {} /\ \A j \in Ids \ {i} : index'[j] = index[j]
    <3>1. Disposition(i, p) \in {"Open", "Moved"} => index[i] # {}
      BY DEF Disposition
    <3>2. ASSUME original' = original, original = OpenedAs(i, p) PROVE index[i] # {}
      BY <1>1, <1>6, <3>2, Numbers DEF OriginalKnown
    <3>3. index \in [Ids -> SUBSET Paths]
      BY DEF TypeOK
    <3> QED
      BY <1>3, <3>1, <3>2, <3>3 DEF WithPath, RecordMove
  <2>2. original' = original => \A j \in Ids : original[j] # NoToken => index'[j] # {}
    <3>1. index \in [Ids -> SUBSET Paths]
      BY DEF TypeOK
    <3> QED
      BY <1>3, <3>1 DEF OriginalKnown, WithPath, RecordMove
  <2> QED
    BY <1>5, <1>6, <2>1, <2>2 DEF OriginalKnown
<1>8. ASSUME NEW w \in Readers, NEW x \in Paths, Quiet(w, x), bound[w] \notin chosen' \union blind',
             file[x].id = bound[w]
      PROVE  original'[bound[w]] = docs[w].tok
  <2>1. original[bound[w]] = docs[w].tok /\ docs[w].tok # NoToken /\ Exists(x) /\ file[x].tok = docs[w].tok
    BY <1>8, Numbers DEF Held, Quiet
  <2>2. bound[w] \in Ids
    BY <1>8 DEF Quiet, TypeOK
  <2>3. CASE original' = original \/ bound[w] # i
    BY <1>5, <1>6, <2>1, <2>2, <2>3
  <2>4. CASE bound[w] = i /\ Disposition(i, p) = "Register"
    BY <2>1, <2>4 DEF OriginalKnown, Disposition
  <2>5. CASE bound[w] = i /\ Disposition(i, p) = "Open" /\ ~Replaced(i, p)
    BY <1>5, <1>6, <2>1, <2>5 DEF Replaced
  <2>6. CASE bound[w] = i /\ Disposition(i, p) = "Moved" /\ ~Astray(i, p)
    <3>1. ~(\E q \in index[i] : Exists(q))
      BY <2>6 DEF Disposition
    <3>2. x = p
      BY <1>8, <2>1, <2>6, <3>1 DEF Astray
    <3> QED
      BY <1>5, <1>6, <2>1, <2>6, <3>2
  <2> QED
    BY <1>3, <1>8, <2>3, <2>4, <2>5, <2>6
<1>9. \A w \in Readers, x \in Paths : Quiet(w, x) /\ file[x].id = NoId => bound[w] # i
  BY <1>1, <1>2 DEF Held
<1>10. PICK o \in Readers :
         /\ seq' = o /\ seq <= seq' /\ seq' \in Nat
         /\ \A w \in Readers \ {o} : docs'[w] = docs[w] /\ bound'[w] = bound[w]
         /\ docs'[o] # NoDoc => docs'[o].tok = file[p].tok
         /\ bound'[o] = i \/ (bound'[o] = NoId /\ UNCHANGED <<index, original>>)
  <2>1. CASE OpenWindow(p, i, FALSE)
    BY <1>1, <2>1, OpenShows
  <2>2. CASE OpenWindow(p, i, TRUE) /\ UNCHANGED <<index, original>>
    BY <1>1, <2>2, OpenShows
  <2> QED
    BY <1>4, <2>1, <2>2
<1>11. bound'[o] = i /\ i \notin chosen' \union blind' => file[p].id = i /\ original'[i] = file[p].tok
  <2>1. ASSUME OpenWindow(p, i, TRUE) PROVE bound'[o] # i
    <3>1. seq' = seq + 1 /\ bound' = [bound EXCEPT ![seq'] = NoId]
      BY <2>1 DEF OpenWindow
    <3> QED
      BY <1>10, <3>1, ConstantsDiffer DEF TypeOK
  <2> QED
    BY <1>2, <1>3, <1>6, <2>1
<1>12. FilesApart' /\ Held'
  BY <1>1, <1>8, <1>9, <1>10, <1>11, Numbers, Shown
<1>13. BoundDrawn'
  <2>1. i <= drawn /\ NoId <= drawn
    BY <1>1, <1>2, Numbers DEF IdsDrawn, NoId
  <2>2. \A w \in Readers : bound'[w] <= drawn'
    BY <1>1, <1>10, <2>1 DEF BoundDrawn
  <2>3. job' = Idle /\ Idle.st = "idle"
    BY <1>1 DEF Idle
  <2> QED
    BY <2>2, <2>3 DEF BoundDrawn
<1> QED
  BY <1>7, <1>12, <1>13

\* Embedded data: the window writes to no memory.
LEMMA EmbeddedShared ==
    ASSUME Typed, IdsDrawn, SharingInv, NEW p \in Paths, LoadEmbedded(p)
    PROVE  SharingInv'
<1> USE DEF Typed, SharingInv
<1>1. /\ Exists(p) /\ job = Idle /\ file[p].id # NoId /\ file[p].mode = "embedded"
      /\ UNCHANGED <<file, born, drawn, index, job, original, chosen, blind>>
  BY DEF LoadEmbedded, diskVars, historyVars
<1>2. PICK i \in Ids : i = file[p].id
  BY <1>1, FileParts
<1>3. OpenWindow(p, i, FALSE)
  BY <1>2 DEF LoadEmbedded
<1>4. PICK o \in Readers :
        /\ seq' = o /\ seq <= seq' /\ seq' \in Nat
        /\ \A w \in Readers \ {o} : docs'[w] = docs[w] /\ bound'[w] = bound[w]
        /\ docs'[o] # NoDoc => docs'[o].tok = file[p].tok /\ docs'[o].mode = file[p].mode
        /\ bound'[o] = i
  BY <1>1, <1>3, OpenShows
<1>5. docs'[o] # NoDoc => docs'[o].mode # "vault"
  BY <1>1, <1>4
<1>6. \A w \in Readers, x \in Paths : Quiet(w, x) /\ file[x].id = bound[w] => original'[bound[w]] = docs[w].tok
  BY <1>1 DEF Held
<1>7. \A w \in Readers, x \in Paths : Quiet(w, x) /\ file[x].id = NoId => bound[w] # i
  BY <1>1, <1>2 DEF Held
<1>8. FilesApart' /\ Held'
  BY <1>1, <1>4, <1>5, <1>6, <1>7, Numbers, Shown
<1>9. OriginalKnown'
  BY <1>1 DEF OriginalKnown
<1>10. BoundDrawn'
  <2>1. i <= drawn
    BY <1>1, <1>2 DEF IdsDrawn
  <2>2. \A w \in Readers : bound'[w] <= drawn'
    BY <1>1, <1>4, <2>1 DEF BoundDrawn
  <2>3. job' = Idle /\ Idle.st = "idle"
    BY <1>1 DEF Idle
  <2> QED
    BY <2>2, <2>3 DEF BoundDrawn
<1> QED
  BY <1>8, <1>9, <1>10

\* The file of a fresh id is opened as the original of it.
LEMMA RegisterShared ==
    ASSUME Typed, IdsDrawn, SharingInv, LoadRegister
    PROVE  SharingInv'
<1> USE DEF Typed, SharingInv
<1>1. job # Idle /\ job.st = "register"
  BY MidCommand DEF LoadRegister
<1>2. job.path \in Paths /\ job.id \in Ids /\ Exists(job.path)
  BY <1>1 DEF JobOK, Job
<1>3. PICK p \in Paths, i \in Ids : p = job.path /\ i = job.id
  BY <1>2
<1>4. /\ Exists(p) /\ file[p].id = i /\ i <= drawn /\ \A w \in Readers : bound[w] # i
  BY <1>1, <1>2, <1>3 DEF BoundDrawn, IdsDrawn
<1>5. UNCHANGED <<file, born, drawn, chosen, blind>> /\ job' = Idle /\ OpenWindow(p, i, FALSE)
  BY <1>3 DEF LoadRegister
<1>6. \/ /\ file[p].mode = "vault" /\ index' = WithPath(i, p) /\ original' = OpenedAs(i, p)
      \/ file[p].mode # "vault" /\ UNCHANGED <<index, original>>
  BY <1>3 DEF LoadRegister, WithIndex
<1>7. \A j \in Ids \ {i} : original'[j] = original[j]
  BY <1>6 DEF OpenedAs, TypeOK
<1>8. file[p].mode = "vault" => original'[i] = file[p].tok
  BY <1>6 DEF OpenedAs, TypeOK
<1>9. PICK o \in Readers :
        /\ seq' = o /\ seq <= seq' /\ seq' \in Nat
        /\ \A w \in Readers \ {o} : docs'[w] = docs[w] /\ bound'[w] = bound[w]
        /\ docs'[o] # NoDoc => docs'[o].tok = file[p].tok /\ docs'[o].mode = file[p].mode
        /\ bound'[o] = i
  BY <1>4, <1>5, OpenShows
<1>10. ASSUME NEW w \in Readers, NEW x \in Paths, Quiet(w, x), file[x].id = bound[w]
       PROVE  original'[bound[w]] = docs[w].tok
  <2>1. bound[w] \in Ids \ {i}
    BY <1>4, <1>10 DEF Quiet, TypeOK
  <2> QED
    BY <1>7, <1>10, <2>1 DEF Held
<1>11. docs'[o] # NoDoc /\ docs'[o].mode = "vault" => file[p].id = i /\ original'[i] = file[p].tok
  BY <1>4, <1>8, <1>9
<1>12. FilesApart' /\ Held'
  BY <1>4, <1>5, <1>9, <1>10, <1>11, Numbers, Shown
<1>13. OriginalKnown'
  <2>1. index \in [Ids -> SUBSET Paths]
    BY DEF TypeOK
  <2>2. \A j \in Ids : index[j] # {} => index'[j] # {}
    BY <1>6, <2>1 DEF WithPath
  <2>3. original' = OpenedAs(i, p) /\ original' # original => index'[i] # {}
    BY <1>6, <2>1 DEF WithPath
  <2> QED
    BY <2>2, <2>3, <1>6, KnownStays
<1>14. BoundDrawn'
  <2>1. \A w \in Readers : bound'[w] <= drawn'
    BY <1>4, <1>5, <1>9 DEF BoundDrawn
  <2>2. job' = Idle /\ Idle.st = "idle"
    BY <1>5 DEF Idle
  <2> QED
    BY <2>1, <2>2 DEF BoundDrawn
<1> QED
  BY <1>12, <1>13, <1>14

\* A fork: the copy gets an id that no window is bound to, ...
LEMMA ForkShared ==
    ASSUME Typed, SharingInv, ForkSave \/ \E w \in Readers : ForkCopy(w)
    PROVE  SharingInv'
<1> USE DEF Typed, SharingInv
<1>1. CASE \E w \in Readers : ForkCopy(w)
  <2>1. PICK w \in Readers : ForkCopy(w)
    BY <1>1
  <2>2. /\ drawn' = drawn + 1 /\ job'.st = "save" /\ job'.id = drawn + 1
        /\ UNCHANGED <<file, born, seq, docs, bound, index, original, chosen, blind>>
    BY <2>1 DEF ForkCopy, historyVars
  <2>3. FilesApart' /\ OriginalKnown' /\ Held'
    BY <2>2, NothingShown DEF OriginalKnown
  <2>4. \A v \in Readers : bound[v] <= drawn' /\ bound[v] # drawn + 1
    BY <2>2, Numbers DEF BoundDrawn
  <2>5. BoundDrawn'
    BY <2>2, <2>4 DEF BoundDrawn
  <2> QED
    BY <2>3, <2>5
<1>2. CASE ForkSave
  <2>1. job # Idle /\ UNCHANGED <<born, drawn, seq, docs, bound, index, original, chosen, blind>>
    BY <1>2, MidCommand DEF ForkSave, historyVars
  <2>2. job.path \in Paths /\ job.id \in Ids /\ Exists(job.path)
    BY <2>1 DEF JobOK, Job
  <2>3. PICK p \in Paths, i \in Ids : p = job.path /\ i = job.id
    BY <2>2
  <2>4. Exists(p) /\ \A w \in Readers : bound[w] # i /\ bound[w] <= drawn
    BY <2>1, <2>2, <2>3 DEF BoundDrawn
  <2>5. CASE file' = [file EXCEPT ![p].id = i] /\ job' = [job EXCEPT !.st = "record"]
    <3>1. FilesApart' /\ OriginalKnown' /\ Held'
      BY <2>1, <2>4, <2>5, RenamedQuietly
    <3>2. job'.path = p /\ job'.id = i
      BY <2>1, <2>3, <2>5 DEF JobOK, Job
    <3>3. file'[p].id = i
      BY <2>4, <2>5, FileParts DEF TypeOK, File
    <3>4. BoundDrawn'
      BY <2>1, <2>4, <3>2, <3>3 DEF BoundDrawn
    <3> QED
      BY <3>1, <3>4
  <2>6. CASE UNCHANGED file /\ job' = Idle
    <3>1. FilesApart' /\ OriginalKnown' /\ Held'
      BY <2>1, <2>6, NothingShown DEF OriginalKnown
    <3>2. Idle.st = "idle"
      BY DEF Idle
    <3>3. BoundDrawn'
      BY <2>1, <2>4, <2>6, <3>2 DEF BoundDrawn
    <3> QED
      BY <3>1, <3>3
  <2> QED
    BY <1>2, <2>3, <2>5, <2>6 DEF ForkSave
<1> QED
  BY <1>1, <1>2

LEMMA ResolvedShows ==
    ASSUME TypeOK, NEW w \in Readers, NEW i \in Ids, docs[w] # NoDoc, Resolved(w, i)
    PROVE  /\ \A v \in Readers \ {w} : docs'[v] = docs[v] /\ bound'[v] = bound[v]
           /\ docs'[w].tok = file[docs[w].path].tok /\ bound'[w] = i
<1>1. docs[w] \in Doc
  BY DEF TypeOK
<1>2. docs' = [docs EXCEPT ![w] = [[docs[w] EXCEPT !.conflict = FALSE]
                                     EXCEPT !.tok = file[docs[w].path].tok]]
  BY <1>1 DEF Resolved, TypeOK
<1>3. \A v \in Readers \ {w} : docs'[v] = docs[v] /\ bound'[v] = bound[v]
  BY <1>2 DEF Resolved, TypeOK
<1>4. docs'[w].tok = file[docs[w].path].tok /\ bound'[w] = i
  BY <1>1, <1>2 DEF Resolved, TypeOK, Doc
<1> QED
  BY <1>3, <1>4

\* ... and it is the original of that id.
LEMMA RecordShared ==
    ASSUME Typed, IdsDrawn, SharingInv, ForkRegister
    PROVE  SharingInv'
<1> USE DEF Typed, SharingInv
<1>1. job # Idle /\ job.st = "record"
  BY MidCommand DEF ForkRegister
<1>2. /\ job.path \in Paths /\ job.id \in Ids /\ job.w \in Readers /\ Exists(job.path)
      /\ docs[job.w] # NoDoc /\ docs[job.w].path = job.path
  BY <1>1 DEF JobOK, Job
<1>3. PICK p \in Paths, i \in Ids, o \in Readers : p = job.path /\ i = job.id /\ o = job.w
  BY <1>2
<1>4. /\ Exists(p) /\ file[p].id = i /\ i <= drawn /\ docs[o] # NoDoc /\ docs[o].path = p
      /\ \A w \in Readers : bound[w] # i /\ bound[w] <= drawn
  BY <1>1, <1>2, <1>3 DEF BoundDrawn, IdsDrawn
<1>5. /\ UNCHANGED <<file, born, drawn, seq, chosen, blind>> /\ job' = Idle
      /\ index' = WithPath(i, p) /\ original' = OpenedAs(i, p)
      /\ Resolved(o, i) \/ UNCHANGED <<docs, bound>>
  BY <1>3 DEF ForkRegister, WithIndex
<1>6. original'[i] = file[p].tok /\ \A j \in Ids \ {i} : original'[j] = original[j]
  BY <1>5 DEF OpenedAs, TypeOK
<1>7. \A w \in Readers : bound[w] # NoId => original'[bound[w]] = original[bound[w]]
  BY <1>4, <1>6 DEF TypeOK
<1>8. OriginalKnown'
  <2>1. index \in [Ids -> SUBSET Paths]
    BY DEF TypeOK
  <2>2. (\A j \in Ids : index[j] # {} => index'[j] # {}) /\ index'[i] # {}
    BY <1>5, <2>1 DEF WithPath
  <2> QED
    BY <1>5, <2>2, KnownStays
<1>9. CASE UNCHANGED <<docs, bound>>
  <2>1. FilesApart' /\ Held'
    BY <1>5, <1>7, <1>9, NothingShown
  <2>2. Idle.st = "idle"
    BY DEF Idle
  <2>3. BoundDrawn'
    BY <1>4, <1>5, <1>9, <2>2 DEF BoundDrawn
  <2> QED
    BY <1>8, <2>1, <2>3
<1>10. CASE Resolved(o, i)
  <2>1. /\ \A v \in Readers \ {o} : docs'[v] = docs[v] /\ bound'[v] = bound[v]
        /\ docs'[o].tok = file[p].tok /\ bound'[o] = i
    BY <1>4, <1>10, ResolvedShows
  <2>2. seq' \in Nat /\ seq <= seq' /\ o <= seq'
    BY <1>4, <1>5, Numbers DEF FilesApart
  <2>3. ASSUME NEW w \in Readers, NEW x \in Paths, Quiet(w, x), file[x].id = bound[w]
        PROVE  original'[bound[w]] = docs[w].tok
    BY <1>7, <2>3 DEF Held, Quiet
  <2>4. FilesApart' /\ Held'
    BY <1>4, <1>5, <1>6, <2>1, <2>2, <2>3, Shown
  <2>5. \A w \in Readers : bound'[w] <= drawn'
    BY <1>4, <1>5, <2>1
  <2>6. BoundDrawn'
    BY <1>5, <2>5 DEF BoundDrawn, Idle
  <2> QED
    BY <1>8, <2>4, <2>6
<1> QED
  BY <1>5, <1>9, <1>10

\* An answered id is nobody's original any more.
LEMMA AnswerShared ==
    ASSUME Typed, IdsDrawn, SharingInv, NEW o \in Readers, AnswerMove(o) \/ AnswerShare(o)
    PROVE  SharingInv'
<1> USE DEF Typed, SharingInv
<1>1. PICK p \in Paths, i \in Ids : p = docs[o].path /\ i = file[p].id
  BY AskedParts DEF AnswerMove, AnswerShare
<1>2. docs[o] # NoDoc /\ Exists(p) /\ job = Idle
  BY <1>1 DEF AnswerMove, AnswerShare, Asked
<1>3. PICK ok \in BOOLEAN : Answer(o, RecordMove(i, p), ok, i) \/ Answer(o, AddShared(i, p), ok, i)
  BY <1>1 DEF AnswerMove, AnswerShare
<1>4. /\ UNCHANGED <<file, born, drawn, seq, job, blind, original>>
      /\ chosen' = chosen \union {i}
      /\ index' \in {RecordMove(i, p), AddShared(i, p)}
      /\ Resolved(o, i) \/ UNCHANGED <<docs, bound>>
  BY <1>3 DEF Answer, WithIndex
<1>5. OriginalKnown'
  <2>1. index \in [Ids -> SUBSET Paths]
    BY DEF TypeOK
  <2>2. \A j \in Ids : index[j] # {} => index'[j] # {}
    BY <1>4, <2>1 DEF RecordMove, AddShared
  <2> QED
    BY <1>4, <2>2, KnownStays
<1>6. CASE UNCHANGED <<docs, bound>>
  <2>1. FilesApart' /\ Held'
    BY <1>4, <1>6, NothingShown
  <2>2. BoundDrawn'
    BY <1>4, <1>6 DEF BoundDrawn
  <2> QED
    BY <1>5, <2>1, <2>2
<1>7. CASE Resolved(o, i)
  <2>1. /\ \A v \in Readers \ {o} : docs'[v] = docs[v] /\ bound'[v] = bound[v]
        /\ docs'[o].tok = file[p].tok /\ bound'[o] = i
    BY <1>1, <1>2, <1>7, ResolvedShows
  <2>2. seq' \in Nat /\ seq <= seq' /\ o <= seq'
    BY <1>2, <1>4, Numbers DEF FilesApart
  <2>3. \A w \in Readers, x \in Paths : Quiet(w, x) /\ file[x].id = bound[w] => original'[bound[w]] = docs[w].tok
    BY <1>4 DEF Held
  <2>4. \A w \in Readers, x \in Paths : Quiet(w, x) /\ file[x].id = NoId => bound[w] # i
    BY <1>1, <1>2 DEF Held
  <2>5. FilesApart' /\ Held'
    BY <1>2, <1>4, <2>1, <2>2, <2>3, <2>4, Shown
  <2>6. i <= drawn
    BY <1>1, <1>2 DEF IdsDrawn
  <2>7. \A w \in Readers : bound'[w] <= drawn'
    BY <1>4, <2>1, <2>6 DEF BoundDrawn
  <2>8. BoundDrawn'
    BY <1>2, <1>4, <2>7 DEF BoundDrawn, Idle
  <2> QED
    BY <1>5, <2>5, <2>8
<1> QED
  BY <1>4, <1>6, <1>7

LEMMA WindowsShared ==
    ASSUME Typed, SharingInv, NEW w \in Readers, CloseWindow(w) \/ \E t \in Tiers : Write(w, t)
    PROVE  SharingInv'
<1> USE DEF Typed, SharingInv
<1>1. /\ UNCHANGED <<file, born, drawn, seq, index, job, original, chosen, blind>>
      /\ \A v \in Readers : \/ docs'[v] = docs[v] /\ bound'[v] = bound[v]
                            \/ docs'[v] = NoDoc /\ bound'[v] = NoId
  <2>1. CASE CloseWindow(w)
    BY <2>1 DEF CloseWindow, TypeOK, diskVars, historyVars
  <2>2. CASE \E t \in Tiers : Write(w, t)
    BY <2>2 DEF Write, processVars
  <2> QED
    BY <2>1, <2>2
<1>2. job = Idle
  BY DEF CloseWindow, Write
<1>3. FilesApart' /\ Held'
  BY <1>1, NothingShown
<1>4. OriginalKnown'
  BY <1>1 DEF OriginalKnown
<1>5. \A v \in Readers : bound'[v] <= drawn'
  BY <1>1, Numbers DEF BoundDrawn, NoId
<1>6. BoundDrawn'
  BY <1>1, <1>2, <1>5 DEF BoundDrawn, Idle
<1> QED
  BY <1>3, <1>4, <1>6

LEMMA RestartShared ==
    ASSUME Typed, SharingInv, Restart
    PROVE  SharingInv'
<1> USE DEF Typed, SharingInv
<1>1. /\ UNCHANGED <<file, born, drawn>> /\ job' = Idle
      /\ \A w \in Readers : docs'[w] = NoDoc /\ bound'[w] = NoId
      /\ \A i \in Ids : original'[i] = NoToken
  BY DEF Restart, diskVars
<1>2. FilesApart' /\ OriginalKnown' /\ Held'
  BY <1>1 DEF FilesApart, OriginalKnown, Held, Quiet, Exists
<1>3. BoundDrawn'
  BY <1>1, Numbers DEF BoundDrawn, Idle, NoId
<1> QED
  BY <1>2, <1>3

LEMMA SharingKept ==
    ASSUME Typed, IdsDrawn, SharingInv, [Next]_vars
    PROVE  SharingInv'
<1>1. ASSUME NEW p \in Paths,
             \/ \E m \in Modes : Arrive(p, m)
             \/ \E q \in Paths : CopyFile(p, q) \/ MoveFile(p, q)
      PROVE  SharingInv'
  BY <1>1, FilesShared
<1>2. ASSUME NEW p \in Paths, LoadFresh(p) \/ LoadKnown(p) \/ LoadEmbedded(p) PROVE SharingInv'
  BY <1>2, FreshShared, KnownShared, EmbeddedShared
<1>3. CASE LoadRegister \/ ForkRegister
  BY <1>3, RegisterShared, RecordShared
<1>4. CASE ForkSave \/ \E w \in Readers : ForkCopy(w)
  BY <1>4, ForkShared
<1>5. CASE \E w \in Readers : AnswerMove(w) \/ AnswerShare(w)
  BY <1>5, AnswerShared
<1>6. CASE \E w \in Readers : CloseWindow(w) \/ \E t \in Tiers : Write(w, t)
  BY <1>6, WindowsShared
<1>7. CASE Restart
  BY <1>7, RestartShared
<1>8. CASE UNCHANGED vars
  BY <1>8 DEF vars, diskVars, processVars, historyVars,
              SharingInv, FilesApart, BoundDrawn, OriginalKnown, Held, Quiet, Exists
<1> QED
  BY <1>1, <1>2, <1>3, <1>4, <1>5, <1>6, <1>7, <1>8 DEF Next

LEMMA SharingShown ==
    ASSUME Typed, SharingInv
    PROVE  NoSilentSharing
<1> USE DEF Typed, SharingInv
<1>1. SUFFICES ASSUME NEW v \in Readers, NEW w \in Readers, Unforked(v), Unforked(w),
                      docs[v].path # docs[w].path,
                      docs[v].mode = "vault", docs[w].mode = "vault",
                      bound[v] = bound[w], bound[v] # NoId, bound[v] \notin chosen \union blind
               PROVE  FALSE
  BY DEF NoSilentSharing
<1>2. docs[v].path \in Paths /\ docs[w].path \in Paths
  BY <1>1 DEF Unforked, InPlace, TypeOK, Doc
<1>3. PICK p \in Paths, q \in Paths : p = docs[v].path /\ q = docs[w].path
  BY <1>2
<1>4. /\ Quiet(v, p) /\ file[p].id \in {bound[v], NoId}
      /\ Quiet(w, q) /\ file[q].id \in {bound[w], NoId}
  BY <1>1, <1>3 DEF Unforked, InPlace, Quiet
<1>5. CASE file[p].id = NoId \/ file[q].id = NoId
  BY <1>1, <1>4, <1>5 DEF Held
<1>6. CASE file[p].id = bound[v] /\ file[q].id = bound[w]
  <2>1. docs[v].tok = docs[w].tok
    BY <1>1, <1>4, <1>6 DEF Held
  <2>2. file[p].tok = file[q].tok /\ Exists(p) /\ Exists(q)
    BY <1>4, <2>1 DEF Quiet
  <2>3. p = q
    BY <2>2 DEF FilesApart
  <2> QED
    BY <1>1, <1>3, <2>3
<1> QED
  BY <1>4, <1>5, <1>6

\* NoSilentSharing: two files, each where it was opened, write to one memory only
\* if the user chose so, or where the index cannot tell a copy from the original,
\* through failing saves, forks cut short and restarts.
THEOREM NothingSharedSilently == Spec => []NoSilentSharing
<1>1. Init => SharingInv
  BY ConstantsDiffer DEF Init, SharingInv, FilesApart, BoundDrawn, OriginalKnown, Held, Quiet, Exists, Idle, NoId
<1>2. Typed /\ AnswerInv /\ SharingInv /\ [Next]_vars => SharingInv'
  BY SharingKept DEF AnswerInv
<1>3. Typed /\ SharingInv => NoSilentSharing
  BY SharingShown
<1> QED
  BY <1>1, <1>2, <1>3, TypedHolds, AnswerInvHolds, PTL DEF Spec
=============================================================================

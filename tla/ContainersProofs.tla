-------------------------- MODULE ContainersProofs --------------------------
(***************************************************************************)
(* Proofs about Containers, for every set of projects, programs, keys and  *)
(* limits.                                                                 *)
(*                                                                         *)
(* Every operation on an existing file is shown to be one kind of step:    *)
(* some program comes to hold a copy that is sound, asks for no permission *)
(* beyond those of the file and the ones it reports, and in which what the *)
(* user stored is found (EditSteps).  Two more steps matter, the first     *)
(* file and a save; a window's store only touches the vault.               *)
(***************************************************************************)
EXTENDS Containers, TLAPS

-----------------------------------------------------------------------------
(* Types.                                                                  *)

Apps  == {p.app : p \in Projects} \cup {p.local : p \in Projects}
Progs == {p.prog : p \in Projects}
Perms == UNION {p.perms : p \in Projects}
Tree  == (SUBSET Keys) \cup {Absent}
Placed == [Trees -> Tree]
Stored == [Trees -> SUBSET Keys]
Marks == [key : SigningKeys \cup {NoKey},
          payload : {<< >>} \cup (Apps \X (SUBSET Perms) \X (Progs \cup {"none"})),
          mismatched : BOOLEAN]
Envelopes == [pass : Passes \cup {"none"}, data : Tree]

Container ==
    [app : Apps, prog : Progs, converted : BOOLEAN, perms : SUBSET Perms, mode : Modes,
     requires : BOOLEAN, protected : BOOLEAN, inst : 0..MaxIds,
     digest : Progs \cup {"none"}, sig : Marks, trees : Placed, enc : Envelopes]

Pending ==
    [stale : BOOLEAN, new : Container, puts : Placed, asks : SUBSET Perms, drops : BOOLEAN]

TypeOK ==
    /\ file \in Container \cup {NoFile}
    /\ vault \in [1..MaxIds -> Placed]
    /\ drawn \in 0..MaxIds
    /\ edit \in [Programs -> Pending \cup {NoEdit}]
    /\ mine \in Stored
    /\ agreed \in SUBSET Perms
    /\ lost \in BOOLEAN

-----------------------------------------------------------------------------
(* The inductive invariant.                                                *)

(* A signature covers what it is next to, unless it did not where an       *)
(* update took both from, and the program compresses within the reader's   *)
(* cap.                                                                    *)
Sound(c) ==
    /\ c.sig.key # NoKey /\ ~c.sig.mismatched => c.sig.payload = << c.app, c.perms, c.prog >>
    /\ \A f \in Content[c.prog] : RatioOk(f)

(* What the user is taken to have stored is found in c.                    *)
Kept(c, stored) == \A t \in Trees : stored[t] \subseteq Found(c, t)

(* A copy has what the file has, but for the trees it stores itself.       *)
Carries(c, puts) ==
    \A t \in Trees : IF puts[t] = Absent THEN Found(file, t) \ Absent \subseteq Found(c, t)
                    ELSE puts[t] \subseteq Found(c, t)

(* A copy in the vault stores nothing itself, and stays with the vault     *)
(* entry of the file, unless it is an empty duplicate.                     *)
Follows(c, puts) ==
    c.mode = "vault" =>
        \/ \A t \in Trees : puts[t] = {}
        \/ /\ \A t \in Trees : puts[t] = Absent
           /\ file.mode = "vault" /\ file.inst # NoId => c.inst = file.inst

(* The file: what it was packed from was accepted.                         *)
FileOK ==
    file # NoFile => /\ Sound(file) /\ Verify(file) /\ Packs(file)
                     /\ file.perms \subseteq agreed
                     /\ ~lost => Kept(file, mine)

(* The copies programs hold.                                               *)
CopyOK ==
    \A by \in Programs : edit[by] # NoEdit =>
        /\ file # NoFile
        /\ Sound(edit[by].new)
        /\ edit[by].new.perms \subseteq agreed \cup edit[by].asks
        /\ ~lost /\ ~edit[by].drops /\ ~edit[by].stale =>
             Carries(edit[by].new, edit[by].puts) /\ Follows(edit[by].new, edit[by].puts)

(* No operation stores a SQL dump in the vault.                            *)
NoDumps == \A i \in 1..MaxIds : vault[i]["sql"] = Absent

Inv == TypeOK /\ FileOK /\ CopyOK /\ NoDumps

-----------------------------------------------------------------------------
(* Records.                                                                *)

LEMMA FileIsNot == \A c \in Container : c # NoFile
  <1>1. SUFFICES ASSUME NEW c \in Container, c = NoFile PROVE FALSE
        OBVIOUS
  <1>2. "prog" \in DOMAIN c
        BY DEF Container
  <1>3. DOMAIN c = {"app"}
        BY <1>1 DEF NoFile
  <1> QED
        BY <1>2, <1>3

LEMMA EditIsNot == \A e \in Pending : e # NoEdit
  <1>1. SUFFICES ASSUME NEW e \in Pending, e = NoEdit PROVE FALSE
        OBVIOUS
  <1>2. "new" \in DOMAIN e
        BY DEF Pending
  <1>3. DOMAIN e = {"stale"}
        BY <1>1 DEF NoEdit
  <1> QED
        BY <1>2, <1>3

(* Two containers that only differ in their digests.                       *)
Alike(c, d) ==
    /\ c.app = d.app /\ c.prog = d.prog /\ c.converted = d.converted
    /\ c.perms = d.perms /\ c.mode = d.mode /\ c.requires = d.requires
    /\ c.protected = d.protected /\ c.inst = d.inst /\ c.sig = d.sig
    /\ c.trees = d.trees /\ c.enc = d.enc

LEMMA Refreshed ==
    ASSUME NEW c \in Container
    PROVE  /\ Refresh(c) \in Container
           /\ Alike(Refresh(c), c)
           /\ Refresh(c).digest = c.prog
  <1>1. /\ Alike(Refresh(c), c)
        /\ Refresh(c).digest = c.prog
        BY DEF Refresh, Digests, Container, Alike
  <1>2. c.prog \in Progs
        BY DEF Container
  <1>3. Refresh(c) \in Container
        BY <1>2 DEF Refresh, Digests, Container
  <1> QED
        BY <1>1, <1>3

(* A digest matters neither to pack nor to a reader.                       *)
LEMMA AlikePacks ==
    ASSUME NEW c, NEW d, Alike(c, d)
    PROVE  Packs(c) = Packs(d)
  <1>1. c.trees = d.trees /\ c.enc = d.enc /\ c.prog = d.prog
        BY DEF Alike
  <1>2. StateFiles(c) = StateFiles(d)
        BY <1>1 DEF StateFiles
  <1>3. Files(c) = Files(d)
        BY <1>1, <1>2 DEF Files
  <1>4. Manifest(c) = Manifest(d)
        BY DEF Alike, Manifest
  <1>5. Validate(c) = Validate(d)
        BY DEF Alike, Validate
  <1> QED
        BY <1>3, <1>4, <1>5 DEF Packs

LEMMA AlikeFound ==
    ASSUME NEW c, NEW d, Alike(c, d), NEW t
    PROVE  Found(c, t) = Found(d, t)
  BY DEF Alike, Found

LEMMA AlikeSound ==
    ASSUME NEW c, NEW d, Alike(c, d), Sound(d)
    PROVE  Sound(c)
  BY DEF Alike, Sound

(* What opens compresses within the cap.                                   *)
LEMMA OpenedRatio ==
    ASSUME NEW c, Opens(c)
    PROVE  \A f \in Content[c.prog] : RatioOk(f)
  <1>1. ReaderAccepts(Manifest(c), Files(c))
        BY DEF Opens
  <1>2. \A f \in Files(c) : RatioOk(f)
        BY <1>1 DEF ReaderAccepts
  <1>3. Content[c.prog] \subseteq Files(c)
        BY DEF Files
  <1> QED
        BY <1>2, <1>3

(* What the self-check adds: the program compresses within the cap.        *)
LEMMA Checked ==
    ASSUME NEW c \in Container, SelfChecked(c)
    PROVE  Packs(c) /\ \A f \in Content[c.prog] : RatioOk(f)
  <1>1. Refresh(c).prog = c.prog
        BY Refreshed DEF Alike
  <1>2. Packs(c) /\ Opens(Refresh(c))
        BY DEF SelfChecked
  <1> QED
        BY <1>1, <1>2, OpenedRatio

-----------------------------------------------------------------------------
(* Containers that are built.                                              *)

LEMMA FreshIs ==
    ASSUME NEW p \in Projects
    PROVE  /\ Fresh(p) \in Container
           /\ Fresh(p).prog = p.prog /\ Fresh(p).perms = p.perms
           /\ Fresh(p).sig.key = NoKey /\ ~Fresh(p).protected
  <1>1. /\ p.app \in Apps /\ p.prog \in Progs /\ p.perms \in SUBSET Perms
        BY DEF Apps, Progs, Perms
  <1>2. p.mode \in Modes /\ p.requires \in BOOLEAN /\ p.data \in Tree
        BY ContainersAssumption DEF Tree
  <1>3. [NoTrees EXCEPT !["default"] = p.data] \in Placed
        BY <1>2 DEF NoTrees, Placed, Tree
  <1>4. NoMark \in Marks
        BY DEF NoMark, Marks
  <1>5. NoEnvelope \in Envelopes
        BY DEF NoEnvelope, Envelopes, Tree
  <1>6. NoId \in 0..MaxIds
        BY ContainersAssumption DEF NoId
  <1>7. Fresh(p) \in Container
        BY <1>1, <1>2, <1>3, <1>4, <1>5, <1>6 DEF Fresh, Container
  <1>8. /\ Fresh(p).prog = p.prog /\ Fresh(p).perms = p.perms
        /\ Fresh(p).sig.key = NoKey /\ ~Fresh(p).protected
        BY DEF Fresh, NoMark
  <1> QED
        BY <1>7, <1>8

LEMMA ConvertedIs ==
    ASSUME NEW p \in Projects
    PROVE  /\ Converted(p) \in Container
           /\ Converted(p).sig.key = NoKey /\ ~Converted(p).protected
  <1>1. Fresh(p) \in Container /\ Fresh(p).sig.key = NoKey /\ ~Fresh(p).protected
        BY FreshIs
  <1>2. p.local \in Apps
        BY DEF Apps
  <1>3. Fresh(p).perms \ {"network", "mcp"} \in SUBSET Perms
        BY <1>1 DEF Container
  <1>4. "embedded" \in Modes
        BY DEF Modes
  <1>5. Converted(p) \in Container
        BY <1>1, <1>2, <1>3, <1>4 DEF Converted, Container
  <1>6. Converted(p).sig = Fresh(p).sig /\ Converted(p).protected = Fresh(p).protected
        BY <1>1 DEF Converted, Container
  <1> QED
        BY <1>1, <1>5, <1>6

(* Signing changes the digests and the signature, and covers the rest.     *)
LEMMA SignedIs ==
    ASSUME NEW c \in Container, NEW k \in SigningKeys
    PROVE  /\ Signed(c, k) \in Container
           /\ Signed(c, k).prog = c.prog /\ Signed(c, k).perms = c.perms
           /\ Signed(c, k).sig.payload = << c.app, c.perms, c.prog >>
           /\ Signed(c, k).app = c.app
           /\ Signed(c, k).mode = c.mode /\ Signed(c, k).inst = c.inst
           /\ \A t \in Trees : Found(Signed(c, k), t) = Found(c, t)
  <1> DEFINE r == Refresh(c)
             m == [key |-> k, payload |-> Payload(r), mismatched |-> FALSE]
  <1>1. r \in Container /\ Alike(r, c) /\ r.digest = c.prog
        BY Refreshed
  <1>2. Payload(r) = << c.app, c.perms, c.prog >>
        BY <1>1 DEF Payload, Alike
  <1>3. Payload(r) \in Apps \X (SUBSET Perms) \X (Progs \cup {"none"})
        BY <1>2 DEF Container
  <1>4. m \in Marks
        BY <1>3 DEF Marks
  <1>5. Signed(c, k) = [r EXCEPT !.sig = m]
        BY DEF Signed
  <1> HIDE DEF r, m
  <1>6. [r EXCEPT !.sig = m] \in Container
        BY <1>1, <1>4 DEF Container
  <1>7. /\ Signed(c, k).prog = c.prog /\ Signed(c, k).perms = c.perms
        /\ Signed(c, k).app = c.app /\ Signed(c, k).sig = m
        /\ Signed(c, k).mode = c.mode /\ Signed(c, k).inst = c.inst
        /\ Signed(c, k).protected = c.protected
        /\ Signed(c, k).trees = c.trees /\ Signed(c, k).enc = c.enc
        BY <1>1, <1>5 DEF Container, Alike
  <1>8. m.payload = << c.app, c.perms, c.prog >>
        BY <1>2 DEF m
  <1>9. \A t \in Trees : Found(Signed(c, k), t) = Found(c, t)
        BY <1>7 DEF Found
  <1> QED
        BY <1>5, <1>6, <1>7, <1>8, <1>9

(* What an update is given.                                                *)
LEMMA SourceIs ==
    ASSUME NEW newer \in Sources
    PROVE  newer \in Container /\ \A f \in Content[newer.prog] : RatioOk(f)
  <1>1. \A c \in Unsigned : c \in Container
        BY FreshIs, ConvertedIs DEF Unsigned
  <1>2. ASSUME NEW c \in Unsigned, NEW k \in SigningKeys
        PROVE  Signed(c, k) \in Container /\ [c EXCEPT !.sig.key = k] \in Container
    <2>1. c \in Container /\ c.sig \in Marks
          BY <1>1 DEF Container
    <2>2. [c.sig EXCEPT !.key = k] \in Marks
          BY <2>1 DEF Marks
    <2>3. [c EXCEPT !.sig.key = k] \in Container
          BY <2>1, <2>2 DEF Container
    <2> QED
          BY <2>1, <2>3, SignedIs
  <1>3. /\ \/ newer \in Unsigned
           \/ \E c \in Unsigned, k \in SigningKeys :
                newer = Signed(c, k) \/ newer = [c EXCEPT !.sig.key = k]
        /\ Opens(newer)
    <2> DEFINE over(c, k) == [c EXCEPT !.sig.key = k]
    <2>1. newer \in {x \in Unsigned \cup {Signed(c, k) : c \in Unsigned, k \in SigningKeys}
                               \cup {over(c, k) : c \in Unsigned, k \in SigningKeys} : Opens(x)}
          BY DEF Sources
    <2> HIDE DEF over
    <2>2. /\ \/ newer \in Unsigned
             \/ \E c \in Unsigned, k \in SigningKeys : newer = Signed(c, k) \/ newer = over(c, k)
          /\ Opens(newer)
          BY <2>1
    <2> QED
          BY <2>2 DEF over
  <1>4. newer \in Container
        BY <1>1, <1>2, <1>3
  <1> QED
        BY <1>3, <1>4, OpenedRatio

-----------------------------------------------------------------------------
(* Steps that start an operation.                                          *)

(* The vault only gains keys, none while the file reads it, and no dump.   *)
Grown ==
    /\ vault' \in [1..MaxIds -> Placed]
    /\ file.mode = "vault" => vault' = vault
    /\ \A i \in 1..MaxIds : /\ vault'[i]["sql"] = vault[i]["sql"]
                           /\ \A t \in Trees : vault[i][t] \ Absent \subseteq vault'[i][t]

EditStep ==
    /\ file # NoFile
    /\ Grown /\ drawn' \in 0..MaxIds
    /\ \E by \in Programs, c \in Container, puts \in Placed,
          asks \in SUBSET Perms, drops \in BOOLEAN :
          /\ Edit(by, c, puts, asks, drops)
          /\ Sound(c)
          /\ c.perms \subseteq agreed \cup asks
          /\ ~lost /\ ~drops => Carries(c, puts)' /\ Follows(c, puts)
    /\ UNCHANGED << file, mine, agreed, lost >>

LEMMA KeptGrows ==
    ASSUME TypeOK, Grown, NEW c \in Container, NEW stored \in Stored, Kept(c, stored)
    PROVE  Kept(c, stored)'
  <1>1. SUFFICES ASSUME NEW t \in Trees PROVE stored[t] \subseteq Found(c, t)'
        BY DEF Kept
  <1>2. stored[t] \subseteq Found(c, t) /\ stored[t] \subseteq Keys
        BY <1>1 DEF Kept, Stored
  <1>3. CASE c.mode = "vault" /\ c.inst # NoId
    <2>1. c.inst \in 1..MaxIds
          BY <1>3, ContainersAssumption DEF Container, NoId
    <2>2. stored[t] \subseteq vault[c.inst][t]
          BY <1>2, <1>3 DEF Found
    <2>3. vault[c.inst][t] \ Absent \subseteq vault'[c.inst][t]
          BY <1>1, <2>1 DEF Grown
    <2>4. stored[t] \subseteq vault'[c.inst][t]
          BY <1>2, <2>2, <2>3, ContainersAssumption DEF Absent
    <2> QED
          BY <1>3, <2>4 DEF Found
  <1>4. CASE ~(c.mode = "vault" /\ c.inst # NoId)
        BY <1>2, <1>4 DEF Found
  <1> QED
        BY <1>3, <1>4

(* A copy of a file that stays as it is stays right.                       *)
LEMMA SameCopy ==
    ASSUME NEW o \in Programs, file' = file, vault' = vault,
           edit'[o].new = edit[o].new, edit'[o].puts = edit[o].puts,
           Carries(edit[o].new, edit[o].puts), Follows(edit[o].new, edit[o].puts)
    PROVE  (Carries(edit[o].new, edit[o].puts) /\ Follows(edit[o].new, edit[o].puts))'
  <1>1. \A t \in Trees : /\ Found(edit[o].new, t)' = Found(edit[o].new, t)
                        /\ Found(file, t)' = Found(file, t)
        BY DEF Found
  <1>2. Carries(edit[o].new, edit[o].puts)'
        BY <1>1 DEF Carries
  <1>3. Follows(edit[o].new, edit[o].puts)'
        BY DEF Follows
  <1> QED
        BY <1>2, <1>3

LEMMA CarriesGrows ==
    ASSUME TypeOK, Grown, file' = file, file # NoFile,
           NEW c \in Container, NEW puts \in Placed, Carries(c, puts)
    PROVE  Carries(c, puts)'
  <1>1. CASE file.mode = "vault"
    <2>1. vault' = vault
          BY <1>1 DEF Grown
    <2> QED
          BY <2>1 DEF Carries, Found
  <1>2. CASE file.mode # "vault"
    <2>1. SUFFICES ASSUME NEW t \in Trees
                   PROVE  /\ puts[t] = Absent => Found(file, t) \ Absent \subseteq Found(c, t)'
                          /\ puts[t] # Absent => puts[t] \subseteq Found(c, t)'
          BY <1>2 DEF Carries, Found
    <2>2. /\ puts[t] = Absent => Found(file, t) \ Absent \subseteq Found(c, t)
          /\ puts[t] # Absent => puts[t] \subseteq Found(c, t)
          BY DEF Carries
    <2>3. puts[t] # Absent => puts[t] \subseteq Keys
          BY DEF Placed, Tree
    <2>4. Found(c, t) \ Absent \subseteq Found(c, t)'
      <3>1. CASE c.mode = "vault" /\ c.inst # NoId
        <4>1. c.inst \in 1..MaxIds
              BY <3>1, ContainersAssumption DEF Container, NoId
        <4>2. vault[c.inst][t] \ Absent \subseteq vault'[c.inst][t]
              BY <4>1 DEF Grown
        <4> QED
              BY <3>1, <4>2 DEF Found
      <3>2. CASE ~(c.mode = "vault" /\ c.inst # NoId)
        <4>1. Found(c, t)' = Found(c, t)
              BY <3>2 DEF Found
        <4> QED
              BY <4>1
      <3> QED
            BY <3>1, <3>2
    <2>5. puts[t] = Absent => Found(file, t) \ Absent \subseteq Found(c, t)'
          BY <2>2, <2>4
    <2>6. puts[t] # Absent => puts[t] \subseteq Found(c, t)'
          BY <2>2, <2>3, <2>4, ContainersAssumption DEF Absent
    <2> QED
          BY <2>5, <2>6
  <1> QED
        BY <1>1, <1>2

LEMMA EditTypes ==
    ASSUME TypeOK, EditStep
    PROVE  TypeOK'
  <1>1. PICK by \in Programs, c \in Container, puts \in Placed,
             asks \in SUBSET Perms, drops \in BOOLEAN : Edit(by, c, puts, asks, drops)
        BY DEF EditStep
  <1> DEFINE e == [stale |-> FALSE, new |-> c, asks |-> asks, drops |-> drops,
                   puts |-> IF lost \/ drops THEN NoTrees ELSE puts]
  <1>2. NoTrees \in Placed
        BY DEF NoTrees, Placed, Tree
  <1>3. e \in Pending
        BY <1>2 DEF Pending
  <1>4. edit' = [edit EXCEPT ![by] = e]
        BY <1>1 DEF Edit
  <1> HIDE DEF e
  <1>5. edit' \in [Programs -> Pending \cup {NoEdit}]
        BY <1>3, <1>4 DEF TypeOK
  <1> QED
        BY <1>5 DEF TypeOK, EditStep, Grown

LEMMA EditKeeps ==
    ASSUME Inv, EditStep
    PROVE  Inv'
  <1>1. TypeOK'
        BY EditTypes DEF Inv
  <1>2. NoDumps'
        BY DEF Inv, NoDumps, EditStep, Grown
  <1>3. FileOK'
    <2>1. SUFFICES ASSUME ~lost PROVE Kept(file, mine)'
          BY DEF Inv, FileOK, EditStep, Kept, Packs, Verify, Digests, Sound
    <2>2. file \in Container /\ Kept(file, mine) /\ mine \in Stored
          BY <2>1 DEF Inv, TypeOK, FileOK, EditStep
    <2>3. PICK c \in Container, m \in Stored : c = file /\ m = mine
          BY <2>2
    <2>4. Kept(c, m)'
          BY <2>2, <2>3, KeptGrows DEF Inv, EditStep
    <2>5. file' = c /\ mine' = m
          BY <2>3 DEF EditStep
    <2> QED
          BY <2>4, <2>5 DEF Kept, Found
  <1>4. CopyOK'
    <2>1. PICK by \in Programs, c \in Container, puts \in Placed,
               asks \in SUBSET Perms, drops \in BOOLEAN :
            /\ Edit(by, c, puts, asks, drops)
            /\ Sound(c)
            /\ c.perms \subseteq agreed \cup asks
            /\ ~lost /\ ~drops => Carries(c, puts)' /\ Follows(c, puts)
          BY DEF EditStep
    <2> DEFINE e == [stale |-> FALSE, new |-> c, asks |-> asks, drops |-> drops,
                     puts |-> IF lost \/ drops THEN NoTrees ELSE puts]
    <2>2. edit' = [edit EXCEPT ![by] = e]
          BY <2>1 DEF Edit
    <2>3. SUFFICES ASSUME NEW o \in Programs, edit'[o] # NoEdit
                   PROVE  /\ (file # NoFile)'
                          /\ Sound(edit[o].new)'
                          /\ (edit[o].new.perms \subseteq agreed \cup edit[o].asks)'
                          /\ (~lost /\ ~edit[o].drops /\ ~edit[o].stale =>
                                Carries(edit[o].new, edit[o].puts)
                                /\ Follows(edit[o].new, edit[o].puts))'
          BY DEF CopyOK
    <2>4. CASE o = by
      <3>1. edit'[o] = e
            BY <2>2, <2>4 DEF Inv, TypeOK
      <3>2. (~lost /\ ~edit[o].drops /\ ~edit[o].stale =>
              Carries(edit[o].new, edit[o].puts) /\ Follows(edit[o].new, edit[o].puts))'
        <4>1. SUFFICES ASSUME ~lost, ~drops
                       PROVE  (Carries(edit[o].new, edit[o].puts)
                               /\ Follows(edit[o].new, edit[o].puts))'
              BY <3>1 DEF EditStep
        <4>2. edit'[o].new = c /\ edit'[o].puts = puts
              BY <3>1, <4>1
        <4>3. Carries(c, puts)' /\ Follows(c, puts) /\ file' = file
              BY <2>1, <4>1 DEF EditStep
        <4>4. Carries(edit[o].new, edit[o].puts)'
              BY <4>2, <4>3 DEF Carries, Found
        <4>5. Follows(edit[o].new, edit[o].puts)'
              BY <4>2, <4>3 DEF Follows
        <4> QED
              BY <4>4, <4>5
      <3> QED
            BY <2>1, <3>1, <3>2 DEF EditStep, Sound
    <2>5. CASE o # by
      <3>1. edit'[o] = edit[o] /\ edit[o] # NoEdit
            BY <2>2, <2>3, <2>5 DEF Inv, TypeOK
      <3>2. edit[o] \in Pending
            BY <3>1 DEF Inv, TypeOK
      <3>3. PICK x \in Pending : x = edit[o]
            BY <3>2
      <3>4. /\ Sound(x.new) /\ x.new.perms \subseteq agreed \cup x.asks
            /\ ~lost /\ ~x.drops /\ ~x.stale => Carries(x.new, x.puts) /\ Follows(x.new, x.puts)
            BY <3>1, <3>3 DEF Inv, CopyOK
      <3>5. x.new \in Container /\ x.puts \in Placed
            BY DEF Pending
      <3>6. ~lost /\ ~x.drops /\ ~x.stale => Carries(x.new, x.puts)'
            BY <3>4, <3>5, CarriesGrows DEF Inv, EditStep
      <3>7. edit'[o] = x /\ file' = file /\ agreed' = agreed /\ lost' = lost
            BY <3>1, <3>3 DEF EditStep
      <3>8. Sound(edit[o].new)' /\ (edit[o].new.perms \subseteq agreed \cup edit[o].asks)'
            BY <3>4, <3>7 DEF Sound
      <3>9. ~lost /\ ~x.drops /\ ~x.stale => Carries(edit[o].new, edit[o].puts)'
            BY <3>6, <3>7 DEF Carries, Found
      <3>10. ~lost /\ ~x.drops /\ ~x.stale => Follows(edit[o].new, edit[o].puts)'
            BY <3>4, <3>7 DEF Follows
      <3> QED
            BY <3>7, <3>8, <3>9, <3>10 DEF EditStep
    <2> QED
          BY <2>4, <2>5
  <1> QED
        BY <1>1, <1>2, <1>3, <1>4 DEF Inv

-----------------------------------------------------------------------------
(* Each operation is such a step.                                          *)

LEMMA FileIs ==
    ASSUME Inv, file # NoFile
    PROVE  /\ file \in Container /\ Sound(file)
           /\ file.perms \subseteq agreed
           /\ ~lost => Kept(file, mine)
           /\ mine \in Stored /\ agreed \in SUBSET Perms
  BY DEF Inv, TypeOK, FileOK

LEMMA SameProgram ==
    ASSUME NEW c, NEW d, c.app = d.app, c.prog = d.prog, c.perms = d.perms, c.sig = d.sig,
           Sound(d)
    PROVE  Sound(c)
  BY DEF Sound

(* An operation that leaves the vault alone.                               *)
LEMMA Starts ==
    ASSUME Inv, file # NoFile,
           NEW by \in Programs, NEW c \in Container, NEW puts \in Placed,
           NEW asks \in SUBSET Perms, NEW drops \in BOOLEAN,
           Edit(by, c, puts, asks, drops),
           Sound(c), c.perms \subseteq agreed \cup asks,
           ~lost /\ ~drops => Carries(c, puts) /\ Follows(c, puts),
           UNCHANGED << file, vault, mine, agreed, lost >>, drawn' \in 0..MaxIds
    PROVE  EditStep
  <1>1. Grown
        BY DEF Grown, Inv, TypeOK
  <1>2. ~lost /\ ~drops => Carries(c, puts)'
        BY DEF Carries, Found
  <1> QED
        BY <1>1, <1>2 DEF EditStep

(* One that stores no tree itself.                                         *)
LEMMA Plain ==
    ASSUME NEW c, \A t \in Trees : Found(file, t) \ Absent \subseteq Found(c, t),
           c.mode = "vault" /\ file.mode = "vault" /\ file.inst # NoId => c.inst = file.inst
    PROVE  NoTrees \in Placed /\ Carries(c, NoTrees) /\ Follows(c, NoTrees)
  BY DEF NoTrees, Placed, Tree, Carries, Follows

LEMMA SignStarts ==
    ASSUME Inv, NEW by \in Programs, NEW k \in SigningKeys, Sign(by, k)
    PROVE  EditStep
  <1> DEFINE c == Signed(file, k)
  <1>1. file # NoFile
        BY DEF Sign, Opened
  <1>2. /\ c \in Container /\ c.prog = file.prog /\ c.perms = file.perms /\ c.app = file.app
        /\ c.sig.payload = << c.app, c.perms, c.prog >>
        /\ c.mode = file.mode /\ c.inst = file.inst
        /\ \A t \in Trees : Found(c, t) = Found(file, t)
        BY <1>1, FileIs, SignedIs
  <1>3. Sound(c)
        BY <1>1, <1>2, FileIs DEF Sound
  <1>4. NoTrees \in Placed /\ Carries(c, NoTrees) /\ Follows(c, NoTrees)
        BY <1>2, Plain
  <1>5. Edit(by, c, NoTrees, {}, FALSE)
        BY DEF Sign, Keeping
  <1>6. UNCHANGED << file, vault, drawn, mine, agreed, lost >>
        BY DEF Sign
  <1>7. drawn' \in 0..MaxIds
        BY <1>6 DEF Inv, TypeOK
  <1> HIDE DEF c
  <1> QED
        BY <1>1, <1>2, <1>3, <1>4, <1>5, <1>6, <1>7, FileIs, Starts

(* A signature that covers the program of newer attests what it will be    *)
(* next to.                                                                *)
LEMMA CoversIs ==
    ASSUME NEW newer \in Container, Covers(newer), newer.sig.key # NoKey
    PROVE  newer.sig.payload = << newer.app, newer.perms, newer.prog >>
  <1> DEFINE r == Refresh(newer)
  <1>1. Alike(r, newer) /\ r.digest = newer.prog
        BY Refreshed
  <1>2. SignatureStatus(r) # "invalid"
        BY DEF Covers
  <1> HIDE DEF r
  <1>3. r.sig.key # NoKey /\ r.sig.payload = newer.sig.payload
        BY <1>1 DEF Alike
  <1>4. newer.sig.payload = Payload(r)
        BY <1>2, <1>3 DEF SignatureStatus
  <1> QED
        BY <1>1, <1>4 DEF Payload, Alike

(* The data, the identity and the placement of c, the rest of newer.       *)
LEMMA UpdatedIs ==
    ASSUME NEW c \in Container, NEW newer \in Container, \A f \in Content[newer.prog] : RatioOk(f)
    PROVE  /\ Updated(c, newer) \in Container /\ Sound(Updated(c, newer))
           /\ Updated(c, newer).perms = newer.perms
           /\ Updated(c, newer).mode = c.mode /\ Updated(c, newer).inst = c.inst
           /\ \A t \in Trees : Found(Updated(c, newer), t) = Found(c, t)
  <1> DEFINE bad == ~Covers(newer)
             mark == [newer.sig EXCEPT !.mismatched = bad]
             n == [newer EXCEPT !.trees = c.trees, !.enc = c.enc, !.inst = c.inst,
                                !.mode = c.mode, !.protected = c.protected,
                                !.sig.mismatched = bad]
  <1>0. /\ mark \in Marks /\ mark.key = newer.sig.key /\ mark.payload = newer.sig.payload
        /\ mark.mismatched = bad
    <2>1. newer.sig \in Marks
          BY DEF Container
    <2>2. bad \in BOOLEAN
          OBVIOUS
    <2> HIDE DEF bad
    <2> QED
          BY <2>1, <2>2 DEF Marks
  <1>1. n \in Container
        BY <1>0 DEF Container
  <1>2. /\ n.app = newer.app /\ n.prog = newer.prog /\ n.perms = newer.perms
        /\ n.sig = mark /\ n.trees = c.trees /\ n.enc = c.enc /\ n.inst = c.inst
        /\ n.mode = c.mode /\ n.protected = c.protected
        BY DEF Container
  <1>3. Updated(c, newer) = Refresh(n)
        BY DEF Updated
  <1> HIDE DEF n
  <1>4. Refresh(n) \in Container /\ Alike(Refresh(n), n)
        BY <1>1, Refreshed
  <1>5. Sound(n)
    <2>1. ASSUME n.sig.key # NoKey, ~n.sig.mismatched
          PROVE  n.sig.payload = << n.app, n.perms, n.prog >>
      <3>1. newer.sig.key # NoKey /\ Covers(newer)
            BY <1>0, <1>2, <2>1
      <3>2. newer.sig.payload = << newer.app, newer.perms, newer.prog >>
            BY <3>1, CoversIs
      <3> QED
            BY <1>0, <1>2, <3>2
    <2>2. \A f \in Content[n.prog] : RatioOk(f)
          BY <1>2
    <2> QED
          BY <2>1, <2>2 DEF Sound
  <1>6. Sound(Refresh(n))
        BY <1>4, <1>5, AlikeSound
  <1>7. \A t \in Trees : Found(Refresh(n), t) = Found(c, t)
        BY <1>2, <1>4 DEF Alike, Found
  <1>8. /\ Refresh(n).perms = newer.perms
        /\ Refresh(n).mode = c.mode /\ Refresh(n).inst = c.inst
        BY <1>2, <1>4 DEF Alike
  <1> QED
        BY <1>3, <1>4, <1>6, <1>7, <1>8

LEMMA UpdateStarts ==
    ASSUME Inv, NEW by \in Programs, NEW newer \in Sources, Update(by, newer)
    PROVE  EditStep
  <1> DEFINE c == Updated(file, newer)
             asks == IF PermissionsWidened(file.perms, newer.perms) THEN newer.perms ELSE {}
  <1>1. /\ file # NoFile
        /\ Edit(by, c, NoTrees, asks, FALSE)
        /\ UNCHANGED << file, vault, drawn, mine, agreed, lost >>
        BY DEF Update, Opened
  <1>2. newer \in Container /\ \A f \in Content[newer.prog] : RatioOk(f)
        BY SourceIs
  <1>3. file \in Container /\ file.perms \subseteq agreed
        BY <1>1, FileIs
  <1>4. /\ c \in Container /\ Sound(c) /\ c.perms = newer.perms
        /\ c.mode = file.mode /\ c.inst = file.inst
        /\ \A t \in Trees : Found(c, t) = Found(file, t)
        BY <1>2, <1>3, UpdatedIs
  <1> HIDE DEF c
  <1>5. asks \in SUBSET Perms /\ c.perms \subseteq agreed \cup asks
        BY <1>2, <1>3, <1>4 DEF PermissionsWidened, Container
  <1> HIDE DEF asks
  <1>6. NoTrees \in Placed /\ Carries(c, NoTrees) /\ Follows(c, NoTrees)
        BY <1>4, Plain
  <1>7. drawn' \in 0..MaxIds
        BY <1>1 DEF Inv, TypeOK
  <1> QED
        BY <1>1, <1>3, <1>4, <1>5, <1>6, <1>7, Starts

LEMMA ProtectStarts ==
    ASSUME Inv, NEW by \in Programs, NEW pass \in Passes, Protect(by, pass)
    PROVE  EditStep
  <1> DEFINE env == [pass |-> pass, data |-> file.trees["default"]]
             c == [file EXCEPT !.trees["default"] = Absent, !.protected = TRUE, !.enc = env]
             drops == file.enc # NoEnvelope
  <1>1. /\ file # NoFile /\ ~file.protected
        /\ Edit(by, c, NoTrees, {}, drops)
        /\ UNCHANGED << file, vault, drawn, mine, agreed, lost >>
        BY DEF Protect, Opened
  <1>2. file \in Container /\ Sound(file) /\ file.perms \subseteq agreed
        BY <1>1, FileIs
  <1>3. env \in Envelopes
        BY <1>2 DEF Container, Placed, Trees, Envelopes
  <1>4. env.data = file.trees["default"]
        OBVIOUS
  <1> HIDE DEF env
  <1>5. [file.trees EXCEPT !["default"] = Absent] \in Placed
        BY <1>2 DEF Container, Placed, Tree
  <1>6. c \in Container
        BY <1>2, <1>3, <1>5 DEF Container
  <1>7. /\ c.app = file.app /\ c.prog = file.prog /\ c.perms = file.perms
        /\ c.sig = file.sig /\ c.mode = file.mode /\ c.inst = file.inst
        /\ c.protected /\ c.enc = env
        /\ c.trees = [file.trees EXCEPT !["default"] = Absent]
        BY <1>2 DEF Container
  <1> HIDE DEF c
  <1>8. \A t \in Trees : t # "default" => c.trees[t] = file.trees[t]
        BY <1>2, <1>7 DEF Container, Placed
  <1>9. \A t \in Trees : Found(c, t) = Found(file, t)
        BY <1>1, <1>4, <1>7, <1>8 DEF Found
  <1>10. Sound(c)
        BY <1>2, <1>7, SameProgram
  <1>11. NoTrees \in Placed /\ Carries(c, NoTrees) /\ Follows(c, NoTrees)
        BY <1>7, <1>9, Plain
  <1>12. drawn' \in 0..MaxIds
        BY <1>1 DEF Inv, TypeOK
  <1>13. drops \in BOOLEAN /\ c.perms \subseteq agreed \cup {}
        BY <1>2, <1>7
  <1> HIDE DEF drops
  <1> QED
        BY <1>1, <1>2, <1>6, <1>10, <1>11, <1>12, <1>13, Starts

LEMMA UnprotectStarts ==
    ASSUME Inv, NEW by \in Programs, NEW pass \in Passes, Unprotect(by, pass)
    PROVE  EditStep
  <1> DEFINE c == [file EXCEPT !.trees["default"] = file.enc.data, !.protected = FALSE,
                               !.enc = NoEnvelope]
             drops == file.trees["default"] # Absent
  <1>1. /\ file # NoFile
        /\ Edit(by, c, NoTrees, {}, drops)
        /\ UNCHANGED << file, vault, drawn, mine, agreed, lost >>
        BY DEF Unprotect, Opened
  <1>2. file \in Container /\ Sound(file) /\ file.perms \subseteq agreed
        BY <1>1, FileIs
  <1>3. file.enc.data \in Tree /\ NoEnvelope \in Envelopes
        BY <1>2 DEF Container, Envelopes, NoEnvelope, Tree
  <1>4. [file.trees EXCEPT !["default"] = file.enc.data] \in Placed
        BY <1>2, <1>3 DEF Container, Placed
  <1>5. c \in Container
        BY <1>2, <1>3, <1>4 DEF Container
  <1>6. /\ c.app = file.app /\ c.prog = file.prog /\ c.perms = file.perms
        /\ c.sig = file.sig /\ c.mode = file.mode /\ c.inst = file.inst
        /\ ~c.protected
        /\ c.trees = [file.trees EXCEPT !["default"] = file.enc.data]
        BY <1>2 DEF Container
  <1> HIDE DEF c
  <1>7. /\ \A t \in Trees : t # "default" => c.trees[t] = file.trees[t]
        /\ c.trees["default"] = file.enc.data
        BY <1>2, <1>6 DEF Container, Placed, Trees
  <1>8. ~drops => \A t \in Trees : Found(file, t) \ Absent \subseteq Found(c, t)
    <2>1. SUFFICES ASSUME ~drops, NEW t \in Trees
                   PROVE  Found(file, t) \ Absent \subseteq Found(c, t)
          OBVIOUS
    <2>2. CASE file.mode = "vault" \/ t # "default" \/ file.protected
          BY <1>6, <1>7, <2>2 DEF Found
    <2>3. CASE file.mode # "vault" /\ t = "default" /\ ~file.protected
          BY <2>1, <2>3 DEF Found
    <2> QED
          BY <2>2, <2>3
  <1>9. Sound(c)
        BY <1>2, <1>6, SameProgram
  <1>10. drawn' \in 0..MaxIds
        BY <1>1 DEF Inv, TypeOK
  <1>11. drops \in BOOLEAN /\ c.perms \subseteq agreed \cup {}
        BY <1>2, <1>6
  <1> HIDE DEF drops
  <1>12. NoTrees \in Placed /\ (~drops => Carries(c, NoTrees) /\ Follows(c, NoTrees))
        BY <1>6, <1>8, Plain DEF NoTrees, Placed, Tree
  <1> QED
        BY <1>1, <1>2, <1>5, <1>9, <1>10, <1>11, <1>12, Starts

(* An identity is drawn for a container that has none.                     *)
LEMMA IdentifiedIs ==
    ASSUME Inv, file # NoFile, DrawFor(file)
    PROVE  /\ drawn' \in 0..MaxIds
           /\ Identified(file) \in Container /\ Sound(Identified(file))
           /\ Identified(file).inst \in 1..MaxIds
           /\ Identified(file).perms = file.perms /\ Identified(file).mode = file.mode
           /\ Identified(file).trees = file.trees /\ Identified(file).enc = file.enc
           /\ Identified(file).protected = file.protected
  <1> DEFINE c == Identified(file)
  <1>1. /\ file \in Container /\ Sound(file) /\ drawn \in 0..MaxIds /\ MaxIds \in Nat
        BY FileIs, ContainersAssumption DEF Inv, TypeOK
  <1>2. CASE file.inst = NoId
    <2>1. drawn + 1 \in 1..MaxIds /\ drawn' \in 0..MaxIds
          BY <1>1, <1>2 DEF DrawFor
    <2>2. c = [file EXCEPT !.inst = drawn + 1]
          BY <1>2 DEF Identified
    <2>3. drawn + 1 \in 0..MaxIds
          BY <1>1, <2>1
    <2>4. c \in Container
          BY <1>1, <2>2, <2>3 DEF Container
    <2>5. /\ c.app = file.app /\ c.prog = file.prog /\ c.perms = file.perms
          /\ c.sig = file.sig /\ c.mode = file.mode /\ c.trees = file.trees
          /\ c.enc = file.enc /\ c.protected = file.protected /\ c.inst = drawn + 1
          BY <1>1, <2>2 DEF Container
    <2>6. Sound(c)
          BY <1>1, <2>5, SameProgram
    <2> QED
          BY <2>1, <2>4, <2>5, <2>6
  <1>3. CASE file.inst # NoId
    <2>1. file.inst \in 1..MaxIds
          BY <1>1, <1>3 DEF Container, NoId
    <2> QED
          BY <1>1, <1>3, <2>1 DEF Identified, DrawFor
  <1> QED
        BY <1>2, <1>3

LEMMA FirstOpenStarts ==
    ASSUME Inv, NEW by \in Programs, FirstOpen(by)
    PROVE  EditStep
  <1> DEFINE c == Identified(file)
  <1>1. /\ file # NoFile /\ file.inst = NoId /\ DrawFor(file)
        /\ Edit(by, c, NoTrees, {}, FALSE)
        /\ UNCHANGED << file, vault, mine, agreed, lost >>
        BY DEF FirstOpen, Opened, Keeping
  <1>2. file.perms \subseteq agreed
        BY <1>1, FileIs
  <1>3. /\ drawn' \in 0..MaxIds
        /\ c \in Container /\ Sound(c) /\ c.perms = file.perms /\ c.mode = file.mode
        /\ c.trees = file.trees /\ c.enc = file.enc /\ c.protected = file.protected
        BY <1>1, IdentifiedIs
  <1> HIDE DEF c
  <1>4. \A t \in Trees : Found(file, t) \subseteq Found(c, t)
        BY <1>1, <1>3 DEF Found
  <1>5. NoTrees \in Placed /\ Carries(c, NoTrees) /\ Follows(c, NoTrees)
        BY <1>1, <1>4, Plain
  <1> QED
        BY <1>1, <1>2, <1>3, <1>5, Starts

LEMMA DownloadStarts ==
    ASSUME Inv, NEW by \in Programs, NEW keys \in SUBSET Keys, NEW sql \in SUBSET Keys,
           Download(by, keys, sql)
    PROVE  EditStep
  <1> DEFINE id == Identified(file)
             trees == [file.trees EXCEPT !["default"] = keys,
                                         !["sql"] = IF sql = {} THEN @ ELSE sql]
             puts == [NoTrees EXCEPT !["default"] = keys,
                                     !["sql"] = IF sql = {} THEN Absent ELSE sql]
             c == [id EXCEPT !.trees = trees]
             drops == file.protected
  <1>1. /\ file # NoFile /\ file.mode = "embedded" /\ DrawFor(file)
        /\ Edit(by, c, puts, {}, drops)
        /\ UNCHANGED << file, vault, mine, agreed, lost >>
        BY DEF Download, Opened
  <1>2. file \in Container /\ file.perms \subseteq agreed
        BY <1>1, FileIs
  <1>3. /\ drawn' \in 0..MaxIds
        /\ id \in Container /\ Sound(id) /\ id.perms = file.perms /\ id.mode = file.mode
        /\ id.protected = file.protected
        BY <1>1, IdentifiedIs
  <1> HIDE DEF id
  <1>4. file.trees \in [Trees -> Tree] /\ NoTrees \in [Trees -> Tree]
        BY <1>2 DEF Container, Placed, NoTrees, Tree
  <1>5. keys \in Tree /\ sql \in Tree /\ Absent \in Tree
        BY DEF Tree
  <1>6. trees \in [Trees -> Tree] /\ puts \in [Trees -> Tree]
        BY <1>4, <1>5
  <1>7. keys # Absent /\ sql # Absent
        BY ContainersAssumption DEF Absent
  <1>8. /\ trees["default"] = keys /\ puts["default"] = keys
        /\ \A t \in Trees : t # "default" =>
             \/ puts[t] = Absent /\ trees[t] = file.trees[t]
             \/ puts[t] # Absent /\ trees[t] = puts[t]
        BY <1>4, <1>7 DEF Trees, NoTrees
  <1> HIDE DEF trees, puts
  <1>9. trees \in Placed /\ puts \in Placed
        BY <1>6 DEF Placed
  <1>10. c \in Container
        BY <1>3, <1>9 DEF Container
  <1>11. /\ c.app = id.app /\ c.prog = id.prog /\ c.perms = id.perms /\ c.sig = id.sig
         /\ c.mode = "embedded" /\ c.trees = trees /\ c.protected = file.protected
        BY <1>1, <1>3 DEF Container
  <1> HIDE DEF c
  <1>12. Sound(c)
        BY <1>3, <1>11, SameProgram
  <1>13. ~drops => Carries(c, puts) /\ Follows(c, puts)
    <2>1. SUFFICES ASSUME ~file.protected PROVE Carries(c, puts) /\ Follows(c, puts)
          OBVIOUS
    <2>2. \A t \in Trees : Found(c, t) = trees[t] /\ Found(file, t) = file.trees[t]
          BY <1>1, <1>11, <2>1 DEF Found
    <2>3. ASSUME NEW t \in Trees
          PROVE  /\ puts[t] = Absent => Found(file, t) \ Absent \subseteq Found(c, t)
                 /\ puts[t] # Absent => puts[t] \subseteq Found(c, t)
      <3>1. CASE t = "default"
            BY <1>7, <1>8, <2>2, <3>1
      <3>2. CASE t # "default"
            BY <1>8, <2>2, <3>2
      <3> QED
            BY <3>1, <3>2
    <2>4. Carries(c, puts)
          BY <2>3 DEF Carries
    <2>5. Follows(c, puts)
          BY <1>11 DEF Follows
    <2> QED
          BY <2>4, <2>5
  <1>14. drops \in BOOLEAN /\ c.perms \subseteq agreed \cup {}
        BY <1>2, <1>3, <1>11 DEF Container
  <1> HIDE DEF drops
  <1> QED
        BY <1>1, <1>3, <1>9, <1>10, <1>12, <1>13, <1>14, Starts

LEMMA ToVaultStarts ==
    ASSUME Inv, NEW by \in Programs, ToVault(by)
    PROVE  EditStep
  <1> DEFINE id == Identified(file)
             c == Moved(id, "vault")
             drops == file.enc # NoEnvelope \/ file.trees["sql"] # Absent
  <1>1. /\ file # NoFile /\ file.mode = "embedded" /\ DrawFor(file)
        /\ vault' = [vault EXCEPT ![id.inst] = Seeded(id)]
        /\ Edit(by, c, NoTrees, {}, drops)
        /\ UNCHANGED << file, mine, agreed, lost >>
        BY DEF ToVault, Opened
  <1>2. file \in Container /\ file.perms \subseteq agreed
        BY <1>1, FileIs
  <1>3. /\ drawn' \in 0..MaxIds
        /\ id \in Container /\ Sound(id) /\ id.perms = file.perms /\ id.mode = file.mode
        /\ id.protected = file.protected /\ id.trees = file.trees /\ id.inst \in 1..MaxIds
        BY <1>1, IdentifiedIs
  <1> HIDE DEF id
  <1>4. c = [id EXCEPT !.mode = "vault", !.trees = NoTrees, !.enc = NoEnvelope]
        BY <1>1, <1>3 DEF Moved
  <1>5. NoTrees \in Placed /\ NoEnvelope \in Envelopes /\ "vault" \in Modes
        BY DEF NoTrees, Placed, Tree, NoEnvelope, Envelopes, Modes
  <1>6. c \in Container
        BY <1>3, <1>4, <1>5 DEF Container
  <1>7. /\ c.app = id.app /\ c.prog = id.prog /\ c.perms = id.perms /\ c.sig = id.sig
        /\ c.mode = "vault" /\ c.inst = id.inst
        BY <1>3, <1>4 DEF Container
  <1> HIDE DEF c
  <1>8. Sound(c)
        BY <1>3, <1>7, SameProgram
  <1>9. vault \in [1..MaxIds -> Placed] /\ vault[id.inst] \in Placed /\ file.trees \in Placed
        BY <1>2, <1>3 DEF Inv, TypeOK, Container
  <1>10. \A t \in Trees : vault[id.inst][t] \in Tree /\ file.trees[t] \in Tree
        BY <1>9 DEF Placed
  <1>11. Seeded(id) \in Placed
    <2>1. SUFFICES ASSUME NEW t \in Trees, file.trees[t] # Absent
                   PROVE  (vault[id.inst][t] \ Absent) \cup file.trees[t] \in Tree
          BY <1>3, <1>10 DEF Seeded, Placed
    <2> QED
          BY <1>10, <2>1 DEF Tree
  <1>12. PICK x \in Container, v \in Placed : x = c /\ v = Seeded(id)
        BY <1>6, <1>11
  <1>13. v = [t \in Trees |-> IF t = "sql" \/ file.trees[t] = Absent THEN vault[id.inst][t]
                             ELSE (vault[id.inst][t] \ Absent) \cup file.trees[t]]
        BY <1>3, <1>12 DEF Seeded
  <1>14. /\ v["sql"] = vault[id.inst]["sql"]
         /\ \A t \in Trees : vault[id.inst][t] \ Absent \subseteq v[t]
         /\ \A t \in Trees : t # "sql" /\ file.trees[t] # Absent => file.trees[t] \subseteq v[t]
        BY <1>13 DEF Trees
  <1>15. x.inst = id.inst /\ x.inst \in 1..MaxIds /\ x.mode = "vault"
        BY <1>3, <1>7, <1>12
  <1>16. /\ vault' \in [1..MaxIds -> Placed]
         /\ vault'[x.inst] = v
         /\ \A i \in 1..MaxIds : i # x.inst => vault'[i] = vault[i]
        BY <1>1, <1>9, <1>12, <1>15
  <1>17. Grown
    <2>1. SUFFICES ASSUME NEW i \in 1..MaxIds
                   PROVE  /\ vault'[i]["sql"] = vault[i]["sql"]
                          /\ \A t \in Trees : vault[i][t] \ Absent \subseteq vault'[i][t]
          BY <1>1, <1>16 DEF Grown
    <2>2. CASE i = x.inst
          BY <1>14, <1>15, <1>16, <2>2
    <2>3. CASE i # x.inst
          BY <1>16, <2>3
    <2> QED
          BY <2>2, <2>3
  <1>18. ~drops => Carries(x, NoTrees)'
    <2>1. SUFFICES ASSUME ~drops, NEW t \in Trees
                   PROVE  Found(file, t)' \ Absent \subseteq Found(x, t)'
          BY DEF Carries, NoTrees
    <2>2. Found(x, t)' = v[t]
          BY <1>15, <1>16 DEF Found, NoId
    <2>3. Found(file, t)' = file.trees[t] \/ Found(file, t)' = Absent
          BY <1>1, <2>1 DEF Found, NoEnvelope
    <2>4. CASE Found(file, t)' \ Absent = {}
          BY <2>4
    <2>5. CASE Found(file, t)' = file.trees[t] /\ Found(file, t)' \ Absent # {}
      <3>1. t # "sql" /\ file.trees[t] # Absent
            BY <2>1, <2>5
      <3>2. file.trees[t] \subseteq v[t]
            BY <1>14, <3>1
      <3> QED
            BY <2>2, <2>5, <3>2
    <2> QED
          BY <2>3, <2>4, <2>5
  <1>19. drops \in BOOLEAN /\ x.perms \subseteq agreed \cup {} /\ Sound(x)
        BY <1>2, <1>3, <1>7, <1>8, <1>12
  <1>20. Edit(by, x, NoTrees, {}, drops)
        BY <1>1, <1>12
  <1>21. PICK d \in BOOLEAN, puts \in Placed : d = drops /\ puts = NoTrees
        BY <1>5, <1>19
  <1> HIDE DEF drops
  <1>22. Follows(x, puts)
        BY <1>1, <1>21 DEF Follows, NoTrees
  <1>23. Edit(by, x, puts, {}, d) /\ (~lost /\ ~d => Carries(x, puts)' /\ Follows(x, puts))
        BY <1>18, <1>20, <1>21, <1>22
  <1> QED
        BY <1>1, <1>3, <1>17, <1>19, <1>23 DEF EditStep

LEMMA ToEmbeddedStarts ==
    ASSUME Inv, NEW by \in Programs, ToEmbedded(by)
    PROVE  EditStep
  <1> DEFINE m == Moved(file, "embedded")
             trees == [t \in Trees |-> Exported(file, t)]
             c == [m EXCEPT !.trees = trees]
             drops == file.protected
  <1>1. /\ file # NoFile /\ file.mode = "vault" /\ file.inst # NoId
        /\ Edit(by, c, NoTrees, {}, drops)
        /\ UNCHANGED << file, vault, drawn, mine, agreed, lost >>
        BY DEF ToEmbedded, Opened
  <1>2. file \in Container /\ Sound(file) /\ file.perms \subseteq agreed
        BY <1>1, FileIs
  <1>3. file.inst \in 1..MaxIds
        BY <1>1, <1>2, ContainersAssumption DEF Container, NoId
  <1>4. /\ vault[file.inst] \in Placed /\ vault[file.inst]["sql"] = Absent
        BY <1>3 DEF Inv, TypeOK, NoDumps
  <1>5. trees \in Placed
        BY <1>2, <1>4 DEF Placed, Container, Exported
  <1>6. m = [file EXCEPT !.mode = "embedded"]
        BY <1>1 DEF Moved
  <1> HIDE DEF m
  <1>7. "embedded" \in Modes
        BY DEF Modes
  <1>8. m \in Container
        BY <1>2, <1>6, <1>7 DEF Container
  <1>9. /\ m.app = file.app /\ m.prog = file.prog /\ m.perms = file.perms
        /\ m.sig = file.sig /\ m.mode = "embedded" /\ m.protected = file.protected
        BY <1>2, <1>6 DEF Container
  <1>10. \A t \in Trees : trees[t] = Exported(file, t)
        OBVIOUS
  <1> HIDE DEF trees
  <1>11. c \in Container
        BY <1>5, <1>8 DEF Container
  <1>12. /\ c.app = file.app /\ c.prog = file.prog /\ c.perms = file.perms
         /\ c.sig = file.sig /\ c.mode = "embedded" /\ c.protected = file.protected
         /\ c.trees = trees
        BY <1>8, <1>9 DEF Container
  <1> HIDE DEF c
  <1>13. Sound(c)
        BY <1>2, <1>12, SameProgram
  <1>14. ~drops => \A t \in Trees : Found(file, t) \ Absent \subseteq Found(c, t)
    <2>1. SUFFICES ASSUME ~file.protected, NEW t \in Trees
                   PROVE  Found(file, t) \ Absent \subseteq Found(c, t)
          OBVIOUS
    <2>2. Found(c, t) = Exported(file, t)
          BY <1>10, <1>12, <2>1 DEF Found
    <2>3. Found(file, t) = vault[file.inst][t]
          BY <1>1 DEF Found
    <2>4. CASE t = "sql" \/ vault[file.inst][t] \ Absent = {}
          BY <1>4, <2>3, <2>4
    <2>5. CASE ~(t = "sql" \/ vault[file.inst][t] \ Absent = {})
          BY <2>2, <2>3, <2>5 DEF Exported
    <2> QED
          BY <2>4, <2>5
  <1>15. drawn' \in 0..MaxIds
        BY <1>1 DEF Inv, TypeOK
  <1>16. drops \in BOOLEAN /\ c.perms \subseteq agreed \cup {}
        BY <1>2, <1>12 DEF Container
  <1> HIDE DEF drops
  <1>17. NoTrees \in Placed /\ (~drops => Carries(c, NoTrees) /\ Follows(c, NoTrees))
        BY <1>12, <1>14, Plain DEF NoTrees, Placed, Tree
  <1> QED
        BY <1>1, <1>2, <1>11, <1>13, <1>15, <1>16, <1>17, Starts

LEMMA DuplicateStarts ==
    ASSUME Inv, NEW by \in Programs, Duplicate(by)
    PROVE  EditStep
  <1> DEFINE c == [file EXCEPT !.trees = NoTrees, !.enc = NoEnvelope, !.inst = NoId]
  <1>1. /\ file # NoFile
        /\ Edit(by, c, Nothing, {}, FALSE)
        /\ UNCHANGED << file, vault, drawn, mine, agreed, lost >>
        BY DEF Duplicate, Opened
  <1>2. file \in Container /\ Sound(file) /\ file.perms \subseteq agreed
        BY <1>1, FileIs
  <1>3. NoTrees \in Placed /\ NoEnvelope \in Envelopes /\ NoId \in 0..MaxIds
        BY ContainersAssumption DEF NoTrees, Placed, Tree, NoEnvelope, Envelopes, NoId
  <1>4. c \in Container
        BY <1>2, <1>3 DEF Container
  <1>5. /\ c.app = file.app /\ c.prog = file.prog /\ c.perms = file.perms /\ c.sig = file.sig
        BY <1>2 DEF Container
  <1> HIDE DEF c
  <1>6. Sound(c)
        BY <1>2, <1>5, SameProgram
  <1>7. Nothing \in Placed /\ Carries(c, Nothing) /\ Follows(c, Nothing)
        BY DEF Nothing, Placed, Tree, Absent, Carries, Follows
  <1>8. drawn' \in 0..MaxIds
        BY <1>1 DEF Inv, TypeOK
  <1> QED
        BY <1>1, <1>2, <1>4, <1>5, <1>6, <1>7, <1>8, Starts

(* Every operation on an existing file but a save starts with one.         *)
LEMMA EditSteps ==
    ASSUME Inv, NEW by \in Programs, Operation(by)
    PROVE  EditStep \/ Save(by) \/ Crash(by)
  <1>1. CASE \E k \in SigningKeys : Sign(by, k)
        BY <1>1, SignStarts
  <1>2. CASE \E newer \in Sources : Update(by, newer)
        BY <1>2, UpdateStarts
  <1>3. CASE \E pass \in Passes : Protect(by, pass) \/ Unprotect(by, pass)
        BY <1>3, ProtectStarts, UnprotectStarts
  <1>4. CASE \E keys, sql \in SUBSET Keys : Download(by, keys, sql)
        BY <1>4, DownloadStarts
  <1>5. CASE FirstOpen(by) \/ ToVault(by) \/ ToEmbedded(by) \/ Duplicate(by)
        BY <1>5, FirstOpenStarts, ToVaultStarts, ToEmbeddedStarts, DuplicateStarts
  <1> QED
        BY <1>1, <1>2, <1>3, <1>4, <1>5 DEF Operation

-----------------------------------------------------------------------------
(* The steps that remain.                                                  *)

LEMMA CreateKeeps ==
    ASSUME Inv, NEW c \in Container, c.sig.key = NoKey, ~c.protected, Create(c)
    PROVE  Inv'
  <1>1. /\ file = NoFile /\ SelfChecked(c) /\ file' = Refresh(c) /\ agreed' = c.perms
        /\ mine' = [t \in Trees |-> IF c.mode = "embedded" THEN c.trees[t] \ Absent ELSE {}]
        /\ UNCHANGED << vault, drawn, edits, edit, lost >>
        BY DEF Create
  <1>2. PICK r \in Container : r = Refresh(c)
        BY Refreshed
  <1>3. Alike(r, c) /\ r.digest = c.prog
        BY <1>2, Refreshed
  <1>4. \A t \in Trees : c.trees[t] \ Absent \in SUBSET Keys
        BY DEF Container, Placed, Tree
  <1>5. mine' \in Stored
        BY <1>1, <1>4 DEF Stored
  <1>6. c.perms \in SUBSET Perms
        BY DEF Container
  <1>7. TypeOK'
        BY <1>1, <1>2, <1>5, <1>6 DEF Inv, TypeOK
  <1>8. CopyOK'
        BY <1>1 DEF Inv, CopyOK
  <1>9. Sound(r)
    <2>1. Sound(c)
          BY Checked, <1>1 DEF Sound
    <2> QED
          BY <1>3, <2>1, AlikeSound
  <1>10. Packs(r) /\ Verify(r)
        BY <1>1, <1>3, Checked, AlikePacks DEF Verify, Digests, Alike
  <1>11. \A t \in Trees : mine'[t] \subseteq Found(r, t)'
    <2>1. SUFFICES ASSUME NEW t \in Trees, c.mode = "embedded"
                   PROVE  mine'[t] \subseteq Found(r, t)'
          BY <1>1
    <2>2. r.mode = "embedded" /\ ~r.protected /\ r.trees = c.trees
          BY <1>3, <2>1 DEF Alike
    <2>3. Found(r, t)' = c.trees[t]
          BY <2>2 DEF Found
    <2> QED
          BY <1>1, <2>1, <2>3
  <1>12. r.perms = c.perms
        BY <1>3 DEF Alike
  <1>13. file' = r
        BY <1>1, <1>2
  <1>14. (Sound(file) /\ Verify(file) /\ Packs(file))'
        BY <1>9, <1>10, <1>13 DEF Sound, Verify, Digests, Packs
  <1>15. Kept(file, mine)'
        BY <1>11, <1>13 DEF Kept, Found
  <1>16. FileOK'
        BY <1>1, <1>12, <1>13, <1>14, <1>15 DEF FileOK
  <1>17. NoDumps'
        BY <1>1 DEF Inv, NoDumps
  <1> QED
        BY <1>7, <1>8, <1>16, <1>17 DEF Inv

LEMMA StoreKeeps ==
    ASSUME Inv, NEW t \in Trees \ {"sql"}, NEW keys \in SUBSET Keys, Store(t, keys)
    PROVE  Inv'
  <1>1. /\ file # NoFile /\ file.mode = "vault" /\ file.inst # NoId
        /\ vault' = [vault EXCEPT ![file.inst][t] = keys]
        /\ mine' = IF lost THEN Nothing ELSE [mine EXCEPT ![t] = keys]
        /\ edit' = [by \in Programs |->
                     IF edit[by] = NoEdit THEN NoEdit
                     ELSE [edit[by] EXCEPT !.stale = @ \/ edit[by].new.mode # "vault"]]
        /\ UNCHANGED << file, drawn, edits, agreed, lost >>
        BY DEF Store
  <1>2. PICK f \in Container : f = file
        BY <1>1, FileIs
  <1>3. f.inst \in 1..MaxIds
        BY <1>1, <1>2, ContainersAssumption DEF Container, NoId
  <1>4. vault \in [1..MaxIds -> [Trees -> Tree]] /\ mine \in [Trees -> SUBSET Keys]
        BY DEF Inv, TypeOK, Placed, Stored
  <1>5. keys \in Tree
        BY DEF Tree
  <1>6. [vault[f.inst] EXCEPT ![t] = keys] \in [Trees -> Tree]
        BY <1>3, <1>4, <1>5
  <1>7. vault' = [vault EXCEPT ![f.inst] = [vault[f.inst] EXCEPT ![t] = keys]]
        BY <1>1, <1>2
  <1>8. vault' \in [1..MaxIds -> [Trees -> Tree]]
        BY <1>4, <1>6, <1>7
  <1>9. mine' \in [Trees -> SUBSET Keys]
        BY <1>1, <1>4 DEF Nothing
  <1>10. \A o \in Programs : edit'[o] # NoEdit =>
            /\ edit[o] # NoEdit /\ edit[o] \in Pending
            /\ \E b \in BOOLEAN : edit'[o] = [edit[o] EXCEPT !.stale = b]
            /\ ~edit'[o].stale => ~edit[o].stale /\ edit[o].new.mode = "vault"
    <2>1. SUFFICES ASSUME NEW o \in Programs, edit'[o] # NoEdit
                   PROVE  /\ edit[o] # NoEdit /\ edit[o] \in Pending
                          /\ \E b \in BOOLEAN : edit'[o] = [edit[o] EXCEPT !.stale = b]
                          /\ ~edit'[o].stale => ~edit[o].stale /\ edit[o].new.mode = "vault"
          OBVIOUS
    <2>2. /\ edit[o] # NoEdit
          /\ edit'[o] = [edit[o] EXCEPT !.stale = @ \/ edit[o].new.mode # "vault"]
          BY <1>1, <2>1
    <2>3. edit[o] \in Pending
          BY <2>2 DEF Inv, TypeOK
    <2>4. (edit[o].stale \/ edit[o].new.mode # "vault") \in BOOLEAN
          BY <2>3 DEF Pending
    <2>5. edit'[o].stale = (edit[o].stale \/ edit[o].new.mode # "vault")
          BY <2>2, <2>3 DEF Pending
    <2> QED
          BY <2>2, <2>3, <2>4, <2>5
  <1>11. \A o \in Programs : edit'[o] # NoEdit =>
            /\ edit'[o] \in Pending
            /\ edit'[o].new = edit[o].new /\ edit'[o].puts = edit[o].puts
            /\ edit'[o].asks = edit[o].asks /\ edit'[o].drops = edit[o].drops
    <2>1. SUFFICES ASSUME NEW o \in Programs, edit'[o] # NoEdit
                   PROVE  /\ edit'[o] \in Pending
                          /\ edit'[o].new = edit[o].new /\ edit'[o].puts = edit[o].puts
                          /\ edit'[o].asks = edit[o].asks /\ edit'[o].drops = edit[o].drops
          OBVIOUS
    <2>2. PICK x \in Pending : x = edit[o]
          BY <1>10, <2>1
    <2>3. PICK b \in BOOLEAN : edit'[o] = [x EXCEPT !.stale = b]
          BY <1>10, <2>1, <2>2
    <2>4. /\ [x EXCEPT !.stale = b] \in Pending
          /\ [x EXCEPT !.stale = b].new = x.new /\ [x EXCEPT !.stale = b].puts = x.puts
          /\ [x EXCEPT !.stale = b].asks = x.asks /\ [x EXCEPT !.stale = b].drops = x.drops
          BY DEF Pending
    <2> QED
          BY <2>2, <2>3, <2>4
  <1>12. edit' \in [Programs -> Pending \cup {NoEdit}]
        BY <1>1, <1>11
  <1>13. TypeOK'
        BY <1>1, <1>8, <1>9, <1>12 DEF Inv, TypeOK, Placed, Stored
  <1>14. NoDumps'
    <2>1. SUFFICES ASSUME NEW i \in 1..MaxIds PROVE vault'[i]["sql"] = Absent
          BY DEF NoDumps
    <2>2. "sql" \in Trees /\ "sql" # t /\ vault[i]["sql"] = Absent
          BY DEF Trees, Inv, NoDumps
    <2>3. CASE i = f.inst
      <3>1. vault'[i] = [vault[i] EXCEPT ![t] = keys]
            BY <1>3, <1>4, <1>7, <2>3
      <3>2. vault[i] \in [Trees -> Tree]
            BY <1>4
      <3> QED
            BY <2>2, <3>1, <3>2
    <2>4. CASE i # f.inst
          BY <1>4, <1>7, <2>2, <2>4
    <2> QED
          BY <2>3, <2>4
  <1>15. ~lost => Kept(f, mine)'
    <2>1. SUFFICES ASSUME ~lost, NEW u \in Trees PROVE mine'[u] \subseteq Found(f, u)'
          BY DEF Kept
    <2>2. Found(f, u)' = vault'[f.inst][u] /\ Found(file, u) = vault[f.inst][u]
          BY <1>1, <1>2 DEF Found
    <2>3. vault'[f.inst] = [vault[f.inst] EXCEPT ![t] = keys]
          BY <1>3, <1>4, <1>7
    <2>4. vault[f.inst] \in [Trees -> Tree]
          BY <1>3, <1>4
    <2>5. mine[u] \subseteq Found(file, u)
          BY <1>1, <2>1, FileIs DEF Kept
    <2>6. CASE u = t
          BY <1>1, <1>4, <2>1, <2>2, <2>3, <2>4, <2>6
    <2>7. CASE u # t
          BY <1>1, <1>4, <2>1, <2>2, <2>3, <2>4, <2>5, <2>7
    <2> QED
          BY <2>6, <2>7
  <1>16. file' = f
        BY <1>1, <1>2
  <1>17. (Sound(file) /\ Verify(file) /\ Packs(file))'
        BY <1>1 DEF Inv, FileOK, Sound, Verify, Digests, Packs
  <1>18. (~lost => Kept(file, mine))'
        BY <1>1, <1>15, <1>16 DEF Kept, Found
  <1>19. FileOK'
        BY <1>1, <1>17, <1>18, FileIs DEF FileOK
  <1>20. CopyOK'
    <2>1. SUFFICES ASSUME NEW o \in Programs, edit'[o] # NoEdit
                   PROVE  /\ (file # NoFile)'
                          /\ Sound(edit[o].new)'
                          /\ (edit[o].new.perms \subseteq agreed \cup edit[o].asks)'
                          /\ (~lost /\ ~edit[o].drops /\ ~edit[o].stale =>
                                Carries(edit[o].new, edit[o].puts)
                                /\ Follows(edit[o].new, edit[o].puts))'
          BY DEF CopyOK
    <2>2. PICK x \in Pending : x = edit[o]
          BY <1>10, <2>1
    <2>3. /\ Sound(x.new) /\ x.new.perms \subseteq agreed \cup x.asks
          /\ ~lost /\ ~x.drops /\ ~x.stale => Carries(x.new, x.puts) /\ Follows(x.new, x.puts)
          BY <1>10, <2>1, <2>2 DEF Inv, CopyOK
    <2>4. /\ edit'[o].new = x.new /\ edit'[o].puts = x.puts
          /\ edit'[o].asks = x.asks /\ edit'[o].drops = x.drops
          /\ ~edit'[o].stale => ~x.stale /\ x.new.mode = "vault"
          BY <1>10, <1>11, <2>1, <2>2
    <2>5. Sound(edit[o].new)' /\ (edit[o].new.perms \subseteq agreed \cup edit[o].asks)'
          BY <1>1, <2>3, <2>4 DEF Sound
    <2>6. ASSUME ~lost, ~x.drops, ~x.stale, x.new.mode = "vault"
          PROVE  (Carries(edit[o].new, edit[o].puts) /\ Follows(edit[o].new, edit[o].puts))'
      <3>1. Follows(edit[o].new, edit[o].puts)'
            BY <1>1, <2>3, <2>4, <2>6 DEF Follows
      <3>2. CASE \A u \in Trees : x.puts[u] = {}
        <4>1. \A u \in Trees : edit'[o].puts[u] = {} /\ {} # Absent
              BY <2>4, <3>2 DEF Absent
        <4>2. Carries(edit[o].new, edit[o].puts)'
              BY <4>1 DEF Carries
        <4> QED
              BY <3>1, <4>2
      <3>3. CASE /\ \A u \in Trees : x.puts[u] = Absent
                 /\ x.new.inst = f.inst
        <4>1. \A u \in Trees : Found(x.new, u)' = vault'[f.inst][u]
              BY <1>3, <2>6, <3>3 DEF Found, NoId
        <4>2. \A u \in Trees : Found(f, u)' = vault'[f.inst][u]
              BY <1>1, <1>2 DEF Found
        <4>3. \A u \in Trees : Found(f, u)' \ Absent \subseteq Found(x.new, u)'
              BY <4>1, <4>2
        <4>4. \A u \in Trees : Found(file, u)' \ Absent \subseteq Found(x.new, u)'
              BY <1>1, <1>2, <4>3 DEF Found
        <4>5. \A u \in Trees : Found(edit[o].new, u)' = Found(x.new, u)'
              BY <2>4 DEF Found
        <4>6. \A u \in Trees : edit'[o].puts[u] = Absent
              BY <2>4, <3>3
        <4>7. Carries(edit[o].new, edit[o].puts)'
              BY <4>4, <4>5, <4>6 DEF Carries
        <4> QED
              BY <3>1, <4>7
      <3> QED
            BY <1>1, <1>2, <2>3, <2>6, <3>1, <3>2, <3>3 DEF Follows
    <2> QED
          BY <1>1, <2>4, <2>5, <2>6
  <1> QED
        BY <1>14, <1>19, <1>20, <1>13 DEF Inv

LEMMA CrashKeeps ==
    ASSUME Inv, NEW by \in Programs, Crash(by)
    PROVE  Inv'
  <1>1. /\ edit' = [edit EXCEPT ![by] = NoEdit]
        /\ UNCHANGED << file, vault, drawn, edits, mine, agreed, lost >>
        BY DEF Crash
  <1>2. \A o \in Programs : edit'[o] = NoEdit \/ edit'[o] = edit[o]
        BY <1>1 DEF Inv, TypeOK
  <1>3. TypeOK'
        BY <1>1 DEF Inv, TypeOK
  <1>4. FileOK'
        BY <1>1 DEF Inv, FileOK, Sound, Verify, Digests, Packs, Kept, Found
  <1>5. CopyOK'
    <2>1. SUFFICES ASSUME NEW o \in Programs, edit'[o] # NoEdit
                   PROVE  /\ (file # NoFile)'
                          /\ Sound(edit[o].new)'
                          /\ (edit[o].new.perms \subseteq agreed \cup edit[o].asks)'
                          /\ (~lost /\ ~edit[o].drops /\ ~edit[o].stale =>
                                Carries(edit[o].new, edit[o].puts)
                                /\ Follows(edit[o].new, edit[o].puts))'
          BY DEF CopyOK
    <2>2. edit'[o] = edit[o] /\ edit[o] # NoEdit
          BY <1>2, <2>1
    <2>3. /\ file # NoFile /\ Sound(edit[o].new)
          /\ edit[o].new.perms \subseteq agreed \cup edit[o].asks
          /\ ~lost /\ ~edit[o].drops /\ ~edit[o].stale =>
               Carries(edit[o].new, edit[o].puts) /\ Follows(edit[o].new, edit[o].puts)
          BY <2>2 DEF Inv, CopyOK
    <2>4. Sound(edit[o].new)'
          BY <2>2, <2>3 DEF Sound
    <2>5. ASSUME ~lost, ~edit[o].drops, ~edit[o].stale
          PROVE  (Carries(edit[o].new, edit[o].puts) /\ Follows(edit[o].new, edit[o].puts))'
          BY <1>1, <2>2, <2>3, <2>5, SameCopy
    <2> QED
          BY <1>1, <2>2, <2>3, <2>4, <2>5
  <1>6. NoDumps'
        BY <1>1 DEF Inv, NoDumps
  <1> QED
        BY <1>3, <1>4, <1>5, <1>6 DEF Inv

LEMMA SaveKeeps ==
    ASSUME Inv, NEW by \in Programs, Save(by)
    PROVE  Inv'
  <1>1. CASE ~Packs(edit[by].new)
    <2>1. Crash(by)
          BY <1>1 DEF Save, Crash
    <2> QED
          BY <2>1, CrashKeeps
  <1>2. CASE Packs(edit[by].new)
    <2>1. PICK e \in Pending : e = edit[by]
          BY DEF Save, Inv, TypeOK
    <2>2. /\ file' = Refresh(e.new)
          /\ edit' = [o \in Programs |->
                        IF o = by \/ edit[o] = NoEdit THEN NoEdit
                        ELSE [edit[o] EXCEPT !.stale = @ \/ file' # file]]
          /\ agreed' = agreed \cup e.asks
          /\ lost' = (lost \/ e.drops \/ e.stale)
          /\ mine' = IF lost' THEN Nothing ELSE Overlaid(mine, e.puts)
          /\ UNCHANGED << vault, drawn >>
          BY <1>2, <2>1 DEF Save
    <2>3. /\ e # NoEdit /\ Packs(e.new) /\ Sound(e.new)
          /\ e.new.perms \subseteq agreed \cup e.asks
          /\ ~lost /\ ~e.drops /\ ~e.stale => Carries(e.new, e.puts)
          BY <1>2, <2>1 DEF Save, Inv, CopyOK
    <2>4. /\ e.new \in Container /\ e.puts \in Placed /\ e.asks \in SUBSET Perms
          /\ e.drops \in BOOLEAN /\ e.stale \in BOOLEAN
          BY DEF Pending
    <2>5. PICK r \in Container : r = Refresh(e.new)
          BY <2>4, Refreshed
    <2>6. Alike(r, e.new) /\ r.digest = r.prog
          BY <2>4, <2>5, Refreshed DEF Alike
    <2>7. file' = r
          BY <2>2, <2>5
    <2>8. \A o \in Programs : edit'[o] # NoEdit =>
             /\ edit[o] # NoEdit /\ edit[o] \in Pending /\ edit'[o] \in Pending
             /\ edit'[o].new = edit[o].new /\ edit'[o].puts = edit[o].puts
             /\ edit'[o].asks = edit[o].asks /\ edit'[o].drops = edit[o].drops
             /\ ~edit'[o].stale => ~edit[o].stale /\ file' = file
      <3>1. SUFFICES ASSUME NEW o \in Programs, edit'[o] # NoEdit
                     PROVE  /\ edit[o] # NoEdit /\ edit[o] \in Pending
                            /\ edit'[o] \in Pending
                            /\ edit'[o].new = edit[o].new /\ edit'[o].puts = edit[o].puts
                            /\ edit'[o].asks = edit[o].asks /\ edit'[o].drops = edit[o].drops
                            /\ ~edit'[o].stale => ~edit[o].stale /\ file' = file
            OBVIOUS
      <3>2. edit[o] # NoEdit /\ edit'[o] = [edit[o] EXCEPT !.stale = @ \/ file' # file]
            BY <2>2, <3>1
      <3>3. edit[o] \in Pending
            BY <3>2 DEF Inv, TypeOK
      <3>4. PICK b \in BOOLEAN : b = (edit[o].stale \/ file' # file)
        <4>1. edit[o].stale \in BOOLEAN
              BY <3>3 DEF Pending
        <4> QED
              BY <4>1
      <3>5. edit'[o] = [edit[o] EXCEPT !.stale = b]
            BY <3>2, <3>4
      <3>6. /\ edit'[o] \in Pending /\ edit'[o].stale = b
            /\ edit'[o].new = edit[o].new /\ edit'[o].puts = edit[o].puts
            /\ edit'[o].asks = edit[o].asks /\ edit'[o].drops = edit[o].drops
            BY <3>3, <3>5 DEF Pending
      <3> QED
            BY <3>2, <3>3, <3>4, <3>6
    <2>9. TypeOK'
      <3>1. edit' \in [Programs -> Pending \cup {NoEdit}]
            BY <2>2, <2>8
      <3>2. mine' \in Stored
        <4>1. Overlaid(mine, e.puts) \in Stored
              BY <2>4 DEF Overlaid, Placed, Tree, Stored, Inv, TypeOK
        <4> QED
              BY <2>2, <4>1 DEF Nothing, Stored
      <3>3. lost' \in BOOLEAN
            BY <2>2, <2>4 DEF Inv, TypeOK
      <3> QED
            BY <2>2, <2>4, <2>7, <3>1, <3>2, <3>3 DEF Inv, TypeOK
    <2>10. FileOK'
      <3>1. Sound(r) /\ Packs(r)
            BY <2>3, <2>6, AlikeSound, AlikePacks
      <3>2. (Sound(file) /\ Verify(file) /\ Packs(file))'
            BY <2>6, <2>7, <3>1 DEF Sound, Verify, Digests, Packs
      <3>3. (file.perms \subseteq agreed)'
            BY <2>2, <2>3, <2>6, <2>7 DEF Alike
      <3>4. lost' \/ Kept(file, mine)'
        <4>1. SUFFICES ASSUME ~lost' PROVE Kept(file, mine)'
              OBVIOUS
        <4>2. /\ ~lost /\ mine' = Overlaid(mine, e.puts)
              /\ Carries(e.new, e.puts)
              BY <2>2, <2>3, <4>1
        <4>3. mine \in Stored /\ Kept(file, mine)
              BY <4>2, FileIs, <2>1, <2>3 DEF Inv, CopyOK
        <4>4. ASSUME NEW t \in Trees
              PROVE  Overlaid(mine, e.puts)[t] \subseteq Found(r, t)
          <5>1. Found(r, t) = Found(e.new, t)
                BY <2>6, AlikeFound
          <5>2. CASE e.puts[t] = Absent
            <6>1. Overlaid(mine, e.puts)[t] = mine[t]
                  BY <5>2 DEF Overlaid
            <6>2. mine[t] \subseteq Found(file, t) /\ mine[t] \subseteq Keys
                  BY <4>3 DEF Kept, Stored
            <6>3. mine[t] \subseteq Found(file, t) \ Absent
                  BY <6>2, ContainersAssumption DEF Absent
            <6>4. Found(file, t) \ Absent \subseteq Found(e.new, t)
                  BY <4>2, <5>2 DEF Carries
            <6> QED
                  BY <5>1, <6>1, <6>3, <6>4
          <5>3. CASE e.puts[t] # Absent
            <6>1. Overlaid(mine, e.puts)[t] = e.puts[t]
                  BY <5>3 DEF Overlaid
            <6>2. e.puts[t] \subseteq Found(e.new, t)
                  BY <4>2, <5>3 DEF Carries
            <6> QED
                  BY <5>1, <6>1, <6>2
          <5> QED
                BY <5>2, <5>3
        <4> QED
              BY <2>2, <2>7, <4>2, <4>4 DEF Kept, Found
      <3> QED
            BY <3>2, <3>3, <3>4 DEF FileOK
    <2>11. CopyOK'
      <3>1. SUFFICES ASSUME NEW o \in Programs, edit'[o] # NoEdit
                     PROVE  /\ (file # NoFile)'
                            /\ Sound(edit[o].new)'
                            /\ (edit[o].new.perms \subseteq agreed \cup edit[o].asks)'
                            /\ (~lost /\ ~edit[o].drops /\ ~edit[o].stale =>
                                  Carries(edit[o].new, edit[o].puts)
                                  /\ Follows(edit[o].new, edit[o].puts))'
            BY DEF CopyOK
      <3>2. /\ edit[o] # NoEdit
            /\ edit'[o].new = edit[o].new /\ edit'[o].puts = edit[o].puts
            /\ edit'[o].asks = edit[o].asks /\ edit'[o].drops = edit[o].drops
            BY <2>8, <3>1
      <3>3. /\ Sound(edit[o].new) /\ edit[o].new.perms \subseteq agreed \cup edit[o].asks
            /\ ~lost /\ ~edit[o].drops /\ ~edit[o].stale =>
                 Carries(edit[o].new, edit[o].puts) /\ Follows(edit[o].new, edit[o].puts)
            BY <3>2 DEF Inv, CopyOK
      <3>4. file' # NoFile
            BY <2>7, FileIsNot
      <3>5. Sound(edit[o].new)'
            BY <3>2, <3>3 DEF Sound
      <3>6. (edit[o].new.perms \subseteq agreed \cup edit[o].asks)'
            BY <2>2, <3>2, <3>3
      <3>7. ASSUME ~lost', ~edit'[o].drops, ~edit'[o].stale
            PROVE  (Carries(edit[o].new, edit[o].puts) /\ Follows(edit[o].new, edit[o].puts))'
        <4>1. file' = file /\ ~edit[o].stale
              BY <2>8, <3>1, <3>7
        <4>2. Carries(edit[o].new, edit[o].puts) /\ Follows(edit[o].new, edit[o].puts)
              BY <2>2, <3>2, <3>3, <3>7, <4>1
        <4> QED
              BY <2>2, <3>2, <4>1, <4>2, SameCopy
      <3> QED
            BY <3>4, <3>5, <3>6, <3>7
    <2>12. NoDumps'
          BY <2>2 DEF Inv, NoDumps
    <2> QED
          BY <2>9, <2>10, <2>11, <2>12 DEF Inv
  <1> QED
        BY <1>1, <1>2

LEMMA Initially == Init => Inv
  <1>1. SUFFICES ASSUME Init PROVE Inv
        OBVIOUS
  <1>2. NoTrees \in Placed /\ Nothing \in Stored
        BY DEF NoTrees, Placed, Tree, Nothing, Stored
  <1>3. TypeOK
    <2>1. drawn \in 0..MaxIds
          BY <1>1, ContainersAssumption DEF Init
    <2>2. vault \in [1..MaxIds -> Placed]
          BY <1>1, <1>2 DEF Init
    <2>3. edit \in [Programs -> Pending \cup {NoEdit}]
          BY <1>1 DEF Init
    <2>4. file \in Container \cup {NoFile} /\ mine \in Stored /\ lost \in BOOLEAN
          BY <1>1, <1>2 DEF Init
    <2>5. agreed \in SUBSET Perms
          BY <1>1 DEF Init
    <2> QED
          BY <2>1, <2>2, <2>3, <2>4, <2>5 DEF TypeOK
  <1>4. NoDumps
        BY <1>1 DEF Init, NoDumps, NoTrees, Trees
  <1>5. FileOK /\ CopyOK
        BY <1>1 DEF Init, FileOK, CopyOK
  <1> QED
        BY <1>3, <1>4, <1>5 DEF Inv

LEMMA Steps == Inv /\ [Next]_vars => Inv'
  <1>1. SUFFICES ASSUME Inv, [Next]_vars PROVE Inv'
        OBVIOUS
  <1>2. ASSUME NEW p \in Projects, Pack(p) \/ Convert(p) PROVE Inv'
    <2>1. CASE Pack(p)
          BY <1>1, <2>1, FreshIs, CreateKeeps DEF Pack
    <2>2. CASE Convert(p)
          BY <1>1, <2>2, ConvertedIs, CreateKeeps DEF Convert
    <2> QED
          BY <1>2, <2>1, <2>2
  <1>3. ASSUME NEW by \in Programs, Operation(by) PROVE Inv'
        BY <1>1, <1>3, EditSteps, EditKeeps, SaveKeeps, CrashKeeps
  <1>4. ASSUME NEW t \in Trees \ {"sql"}, NEW keys \in SUBSET Keys, Store(t, keys)
        PROVE  Inv'
        BY <1>1, <1>4, StoreKeeps
  <1>5. CASE UNCHANGED vars
    <2>1. UNCHANGED << file, vault, drawn, edits, edit, mine, agreed, lost >>
          BY <1>5 DEF vars
    <2>2. TypeOK' /\ NoDumps'
          BY <1>1, <2>1 DEF Inv, TypeOK, NoDumps
    <2>3. FileOK'
      <3>1. Sound(file)' <=> Sound(file)
            BY <2>1 DEF Sound
      <3>2. Verify(file)' <=> Verify(file)
            BY <2>1 DEF Verify, Digests
      <3>3. Packs(file)' <=> Packs(file)
            BY <2>1 DEF Packs
      <3>4. Kept(file, mine)' <=> Kept(file, mine)
            BY <2>1 DEF Kept, Found
      <3> QED
          BY <1>1, <2>1, <3>1, <3>2, <3>3, <3>4 DEF Inv, FileOK
    <2>4. CopyOK'
          BY <1>1, <2>1 DEF Inv, CopyOK, Sound, Carries, Follows, Found
    <2> QED
          BY <2>2, <2>3, <2>4 DEF Inv
  <1> QED
        BY <1>1, <1>2, <1>3, <1>4, <1>5 DEF Next

-----------------------------------------------------------------------------
(* The theorems.                                                           *)

(* Whatever any number of programs do to the file, in any order, the       *)
(* invariant above holds.                                                  *)
THEOREM FileInvariant == Spec => []Inv
  BY Initially, Steps, PTL DEF Spec

(* What a project is built into are regular, deflated files.               *)
LEMMA BuiltFiles ==
    ASSUME NEW files, NEW kind, NEW f \in Built(files, kind)
    PROVE  f.kind = "file" /\ f.method = "deflated"
  <1> DEFINE path(g) == IF AtRoot(g) THEN g.path ELSE <<"app">> \o g.path
             placed(g) == [Index EXCEPT !.path = path(g), !.size = g.size, !.packed = g.packed,
                                        !.content = g.content, !.entries = g.entries]
  <1>1. \A g : placed(g).kind = "file" /\ placed(g).method = "deflated"
        BY DEF Index
  <1>2. f = Index \/ \E g : f = placed(g)
        BY DEF Built
  <1>3. Index.kind = "file" /\ Index.method = "deflated"
        BY DEF Index
  <1> QED
        BY <1>1, <1>2, <1>3

LEMMA ContentFiles ==
    ASSUME NEW prog \in Progs, NEW f \in Content[prog]
    PROVE  f.kind = "file" /\ f.method = "deflated"
  <1>1. prog \in {p.prog : p \in Projects}
        BY DEF Progs
  <1>2. PICK dir, kind : Content[prog] = Built(Collected(dir), kind)
        BY <1>1 DEF Content
  <1> QED
        BY <1>2, BuiltFiles

(* What pack accepted, open accepts, within the limits only open has.      *)
LEMMA PackedOpens ==
    ASSUME NEW c \in Container, Packs(c), \A f \in Content[c.prog] : RatioOk(f),
           \A f \in StateFiles(c) : RatioOk(f), WithinLimits(Manifest(c), Files(c))
    PROVE  Opens(c)
  <1>1. Validate(c) /\ WriterAccepts(Manifest(c), Files(c))
        BY DEF Packs
  <1>2. Admissible(Manifest(c), Files(c))
        BY <1>1 DEF WriterAccepts
  <1>3. \A f \in StateFiles(c) : f.kind = "file" /\ f.method = "deflated"
        BY DEF StateFiles, Index
  <1>4. \A f \in Content[c.prog] : f.kind = "file" /\ f.method = "deflated"
        BY ContentFiles DEF Container
  <1>5. \A f \in Files(c) : EntryOk(f, 1) /\ RatioOk(f)
        BY <1>3, <1>4 DEF Files, EntryOk
  <1>6. ReaderAccepts(Manifest(c), Files(c))
        BY <1>2, <1>5 DEF ReaderAccepts
  <1> QED
        BY <1>1, <1>6 DEF Opens

(* AlwaysConforms (read.rs, write.rs, signature.rs): the file always opens *)
(* and its digests match, the limits pack does not look at apart, and its  *)
(* signature is invalid only where an update took it over so.              *)
THEOREM FileConforms == Spec => []AlwaysConforms
  <1>1. ASSUME Inv, file # NoFile, \A f \in StateFiles(file) : RatioOk(f),
               WithinLimits(Manifest(file), Files(file))
        PROVE  /\ Opens(file) /\ Verify(file)
               /\ SignatureStatus(file) = "invalid" => file.sig.mismatched
    <2>1. /\ file \in Container /\ Sound(file) /\ Verify(file) /\ Packs(file)
          BY <1>1, FileIs DEF Inv, FileOK
    <2>2. Opens(file)
          BY <1>1, <2>1, PackedOpens DEF Sound
    <2>3. SignatureStatus(file) = "invalid" => file.sig.mismatched
          BY <2>1 DEF Sound, Verify, Digests, SignatureStatus, Payload
    <2> QED
          BY <2>1, <2>2, <2>3
  <1>2. Inv => AlwaysConforms
        BY <1>1 DEF AlwaysConforms
  <1> QED
        BY <1>2, FileInvariant, PTL

(* NothingProhibited (read.rs, scan_content): native code, links and names *)
(* that could escape stay out, at any depth.                               *)
THEOREM FileClean == Spec => []NothingProhibited
  <1>1. ASSUME Inv, file # NoFile PROVE file.prog \notin Prohibited
    <2>1. SUFFICES ASSUME NEW f \in Content[file.prog], NEW e \in {f} \cup f.entries
                   PROVE  /\ e.content # "native" /\ e.kind # "link"
                          /\ \A i \in DOMAIN e.path : e.path[i] # ".."
          BY DEF Prohibited
    <2>2. file \in Container /\ Packs(file)
          BY <1>1, FileIs DEF Inv, FileOK
    <2>3. f \in Files(file)
          BY DEF Files
    <2>4. PathOk(f.path) /\ Scan(f)
          BY <2>2, <2>3 DEF Packs, WriterAccepts, Admissible
    <2>5. CASE e = f
      <3>1. f.kind = "file"
            BY <2>2, ContentFiles DEF Container
      <3> QED
            BY <2>4, <2>5, <3>1 DEF Scan, ContentOk, PathOk
    <2>6. CASE e \in f.entries
          BY <2>4, <2>6 DEF Scan, InsideOk, ContentOk, EntryOk, PathOk
    <2> QED
          BY <2>1, <2>5, <2>6
  <1>2. Inv => NothingProhibited
        BY <1>1 DEF NothingProhibited
  <1> QED
        BY <1>2, FileInvariant, PTL

(* DataKept (update_program, convert.rs, protect.rs): what the user last   *)
(* stored is found, whatever was done to the file since.                   *)
THEOREM FileKeeps == Spec => []DataKept
  <1>1. Inv => DataKept
        BY DEF Inv, FileOK, Kept, DataKept
  <1> QED
        BY <1>1, FileInvariant, PTL

(* ConsentCovers (update_program): no permission comes in unreported.      *)
THEOREM FileConsent == Spec => []ConsentCovers
  <1>1. Inv => ConsentCovers
        BY DEF Inv, FileOK, ConsentCovers
  <1> QED
        BY <1>1, FileInvariant, PTL
=============================================================================

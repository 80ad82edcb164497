-------------------------- MODULE ConnectionsProofs --------------------------
(***************************************************************************)
(* Proofs about Connections, for any connections, documents, windows and   *)
(* number of credentials: type correctness and the three properties the    *)
(* run checks.                                                             *)
(***************************************************************************)
EXTENDS Connections, TLAPS

\* What the two unions of the types may be taken apart with.
LEMMA ConstantsDiffer ==
    /\ MaxSecrets \in Nat
    /\ Missing \notin Conns /\ Local \notin Conns /\ Local # Missing
    /\ Missing \notin Record /\ Missing \notin Docs
BY ConnectionsAssumption DEF Record, Secrets

\* A restart puts well-typed records into memory and file.
LEMMA RestartTyped ==
    ASSUME NEW records \in [Conns -> Record \union {Missing}], TypeOK, Restarted(records)
    PROVE  /\ recDisk' \in [Conns -> Record \union {Missing}]
           /\ rec' \in [Conns -> Record \union {Missing}]
           /\ bindDisk' \in [Docs -> Binding] /\ bind' \in [Docs -> Binding]
           /\ window' \in [Windows -> Window \union {Closed}]
           /\ lost' \subseteq Docs
BY DEF Restarted, TypeOK

LEMMA ForgottenTyped ==
    ASSUME TypeOK, NEW c \in Conns
    PROVE  Forgotten(c) \in [Docs -> Binding]
BY DEF TypeOK, Forgotten, Binding

LEMMA UpsertTyped ==
    ASSUME TypeOK, NEW c \in Conns, NEW kind \in Kinds, Upsert(c, kind)
    PROVE  TypeOK'
<1>1. drawn' \in 1..MaxSecrets /\ drawn' \in 0..MaxSecrets
  BY ConstantsDiffer DEF Upsert, TypeOK
<1>2. [kind |-> kind, target |-> drawn'] \in Record
  BY <1>1 DEF Record, Secrets
<1>3. /\ keychain' \in [Conns -> 0..MaxSecrets]
      /\ used' \subseteq Conns /\ removed' \subseteq Conns /\ cut' \subseteq Conns
  BY <1>1 DEF Upsert, TypeOK
<1>4. CASE /\ rec' = [rec EXCEPT ![c] = [kind |-> kind, target |-> drawn']]
           /\ recDisk' = rec' \/ UNCHANGED recDisk
           /\ HubOnly /\ UNCHANGED <<bind, bindDisk>>
  BY <1>1, <1>2, <1>3, <1>4 DEF TypeOK, HubOnly
<1>5. CASE Restarted(recDisk)
  BY <1>1, <1>3, <1>5, RestartTyped DEF TypeOK
<1> QED
  BY <1>4, <1>5 DEF Upsert

LEMMA RemoveTyped ==
    ASSUME TypeOK, NEW c \in Conns, Remove(c)
    PROVE  TypeOK'
<1> DEFINE without == [rec EXCEPT ![c] = Missing]
<1>1. without \in [Conns -> Record \union {Missing}] /\ [keychain EXCEPT ![c] = 0] \in [Conns -> 0..MaxSecrets]
  BY ConstantsDiffer DEF TypeOK
<1>2. CASE /\ rec' = without
           /\ HubOnly /\ UNCHANGED <<diskVars, bind, drawn, used, removed, cut>>
  BY <1>1, <1>2 DEF TypeOK, HubOnly, diskVars
<1>3. CASE /\ rec' = without /\ keychain' = [keychain EXCEPT ![c] = 0]
           /\ HubOnly /\ UNCHANGED <<recDisk, bind, bindDisk, drawn, used, removed, cut>>
  BY <1>1, <1>3 DEF TypeOK, HubOnly
<1>4. CASE /\ rec' = without /\ recDisk' = without /\ keychain' = [keychain EXCEPT ![c] = 0]
           /\ bind' = Forgotten(c)
           /\ \/ /\ bindDisk' = IF bind' = bind THEN bindDisk ELSE bind'
                 /\ removed' = removed \union {c}
              \/ bind' # bind /\ UNCHANGED <<bindDisk, removed>>
           /\ HubOnly /\ UNCHANGED <<drawn, used, cut>>
  BY <1>1, <1>4, ForgottenTyped DEF TypeOK, HubOnly
<1>5. CASE /\ keychain' = [keychain EXCEPT ![c] = 0]
           /\ Restarted(recDisk) \/ Restarted(without)
           /\ UNCHANGED <<drawn, used, removed, cut>>
  <2>1. \E records \in [Conns -> Record \union {Missing}] : Restarted(records)
    BY <1>1, <1>5 DEF TypeOK
  <2> HIDE DEF without
  <2> QED
    BY <1>1, <1>5, <2>1, RestartTyped DEF TypeOK
<1> QED
  BY <1>2, <1>3, <1>4, <1>5 DEF Remove

\* TypeOK: every variable keeps its shape, whatever fails.
THEOREM ConnectionsTypeCorrect == Spec => []TypeOK
<1>1. Init => TypeOK
  BY ConstantsDiffer DEF Init, TypeOK, Binding
<1>2. TypeOK /\ [Next]_vars => TypeOK'
  <2> SUFFICES ASSUME TypeOK, [Next]_vars PROVE TypeOK'
    OBVIOUS
  <2>1. CASE Restart
    BY <2>1, RestartTyped DEF Restart, TypeOK
  <2>2. ASSUME NEW c \in Conns, NEW kind \in Kinds, Upsert(c, kind) PROVE TypeOK'
    BY <2>2, UpsertTyped
  <2>3. ASSUME NEW c \in Conns, Rename(c) PROVE TypeOK'
    BY <2>3 DEF Rename, TypeOK, HubOnly
  <2>4. ASSUME NEW c \in Conns, Remove(c) PROVE TypeOK'
    BY <2>4, RemoveTyped
  <2>5. ASSUME NEW c \in Conns, LoseCredential(c) PROVE TypeOK'
    BY <2>5, ConstantsDiffer DEF LoseCredential, TypeOK, historyVars
  <2>6. ASSUME NEW w \in Windows, NEW f \in Window \union {Closed}, Set(w, f), WindowOnly
        PROVE TypeOK'
    BY <2>6 DEF Set, WindowOnly, TypeOK, diskVars, historyVars
  <2>7. ASSUME NEW w \in Windows, NEW d \in Docs, OpenDocument(w, d) PROVE TypeOK'
    <3>1. [Closed EXCEPT !.doc = d, !.stage = "asking"] \in Window
      BY DEF Closed, Window, Binding
    <3> QED
      BY <2>6, <2>7, <3>1 DEF OpenDocument
  <2>8. ASSUME NEW w \in Windows, Ask(w) PROVE TypeOK'
    <3>1. window[w] \in Window
      BY <2>8 DEF Ask, TypeOK, Closed
    <3>2. bind[window[w].doc] \in Binding
      BY <3>1 DEF TypeOK, Window
    <3>3. /\ [window[w] EXCEPT !.stage = "chosen", !.choice = bind[window[w].doc], !.offered = {}] \in Window
          /\ [window[w] EXCEPT !.stage = "prompt",
                               !.offered = {c \in Conns : Covers(c, "sql")}] \in Window
      BY <3>1, <3>2 DEF Window
    <3> QED
      BY <2>6, <2>8, <3>3 DEF Ask
  <2>9. ASSUME NEW w \in Windows, NEW b \in Conns \union {Local}, Choose(w, b) PROVE TypeOK'
    <3>1. window[w] \in Window
      BY <2>9 DEF Choose, TypeOK, Closed
    <3>2. [window[w] EXCEPT !.stage = "chosen", !.choice = b, !.offered = {}] \in Window
      BY <3>1 DEF Window, Binding
    <3> QED
      BY <2>6, <2>9, <3>2 DEF Choose
  <2>10. ASSUME NEW w \in Windows, Bind(w) PROVE TypeOK'
    <3>1. window[w] \in Window
      BY <2>10 DEF Bind, TypeOK, Closed
    <3>2. [window[w] EXCEPT !.stage = "running"] \in Window /\ window[w].choice \in Binding
      BY <3>1 DEF Window
    <3>3. bind' \in [Docs -> Binding] /\ bindDisk' \in [Docs -> Binding]
      BY <2>10, <3>2 DEF Bind, TypeOK
    <3> QED
      BY <2>10, <3>2, <3>3 DEF Bind, Set, TypeOK, historyVars
  <2>11. ASSUME NEW w \in Windows, CloseWindow(w) PROVE TypeOK'
    BY <2>6, <2>11 DEF CloseWindow
  <2>12. CASE UNCHANGED vars
    BY <2>12 DEF vars, diskVars, historyVars, TypeOK
  <2> QED
    BY <2>1, <2>2, <2>3, <2>4, <2>5, <2>7, <2>8, <2>9, <2>10, <2>11, <2>12 DEF Next
<1> QED
  BY <1>1, <1>2, PTL DEF Spec

(***************************************************************************)
(* A removed connection stays away.                                        *)
(***************************************************************************)

\* Every id with a record, in memory or in the file, has been drawn: Studio
\* does not use the id of a removed connection again.
Known ==
    /\ \A c \in Conns : rec[c] # Missing \/ recDisk[c] # Missing => c \in used
    /\ removed \subseteq used

\* What is in the file fits its credential as what is in memory does.
FileFits ==
    \A c \in Conns : recDisk[c] # Missing /\ Has(c) => recDisk[c].target = keychain[c] \/ c \in cut

RegistryInv == Known /\ RemovedIsGone /\ FitsUnlessCut /\ FileFits

\* The steps of a window touch the bindings alone.
LEMMA WindowSteps ==
    ASSUME TypeOK, NEW w \in Windows,
           \/ \E d \in Docs : OpenDocument(w, d)
           \/ \E b \in Conns \union {Local} : Choose(w, b)
           \/ Ask(w) \/ Bind(w) \/ CloseWindow(w)
    PROVE  /\ UNCHANGED <<keychain, recDisk, rec, used, removed, cut, lost>>
           /\ \A d \in Docs : \/ bind'[d] = bind[d]
                              \/ /\ window[w].stage = "chosen" /\ window[w].doc = d
                                 /\ bind'[d] = window[w].choice
                                 /\ bind'[d] = Local \/ Covers(bind'[d], "sql")
<1>1. CASE Bind(w)
  BY <1>1 DEF Bind, TypeOK, historyVars
<1>2. CASE ~Bind(w)
  <2>1. WindowOnly
    BY <1>2 DEF OpenDocument, Choose, Ask, CloseWindow
  <2> QED
    BY <2>1 DEF WindowOnly, diskVars, historyVars
<1> QED
  BY <1>1, <1>2

\* A restart takes everything from disk, where the same holds.
LEMMA RestartKeeps ==
    ASSUME TypeOK, RegistryInv, NEW records \in [Conns -> Record \union {Missing}],
           \A c \in Conns : records[c] \in {recDisk[c], rec[c], Missing},
           Restarted(records), UNCHANGED <<used, removed>>,
           \A c \in Conns : keychain'[c] \in {keychain[c], 0}, UNCHANGED cut
    PROVE  RegistryInv'
<1> USE DEF RegistryInv
<1>1. Known'
  BY ConstantsDiffer DEF Restarted, Known
<1>2. FitsUnlessCut' /\ FileFits'
  BY ConstantsDiffer DEF Restarted, FitsUnlessCut, FileFits, Has
<1>3. RemovedIsGone'
  <2>1. ASSUME NEW c \in removed', NEW d \in Docs, bind'[d] = c PROVE d \in lost'
    BY <2>1 DEF Restarted, RemovedIsGone
  <2>2. removed' \subseteq Conns
    BY DEF TypeOK
  <2>3. ASSUME NEW c \in removed' PROVE keychain'[c] = 0 /\ rec'[c] = Missing /\ recDisk'[c] = Missing
    BY <2>2 DEF Restarted, RemovedIsGone
  <2> QED
    BY <2>1, <2>3 DEF RemovedIsGone
<1> QED
  BY <1>1, <1>2, <1>3

LEMMA UpsertKeeps ==
    ASSUME TypeOK, RegistryInv, NEW c \in Conns, NEW kind \in Kinds, Upsert(c, kind)
    PROVE  RegistryInv'
<1> USE DEF RegistryInv
<1>1. c \notin removed /\ used' = used \union {c} /\ removed' = removed
  BY DEF Upsert, Known, RemovedIsGone, Covers
<1>2. \A x \in Conns \ {c} : keychain'[x] = keychain[x]
  BY DEF Upsert, TypeOK
<1>3. keychain'[c] = drawn'
  BY DEF Upsert, TypeOK
<1>4. CASE /\ rec' = [rec EXCEPT ![c] = [kind |-> kind, target |-> drawn']]
           /\ \/ recDisk' = rec' /\ cut' = cut \ {c}
              \/ UNCHANGED recDisk /\ cut' = cut \union {c}
           /\ HubOnly /\ UNCHANGED <<bind, bindDisk>>
  <2>1. rec'[c].target = drawn' /\ \A x \in Conns \ {c} : rec'[x] = rec[x]
    BY <1>4 DEF TypeOK
  <2>2. Known'
    BY <1>1, <1>4, <2>1 DEF Known
  <2>3. FitsUnlessCut'
    BY <1>2, <1>3, <1>4, <2>1 DEF FitsUnlessCut, Has
  <2>4. FileFits'
    <3>1. CASE recDisk' = rec' /\ cut' = cut \ {c}
      BY <1>2, <1>3, <2>1, <3>1 DEF FileFits, FitsUnlessCut, Has
    <3>2. CASE UNCHANGED recDisk /\ cut' = cut \union {c}
      BY <1>2, <3>2 DEF FileFits, Has
    <3> QED
      BY <1>4, <3>1, <3>2
  <2>5. RemovedIsGone'
    BY <1>1, <1>2, <1>4, <2>1 DEF RemovedIsGone, TypeOK, HubOnly
  <2> QED
    BY <2>2, <2>3, <2>4, <2>5
<1>5. CASE Restarted(recDisk) /\ cut' = cut \union {c}
  <2>1. Known'
    BY <1>1, <1>5 DEF Known, Restarted
  <2>2. FitsUnlessCut' /\ FileFits'
    BY <1>2, <1>5 DEF FitsUnlessCut, FileFits, Has, Restarted
  <2>3. RemovedIsGone'
    <3>1. ASSUME NEW x \in removed PROVE x \in Conns \ {c}
      BY <1>1, <3>1 DEF TypeOK
    <3>2. ASSUME NEW x \in removed, NEW d \in Docs, bind'[d] = x PROVE d \in lost'
      BY <1>5, <3>2 DEF Restarted, RemovedIsGone
    <3> QED
      BY <1>1, <1>2, <1>5, <3>1, <3>2 DEF RemovedIsGone, Restarted
  <2> QED
    BY <2>1, <2>2, <2>3
<1> QED
  BY <1>4, <1>5 DEF Upsert

LEMMA RemoveKeeps ==
    ASSUME TypeOK, RegistryInv, NEW c \in Conns, Remove(c)
    PROVE  RegistryInv'
<1> USE DEF RegistryInv
<1> DEFINE without == [rec EXCEPT ![c] = Missing]
<1>1. /\ without \in [Conns -> Record \union {Missing}]
      /\ without[c] = Missing /\ \A x \in Conns \ {c} : without[x] = rec[x]
  BY DEF TypeOK
<1>2. rec[c] # Missing /\ c \in used
  BY DEF Remove, Known
<1>3. ASSUME keychain' = [keychain EXCEPT ![c] = 0]
      PROVE  keychain'[c] = 0 /\ \A x \in Conns \ {c} : keychain'[x] = keychain[x]
  BY <1>3 DEF TypeOK
<1>4. CASE /\ rec' = without
           /\ HubOnly /\ UNCHANGED <<diskVars, bind, drawn, used, removed, cut>>
  <2> HIDE DEF without
  <2>1. Known' /\ FitsUnlessCut' /\ FileFits'
    BY <1>1, <1>4 DEF Known, FitsUnlessCut, FileFits, Has, diskVars
  <2>2. RemovedIsGone'
    BY <1>1, <1>4 DEF RemovedIsGone, TypeOK, HubOnly, diskVars
  <2> QED
    BY <2>1, <2>2
<1>5. CASE /\ rec' = without /\ keychain' = [keychain EXCEPT ![c] = 0]
           /\ HubOnly /\ UNCHANGED <<recDisk, bind, bindDisk, drawn, used, removed, cut>>
  <2> HIDE DEF without
  <2>1. Known' /\ FitsUnlessCut' /\ FileFits'
    BY <1>1, <1>3, <1>5 DEF Known, FitsUnlessCut, FileFits, Has
  <2>2. RemovedIsGone'
    BY <1>1, <1>3, <1>5 DEF RemovedIsGone, TypeOK, HubOnly
  <2> QED
    BY <2>1, <2>2
<1>6. CASE /\ rec' = without /\ recDisk' = without /\ keychain' = [keychain EXCEPT ![c] = 0]
           /\ bind' = Forgotten(c)
           /\ removed' \in {removed, removed \union {c}}
           /\ HubOnly /\ UNCHANGED <<drawn, used, cut>>
  <2> HIDE DEF without
  <2>1. Known' /\ FitsUnlessCut' /\ FileFits'
    BY <1>1, <1>2, <1>3, <1>6 DEF Known, FitsUnlessCut, FileFits, Has
  <2>2. \A d \in Docs : bind'[d] # c /\ bind'[d] \in {bind[d], Missing}
    BY <1>6, ConstantsDiffer DEF Forgotten
  <2>3. RemovedIsGone'
    <3>1. ASSUME NEW x \in removed', NEW d \in Docs, bind'[d] = x PROVE d \in lost'
      BY <1>6, <2>2, <3>1, ConstantsDiffer DEF RemovedIsGone, TypeOK, HubOnly
    <3>2. ASSUME NEW x \in removed' PROVE keychain'[x] = 0 /\ rec'[x] = Missing /\ recDisk'[x] = Missing
      BY <1>1, <1>3, <1>6, <3>2 DEF RemovedIsGone, TypeOK
    <3> QED
      BY <3>1, <3>2 DEF RemovedIsGone
  <2> QED
    BY <2>1, <2>3
<1>7. CASE /\ keychain' = [keychain EXCEPT ![c] = 0]
           /\ Restarted(recDisk) \/ Restarted(without)
           /\ UNCHANGED <<drawn, used, removed, cut>>
  <2> HIDE DEF without
  <2>1. PICK records \in {recDisk, without} : Restarted(records)
    BY <1>7
  <2>2. /\ records \in [Conns -> Record \union {Missing}]
        /\ \A x \in Conns : records[x] \in {recDisk[x], rec[x], Missing}
    BY <1>1, <2>1 DEF TypeOK
  <2> QED
    BY <1>3, <1>7, <2>1, <2>2, RestartKeeps
<1> QED
  BY <1>4, <1>5, <1>6, <1>7 DEF Remove

LEMMA RegistryKept ==
    ASSUME TypeOK, RegistryInv, [Next]_vars
    PROVE  RegistryInv'
<1>1. CASE Restart
  BY <1>1, RestartKeeps DEF Restart, TypeOK
<1>2. ASSUME NEW c \in Conns, NEW kind \in Kinds, Upsert(c, kind) PROVE RegistryInv'
  BY <1>2, UpsertKeeps
<1>3. ASSUME NEW c \in Conns, Rename(c) PROVE RegistryInv'
  <2>1. Known' /\ FitsUnlessCut' /\ FileFits'
    BY <1>3 DEF Rename, RegistryInv, Known, FitsUnlessCut, FileFits, Has
  <2>2. RemovedIsGone'
    BY <1>3 DEF Rename, RegistryInv, RemovedIsGone, HubOnly
  <2> QED
    BY <2>1, <2>2 DEF RegistryInv
<1>4. ASSUME NEW c \in Conns, Remove(c) PROVE RegistryInv'
  BY <1>4, RemoveKeeps
<1>5. ASSUME NEW c \in Conns, LoseCredential(c) PROVE RegistryInv'
  BY <1>5 DEF LoseCredential, RegistryInv, Known, RemovedIsGone, FitsUnlessCut, FileFits, Has,
              TypeOK, historyVars
<1>6. ASSUME NEW w \in Windows,
             \/ \E d \in Docs : OpenDocument(w, d)
             \/ \E b \in Conns \union {Local} : Choose(w, b)
             \/ Ask(w) \/ Bind(w) \/ CloseWindow(w)
      PROVE  RegistryInv'
  <2>1. Known' /\ FitsUnlessCut' /\ FileFits'
    BY <1>6, WindowSteps DEF RegistryInv, Known, FitsUnlessCut, FileFits, Has
  <2>2. ASSUME NEW c \in removed, NEW d \in Docs, bind'[d] = c PROVE d \in lost
    <3>1. c \in Conns /\ rec[c] = Missing
      BY <2>2 DEF RegistryInv, RemovedIsGone, TypeOK
    <3>2. bind'[d] = bind[d]
      BY <1>6, <2>2, <3>1, WindowSteps, ConstantsDiffer DEF Covers
    <3> QED
      BY <2>2, <3>2 DEF RegistryInv, RemovedIsGone
  <2>3. RemovedIsGone'
    BY <1>6, <2>2, WindowSteps DEF RegistryInv, RemovedIsGone
  <2> QED
    BY <2>1, <2>3 DEF RegistryInv
<1>7. CASE UNCHANGED vars
  BY <1>7 DEF vars, diskVars, historyVars, RegistryInv, Known, RemovedIsGone, FitsUnlessCut,
              FileFits, Has
<1> QED
  BY <1>1, <1>2, <1>3, <1>4, <1>5, <1>6, <1>7 DEF Next

LEMMA RegistryInvHolds == Spec => []RegistryInv
<1>1. Init => RegistryInv
  BY DEF Init, RegistryInv, Known, RemovedIsGone, FitsUnlessCut, FileFits, Has
<1>2. TypeOK /\ RegistryInv /\ [Next]_vars => RegistryInv'
  BY RegistryKept
<1> QED
  BY <1>1, <1>2, ConnectionsTypeCorrect, PTL DEF Spec

\* RemovedIsGone: after connection_remove reported success, neither record nor
\* credential comes back, for any number of connections, windows and failures.
THEOREM RemovalIsFinal == Spec => []RemovedIsGone
<1>1. RegistryInv => RemovedIsGone
  BY DEF RegistryInv
<1> QED
  BY <1>1, RegistryInvHolds, PTL

\* FitsUnlessCut: record and credential of a connection belong together unless
\* a save was cut off between the two stores.
THEOREM CredentialsFit == Spec => []FitsUnlessCut
<1>1. RegistryInv => FitsUnlessCut
  BY DEF RegistryInv
<1> QED
  BY <1>1, RegistryInvHolds, PTL

(***************************************************************************)
(* A recorded "keep the data here".                                        *)
(***************************************************************************)

\* DeclineStands: only the answer of a window that was asking, or the loss of
\* the decision in a restart, replaces it.
THEOREM DeclinesStand == Spec => DeclineStands
<1> DEFINE Stands ==
      \A d \in Docs :
         bind[d] = Local /\ bind'[d] # Local =>
            \/ d \in lost'
            \/ \E w \in Windows : window[w].doc = d /\ window[w].stage = "chosen"
                                  /\ window[w].choice = bind'[d]
<1>1. ASSUME TypeOK, Next PROVE Stands
  <2>1. ASSUME NEW records, Restarted(records) PROVE Stands
    BY <2>1 DEF Restarted
  <2>2. CASE Restart
    BY <2>1, <2>2 DEF Restart
  <2>3. ASSUME NEW c \in Conns, NEW kind \in Kinds, Upsert(c, kind) PROVE Stands
    BY <2>1, <2>3 DEF Upsert
  <2>4. ASSUME NEW c \in Conns, Rename(c) \/ LoseCredential(c) PROVE Stands
    BY <2>4 DEF Rename, LoseCredential
  <2>5. ASSUME NEW c \in Conns, Remove(c) PROVE Stands
    <3>1. (\E records : Restarted(records)) \/ bind' \in {bind, Forgotten(c)}
      BY <2>5 DEF Remove
    <3>2. CASE bind' \in {bind, Forgotten(c)}
      BY <3>2, ConstantsDiffer DEF Forgotten
    <3> QED
      BY <2>1, <3>1, <3>2
  <2>6. ASSUME NEW w \in Windows,
               \/ \E d \in Docs : OpenDocument(w, d)
               \/ \E b \in Conns \union {Local} : Choose(w, b)
               \/ Ask(w) \/ Bind(w) \/ CloseWindow(w)
        PROVE  Stands
    BY <1>1, <2>6, WindowSteps
  <2> HIDE DEF Stands
  <2> QED
    BY <1>1, <2>2, <2>3, <2>4, <2>5, <2>6 DEF Next
<1>2. TypeOK /\ [Next]_vars => [Stands]_vars
  BY <1>1
<1> QED
  BY <1>2, ConnectionsTypeCorrect, PTL DEF Spec, DeclineStands
=============================================================================

-------------------------- MODULE FileStoreProofs --------------------------
(***************************************************************************)
(* Proofs about FileStore for every set of ids, contents and identities    *)
(* and every number of crashes and power failures: the canonical file is   *)
(* never torn, a deleted record is in no file, and the adapter implements  *)
(* the MemoryStore contract.                                               *)
(***************************************************************************)
EXTENDS FileStore, TLAPS

\* Before the rename, while a draft is on its way to the disk.
Drafting == {"open", "write", "writing", "sync", "rename"}

\* The temp file exists from its opening to the rename, and what it holds.
TmpFits ==
    /\ pc \in {"write", "writing", "sync", "rename"} => tmp # None
    /\ pc = "write" => tmp.lines = Empty
    /\ pc \in {"writing", "sync", "rename"} => tmp.lines = draft
    /\ pc \in {"sync", "rename"} => ~tmp.torn
    /\ pc = "rename" => tmp.synced

\* The canonical file has been written whole and flushed.
MainWhole == main # None => ~main.torn /\ main.synced

\* The draft is the canonical records with the mutation in progress applied.
DraftFits == pc \in Drafting =>
    \/ call[1] = "delete" /\ draft = [Lines(main) EXCEPT ![call[2]] = None]
    \/ /\ call[1] = "put" /\ call[2] \notin acked \cup erased
       /\ \E e \in Entries : draft = [Lines(main) EXCEPT ![call[2]] = e]

Done == answer # None /\ answer = <<"done">>

\* A mutation that has an answer has taken effect.
AnswerFits == Done =>
    /\ call[1] = "put" => Lines(main)[call[2]] # None
    /\ call[1] = "delete" => Lines(main)[call[2]] = None

\* A record that was answered for and is not in the canonical file is in no file.
GoneFits ==
    /\ \A id \in acked \cup erased : Lines(main)[id] = None => Lines(tmp)[id] = None
    /\ \A id \in erased : Lines(main)[id] = None

Inv == TypeOK /\ TmpFits /\ MainWhole /\ DraftFits /\ AnswerFits /\ GoneFits

-----------------------------------------------------------------------------
LEMMA LinesType == ASSUME NEW f \in File \cup {None} PROVE Lines(f) \in Snapshot
BY FileAssumption DEF Lines, File, Empty, Snapshot

LEMMA NoneIsNoEntry == None \notin Entries /\ None \notin File
BY FileAssumption

LEMMA InitInv == Init => Inv
BY LinesType DEF Init, Inv, TypeOK, TmpFits, MainWhole, DraftFits, AnswerFits, GoneFits,
       Drafting, Saving, Done, Lines, Empty, Snapshot, File

-----------------------------------------------------------------------------
\* A verb that only reads: its answer is not <<"done">>.
LEMMA ReadKeeps ==
    ASSUME Inv, NEW a, NEW b, answer' = <<a, b>>, a # "done",
           UNCHANGED <<main, tmp, pc, call, draft, crashes, acked, erased>>, pc = "idle"
    PROVE  Inv'
<1>1. answer' # <<"done">>
    <2>1. answer'[1] = a
        OBVIOUS
    <2>2. <<"done">>[1] = "done"
        OBVIOUS
    <2> QED
        BY <2>1, <2>2
<1> QED
    BY <1>1 DEF Inv, TypeOK, TmpFits, MainWhole, DraftFits, AnswerFits, GoneFits, Drafting, Done,
           Lines, Empty

LEMMA BeginPutKeeps == ASSUME Inv, NEW id \in Ids, NEW e \in Entries, BeginPut(id, e) PROVE Inv'
<1>1. Lines(main) \in Snapshot
    BY LinesType DEF Inv, TypeOK
<1>2. TypeOK'
    BY <1>1 DEF Inv, TypeOK, BeginPut, Saving, Snapshot, disk
<1>3. DraftFits'
    BY DEF Inv, DraftFits, BeginPut, Lines, Empty, disk
<1>4. AnswerFits' /\ TmpFits' /\ MainWhole' /\ GoneFits'
    BY DEF Inv, AnswerFits, TmpFits, MainWhole, GoneFits, BeginPut, Ready, Done,
           Lines, Empty, disk
<1> QED
    BY <1>2, <1>3, <1>4 DEF Inv

LEMMA BeginDeleteKeeps == ASSUME Inv, NEW id \in Ids, BeginDelete(id) PROVE Inv'
<1>1. Lines(main) \in Snapshot
    BY LinesType DEF Inv, TypeOK
<1>2. TypeOK'
    BY <1>1 DEF Inv, TypeOK, BeginDelete, Saving, Snapshot, disk
<1>3. DraftFits'
    BY DEF Inv, DraftFits, BeginDelete, Lines, Empty, disk
<1>4. AnswerFits' /\ TmpFits' /\ MainWhole' /\ GoneFits'
    BY DEF Inv, AnswerFits, TmpFits, MainWhole, GoneFits, BeginDelete, Ready, Done,
           Lines, Empty, disk
<1> QED
    BY <1>2, <1>3, <1>4 DEF Inv

LEMMA DeleteAbsentKeeps == ASSUME Inv, NEW id \in Ids, DeleteAbsent(id) PROVE Inv'
BY DEF Inv, TypeOK, TmpFits, MainWhole, DraftFits, AnswerFits, GoneFits, Drafting, Done,
       DeleteAbsent, Ready, Lines, Empty, disk

LEMMA OpenTmpKeeps == ASSUME Inv, OpenTmp PROVE Inv'
<1>1. /\ tmp' = [lines |-> Empty, torn |-> FALSE, synced |-> FALSE]
      /\ tmp' \in File /\ tmp' # None
    <2>1. tmp' = [lines |-> Empty, torn |-> FALSE, synced |-> FALSE] /\ tmp' \in File
        BY DEF OpenTmp, File, Empty, Snapshot
    <2> QED
        BY <2>1, NoneIsNoEntry
<1>2. TypeOK' /\ TmpFits' /\ MainWhole' /\ AnswerFits'
    BY <1>1 DEF Inv, TypeOK, TmpFits, MainWhole, AnswerFits, OpenTmp, Saving, Done, Lines, Empty
<1>3. DraftFits'
    BY DEF Inv, DraftFits, OpenTmp, Drafting, Lines, Empty
<1>4. GoneFits'
    BY <1>1 DEF Inv, TypeOK, GoneFits, OpenTmp, Lines, Empty
<1> QED
    BY <1>2, <1>3, <1>4 DEF Inv

LEMMA StartWriteKeeps == ASSUME Inv, StartWrite PROVE Inv'
<1>1. tmp \in File /\ tmp # None /\ tmp.lines = Empty
    BY DEF Inv, TypeOK, TmpFits, StartWrite
<1>2. Written = draft
    BY <1>1 DEF Inv, TypeOK, Written, Empty, Snapshot
<1>3. /\ tmp' \in File /\ tmp' # None
      /\ tmp'.lines = draft /\ tmp'.torn
    BY <1>1, <1>2, NoneIsNoEntry DEF Inv, TypeOK, StartWrite, File
<1>4. TypeOK' /\ TmpFits' /\ MainWhole' /\ AnswerFits'
    BY <1>3 DEF Inv, TypeOK, TmpFits, MainWhole, AnswerFits, StartWrite, Saving, Done, Lines, Empty
<1>5. DraftFits'
    BY DEF Inv, DraftFits, StartWrite, Drafting, Lines, Empty
<1>6. GoneFits'
    <2>1. Lines(main) \in Snapshot /\ Lines(tmp)' = draft
        BY <1>3, LinesType DEF Inv, TypeOK, Lines
    <2>2. ASSUME NEW id \in acked \cup erased, Lines(main)[id] = None PROVE draft[id] = None
        <3>1. call[2] \in Ids /\ id \in Ids
            BY DEF Inv, TypeOK
        <3>2. CASE draft = [Lines(main) EXCEPT ![call[2]] = None]
            BY <2>1, <2>2, <3>1, <3>2 DEF Snapshot
        <3>3. CASE /\ call[2] \notin acked \cup erased
                   /\ \E e \in Entries : draft = [Lines(main) EXCEPT ![call[2]] = e]
            BY <2>1, <2>2, <3>1, <3>3 DEF Snapshot
        <3> QED
            BY <3>2, <3>3 DEF Inv, DraftFits, Drafting, StartWrite
    <2>3. UNCHANGED <<main, acked, erased>> /\ Lines(main)' = Lines(main)
        BY DEF StartWrite, Lines, Empty
    <2> QED
        BY <2>1, <2>2, <2>3 DEF Inv, GoneFits
<1> QED
    BY <1>4, <1>5, <1>6 DEF Inv

\* EndWrite and Sync only set a mark of the temp file.
LEMMA MarkKeeps == ASSUME Inv, EndWrite \/ Sync PROVE Inv'
<1>1. tmp \in File /\ tmp # None /\ tmp.lines = draft
    BY DEF Inv, TypeOK, TmpFits, EndWrite, Sync
<1>2. /\ tmp' \in File /\ tmp' # None /\ tmp'.lines = tmp.lines /\ ~tmp'.torn
      /\ pc' = "rename" => tmp'.synced
    BY <1>1, NoneIsNoEntry DEF Inv, TmpFits, EndWrite, Sync, File
<1>3. UNCHANGED <<main, call, draft, answer, crashes, acked, erased>> /\ pc' \in {"sync", "rename"}
    BY DEF EndWrite, Sync
<1>4. Lines(tmp)' = Lines(tmp) /\ Lines(main)' = Lines(main)
    BY <1>1, <1>2, <1>3 DEF Lines, Empty
<1>5. TypeOK' /\ TmpFits' /\ MainWhole' /\ AnswerFits'
    BY <1>1, <1>2, <1>3, <1>4 DEF Inv, TypeOK, TmpFits, MainWhole, AnswerFits, Saving, Done
<1>6. DraftFits'
    BY <1>3, <1>4 DEF Inv, DraftFits, Drafting, EndWrite, Sync
<1>7. GoneFits'
    BY <1>3, <1>4 DEF Inv, GoneFits
<1> QED
    BY <1>5, <1>6, <1>7 DEF Inv

LEMMA RenameKeeps == ASSUME Inv, Rename PROVE Inv'
<1>1. /\ tmp \in File /\ tmp # None /\ tmp.lines = draft /\ ~tmp.torn /\ tmp.synced
      /\ call \in {"put", "delete"} \X Ids /\ Lines(main) \in Snapshot
    BY LinesType DEF Inv, TypeOK, TmpFits, Rename
<1>2. Lines(main)' = draft /\ Lines(tmp)' = Empty
    BY <1>1 DEF Rename, Lines, Empty
<1>3. TypeOK' /\ TmpFits' /\ MainWhole' /\ DraftFits'
    BY <1>1 DEF Inv, TypeOK, TmpFits, MainWhole, DraftFits, Drafting, Rename, Saving
<1>4. \/ call[1] = "delete" /\ draft[call[2]] = None
      \/ /\ call[1] = "put" /\ call[2] \notin acked \cup erased
         /\ draft[call[2]] # None
    BY <1>1, NoneIsNoEntry DEF Inv, DraftFits, Drafting, Rename, Snapshot
<1>5. AnswerFits'
    BY <1>2, <1>4 DEF Rename, AnswerFits
<1>6. ASSUME NEW id \in erased PROVE draft[id] = None
    <2>1. id \in Ids /\ Lines(main)[id] = None
        BY <1>6 DEF Inv, TypeOK, GoneFits
    <2> QED
        BY <1>1, <1>6, <2>1 DEF Inv, DraftFits, Drafting, Rename, Snapshot
<1>7. GoneFits'
    BY <1>2, <1>6 DEF Inv, TypeOK, GoneFits, Rename, Empty
<1> QED
    BY <1>3, <1>5, <1>7 DEF Inv

LEMMA ReturnKeeps == ASSUME Inv, Return PROVE Inv'
<1>1. UNCHANGED <<main, tmp, pc, call, draft, crashes>> /\ answer' = None /\ pc = "idle"
    BY DEF Return, disk
<1>2. TypeOK' /\ TmpFits' /\ MainWhole' /\ DraftFits' /\ AnswerFits'
    BY <1>1 DEF Inv, TypeOK, TmpFits, MainWhole, DraftFits, AnswerFits, Drafting, Done, Return
<1>3. GoneFits'
    <2>1. Lines(main)' = Lines(main) /\ Lines(tmp)' = Lines(tmp)
        BY <1>1 DEF Lines, Empty
    <2>2. CASE ~Done
        BY <2>1, <2>2 DEF Inv, GoneFits, Return, Done
    <2>3. CASE Done /\ call[1] = "put"
        <3>1. Lines(main)[call[2]] # None
            BY <2>3 DEF Inv, AnswerFits
        <3>2. acked' = acked \cup {call[2]} /\ erased' = erased
            BY <2>3 DEF Return, Done
        <3> QED
            BY <2>1, <3>1, <3>2 DEF Inv, GoneFits
    <2>4. CASE Done /\ call[1] = "delete"
        <3>1. Lines(main)[call[2]] = None
            BY <2>4 DEF Inv, AnswerFits
        <3>2. /\ acked' = acked \ {call[2]}
              /\ erased' = IF call[2] \in acked THEN erased \cup {call[2]} ELSE erased
            BY <2>4 DEF Return, Done
        <3> QED
            BY <2>1, <3>1, <3>2 DEF Inv, GoneFits
    <2> QED
        BY <2>2, <2>3, <2>4 DEF Inv, TypeOK
<1> QED
    BY <1>2, <1>3 DEF Inv

LEMMA IdleStepKeeps == ASSUME Inv, Chmod \/ LoadPanics \/ Restart PROVE Inv'
BY DEF Inv, TypeOK, TmpFits, MainWhole, DraftFits, AnswerFits, GoneFits, Drafting, Saving, Done,
       Chmod, LoadPanics, Restart, disk, Lines, Empty

\* A power failure may tear a file, and leaves the records that had reached it.
LEMMA LostKeeps ==
    ASSUME NEW f \in File \cup {None}
    PROVE  Lost(f) \in File \cup {None} /\ Lines(Lost(f)) = Lines(f)
<1>1. CASE f = None
    BY <1>1 DEF Lost
<1>2. CASE f \in File /\ f # None
    <2>1. Lost(f) \in File /\ Lost(f).lines = f.lines
        BY <1>2 DEF Lost, File
    <2>2. Lost(f) # None
        BY <2>1, NoneIsNoEntry
    <2> QED
        BY <1>2, <2>1, <2>2 DEF Lines
<1> QED
    BY <1>1, <1>2

LEMMA DeathKeeps == ASSUME Inv, Crash \/ PowerFailure PROVE Inv'
<1>1. /\ main \in File \cup {None} /\ tmp \in File \cup {None}
      /\ main' = main \/ main' = Lost(main)
      /\ tmp' = tmp \/ tmp' = Lost(tmp)
      /\ Dies
    BY DEF Inv, TypeOK, Crash, PowerFailure, disk
<1>2. /\ main' \in File \cup {None} /\ tmp' \in File \cup {None}
      /\ Lines(main)' = Lines(main) /\ Lines(tmp)' = Lines(tmp)
    <2>1. Lines(main') = Lines(main) /\ Lines(tmp') = Lines(tmp)
        BY <1>1, LostKeeps
    <2> QED
        BY <1>1, <2>1, LostKeeps DEF Lines, Empty
<1>3. main' = main
    BY <1>1 DEF Inv, MainWhole, Lost
<1>4. TypeOK' /\ MainWhole'
    BY <1>1, <1>2, <1>3 DEF Inv, TypeOK, MainWhole, Dies, Empty, Snapshot
<1>5. TmpFits' /\ DraftFits' /\ AnswerFits'
    BY <1>1 DEF Dies, TmpFits, DraftFits, AnswerFits, Drafting, Done
<1>6. GoneFits'
    BY <1>1, <1>2 DEF Inv, GoneFits, Dies
<1> QED
    BY <1>4, <1>5, <1>6 DEF Inv

LEMMA InvInductive == Inv /\ [Next]_vars => Inv'
<1> SUFFICES ASSUME Inv, [Next]_vars PROVE Inv'
    OBVIOUS
<1>1. CASE UNCHANGED vars
    BY <1>1 DEF Inv, TypeOK, TmpFits, MainWhole, DraftFits, AnswerFits, GoneFits, Drafting, Done,
           vars, Lines, Empty
<1>2. ASSUME NEW id \in Ids, Get(id) PROVE Inv'
    BY <1>2, ReadKeeps DEF Get, Ready, disk
<1>3. ASSUME NEW query \in Queries, NEW visible \in SUBSET Identities,
             ScanScoped(query, visible)
      PROVE  Inv'
    BY <1>3, ReadKeeps DEF ScanScoped, Ready, disk
<1>4. CASE AllByIndex
    BY <1>4, ReadKeeps DEF AllByIndex, Ready, disk
<1> QED
    BY <1>1, <1>2, <1>3, <1>4, BeginPutKeeps, BeginDeleteKeeps, DeleteAbsentKeeps, OpenTmpKeeps,
       StartWriteKeeps, MarkKeeps, RenameKeeps, ReturnKeeps, IdleStepKeeps, DeathKeeps
    DEF Next

-----------------------------------------------------------------------------
(***************************************************************************)
(* The canonical file is never torn, whatever crashes and power failures   *)
(* happen: it is renamed only after the temp file was written and flushed  *)
(* (store_file.go save).                                                   *)
(***************************************************************************)
THEOREM CanonicalNeverTorn == Spec => []NeverTorn
<1>1. Inv => NeverTorn
    BY DEF Inv, MainWhole, NeverTorn
<1> QED
    BY InitInv, InvInductive, <1>1, PTL DEF Spec

(***************************************************************************)
(* After Delete has returned for a stored id, its record is in neither     *)
(* file of the store (store_file.go Delete and save, ADR-012).             *)
(***************************************************************************)
THEOREM DeletedBytesAreGone == Spec => []DeletedBytesGone
<1>1. Inv => DeletedBytesGone
    BY DEF Inv, GoneFits, DeletedBytesGone
<1> QED
    BY InitInv, InvInductive, <1>1, PTL DEF Spec

LEMMA StepRefines == Inv /\ Inv' /\ [Next]_vars => [Store!Next]_(Store!vars)
<1> SUFFICES ASSUME Inv, Inv', [Next]_vars PROVE [Store!Next]_(Store!vars)
    OBVIOUS
<1> USE DEF Store!Next
<1>1. ASSUME UNCHANGED <<main, answer>> PROVE UNCHANGED Store!vars
    BY <1>1 DEF Store!vars, Lines, Empty
<1>2. CASE UNCHANGED vars
    BY <1>1, <1>2 DEF vars
<1>3. ASSUME NEW id \in Ids, Get(id) PROVE Store!Next
    BY <1>3 DEF Get, Store!Get, disk, Lines, Empty
<1>4. ASSUME NEW query \in Queries, NEW visible \in SUBSET Identities,
             ScanScoped(query, visible)
      PROVE  Store!Next
    BY <1>4 DEF ScanScoped, Store!ScanScoped, Present, Store!Present, disk, Lines, Empty
<1>5. CASE AllByIndex
    <2>1. Store!AllByIndex
        BY <1>5 DEF AllByIndex, Store!AllByIndex, Present, Store!Present, disk, Lines, Empty
    <2> QED
        BY <2>1
<1>6. ASSUME NEW id \in Ids, DeleteAbsent(id) PROVE Store!Next
    <2>1. Lines(main) \in Snapshot /\ Lines(main)[id] = None /\ UNCHANGED main
        BY <1>6, LinesType DEF Inv, TypeOK, DeleteAbsent, disk
    <2>2. Lines(main)' = Lines(main)
        BY <2>1 DEF Lines, Empty
    <2>3. [Lines(main) EXCEPT ![id] = None] = Lines(main)
        BY <2>1 DEF Snapshot
    <2>4. Store!Delete(id)
        BY <1>6, <2>2, <2>3 DEF DeleteAbsent, Store!Delete
    <2> QED
        BY <2>4
<1>7. CASE Rename
    <2>1. Lines(main)' = draft /\ call[2] \in Ids /\ answer' = <<"done">>
        BY <1>7 DEF Inv, TypeOK, TmpFits, Rename, Lines, Empty
    <2>2. CASE draft = [Lines(main) EXCEPT ![call[2]] = None]
        <3>1. Store!Delete(call[2])
            BY <2>1, <2>2 DEF Store!Delete
        <3> QED
            BY <2>1, <3>1
    <2>3. CASE \E e \in Entries : draft = [Lines(main) EXCEPT ![call[2]] = e]
        <3>1. PICK e \in Entries : draft = [Lines(main) EXCEPT ![call[2]] = e]
            BY <2>3
        <3>2. Store!Put(call[2], e) /\ e \in Store!Entries
            BY <2>1, <3>1 DEF Store!Put, Entries, Store!Entries
        <3> QED
            BY <2>1, <3>2
    <2> QED
        BY <1>7, <2>2, <2>3 DEF Inv, DraftFits, Drafting, Rename
<1>8. CASE Return
    BY <1>8 DEF Return, Store!Return, disk, Lines, Empty
<1>9. CASE Crash \/ PowerFailure
    <2>1. Lines(main)' = Lines(main) /\ answer' = None
        BY <1>9, LinesType DEF Inv, MainWhole, Crash, PowerFailure, Dies, Lost, disk, Lines, Empty
    <2> QED
        BY <2>1 DEF Store!Return
<1>10. CASE OpenTmp \/ StartWrite \/ EndWrite \/ Sync \/ Chmod \/ LoadPanics \/ Restart
    BY <1>1, <1>10 DEF OpenTmp, StartWrite, EndWrite, Sync, Chmod, LoadPanics, Restart, disk
<1>11. ASSUME NEW id \in Ids,
              BeginDelete(id) \/ \E e \in Entries : BeginPut(id, e)
       PROVE  UNCHANGED Store!vars
    BY <1>1, <1>11 DEF BeginDelete, BeginPut, disk
<1> QED
    BY <1>2, <1>3, <1>4, <1>5, <1>6, <1>7, <1>8, <1>9, <1>10, <1>11 DEF Next

(***************************************************************************)
(* FileStore implements the MemoryStore contract: every mutation takes     *)
(* effect at one rename, and a death of the process loses only an answer.  *)
(***************************************************************************)
THEOREM FileImplementsStore == Spec => ImplementsStore
<1>1. Init => Store!Init
    BY DEF Init, Store!Init, Lines, Empty
<1> QED
    BY InitInv, InvInductive, StepRefines, <1>1, PTL DEF Spec, ImplementsStore, Store!Spec
=============================================================================

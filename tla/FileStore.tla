----------------------------- MODULE FileStore -----------------------------
(***************************************************************************)
(* The persistent MemoryStore adapter (store_file.go): one snapshot file,  *)
(* read through on every verb and rewritten by every mutation through      *)
(* <path>.tmp, fsync and rename.  The guard serialises the verbs; between  *)
(* any two system calls an I/O error may panic, the process may be killed  *)
(* or the machine may lose power, and another handle may read the file.    *)
(* A file is its records by id, since no caller depends on line order; a   *)
(* torn file holds a part of them.                                         *)
(***************************************************************************)
EXTENDS Naturals

CONSTANTS
    Ids, Contents, Identities, None,
    Queries,      \* a query is the set of contents it is a substring of
    Oversized,    \* contents whose JSON line exceeds the scanner's 16 MiB
    MaxCrashes    \* bound: times the process dies

Entries == [content : Contents, boundIdentity : Identities]

Snapshot == [Ids -> Entries \cup {None}]
File     == [lines : Snapshot, torn : BOOLEAN, synced : BOOLEAN]
Indexes  == {"primary"}

ASSUME FileAssumption ==
    None \notin Entries \cup File /\ Oversized \subseteq Contents /\ MaxCrashes \in Nat

VARIABLES
    main,      \* the file at the canonical path, None when missing
    tmp,       \* the file at <path>.tmp, None when missing
    pc,        \* the next system call of save, "idle", or "down"
    call,      \* the mutation in progress: <<verb, id>>
    draft,     \* the records save is writing
    answer,    \* what the last verb returned
    crashes,
    \* History, not in the code:
    acked,     \* ids whose last Put has returned
    erased     \* acked ids whose Delete has returned since

vars == <<main, tmp, pc, call, draft, answer, crashes, acked, erased>>
disk == <<main, tmp>>

Saving == {"open", "write", "writing", "sync", "rename", "chmod"}

TypeOK ==
    /\ main \in File \cup {None} /\ tmp \in File \cup {None}
    /\ pc \in Saving \cup {"idle", "down"}
    /\ call \in {"put", "delete"} \X Ids
    /\ draft \in Snapshot
    /\ crashes \in Nat /\ acked \subseteq Ids /\ erased \subseteq Ids

Empty    == [i \in Ids |-> None]
Lines(f) == IF f = None THEN Empty ELSE f.lines

Init ==
    /\ main = None /\ tmp = None
    /\ pc = "idle" /\ draft = Empty /\ answer = None
    /\ call \in {"put"} \X Ids       \* nothing is in progress: any value
    /\ crashes = 0 /\ acked = {} /\ erased = {}

-----------------------------------------------------------------------------
\* parseStoreFile: a missing file is an empty store.
Parses(f) == f # None =>
    ~f.torn /\ \A i \in Ids : f.lines[i] # None => f.lines[i].content \notin Oversized

Ready == pc = "idle" /\ answer = None /\ Parses(main)

Present == {i \in Ids : Lines(main)[i] # None}

Get(id) ==
    /\ Ready
    /\ answer' = <<"entry", Lines(main)[id]>>
    /\ UNCHANGED <<disk, pc, call, draft, crashes, acked, erased>>

ScanScoped(query, visible) ==
    /\ Ready
    /\ answer' = <<"hits", {i \in Present : Lines(main)[i].content \in query
                                            /\ Lines(main)[i].boundIdentity \in visible}>>
    /\ UNCHANGED <<disk, pc, call, draft, crashes, acked, erased>>

AllByIndex ==
    /\ Ready
    /\ answer' = <<"indexes", [x \in Indexes |-> {<<i, Lines(main)[i].content>> : i \in Present}]>>
    /\ UNCHANGED <<disk, pc, call, draft, crashes, acked, erased>>

\* load, the change in memory, and the call of save.
BeginPut(id, e) ==
    /\ Ready
    /\ draft' = [Lines(main) EXCEPT ![id] = e]
    /\ call' = <<"put", id>> /\ pc' = "open"
    /\ acked' = acked \ {id} /\ erased' = erased \ {id}
    /\ UNCHANGED <<disk, answer, crashes>>

BeginDelete(id) ==
    /\ Ready
    /\ Lines(main)[id] # None
    /\ draft' = [Lines(main) EXCEPT ![id] = None]
    /\ call' = <<"delete", id>> /\ pc' = "open"
    /\ UNCHANGED <<disk, answer, crashes, acked, erased>>

\* An absent id is not rewritten.
DeleteAbsent(id) ==
    /\ Ready
    /\ Lines(main)[id] = None
    /\ call' = <<"delete", id>> /\ answer' = <<"done">>
    /\ UNCHANGED <<disk, pc, draft, crashes, acked, erased>>

-----------------------------------------------------------------------------
(***************************************************************************)
(* save, one system call at a time.                                        *)
(***************************************************************************)
\* Mutant: without O_TRUNC the records of a stale temp file stay.
OpenWithoutTruncating ==
    /\ pc = "open" /\ pc' = "write"
    /\ tmp' = [lines |-> Lines(tmp), torn |-> FALSE, synced |-> FALSE]
    /\ UNCHANGED <<main, call, draft, answer, crashes, acked, erased>>

OpenTmp ==
    /\ pc = "open" /\ pc' = "write"
    /\ tmp' = [lines |-> Empty, torn |-> FALSE, synced |-> FALSE]
    /\ UNCHANGED <<main, call, draft, answer, crashes, acked, erased>>

Written == [i \in Ids |-> IF draft[i] # None THEN draft[i] ELSE tmp.lines[i]]

\* Write takes time: a crash inside it leaves a torn temp file.
StartWrite ==
    /\ pc = "write" /\ pc' = "writing"
    /\ tmp' = [tmp EXCEPT !.lines = Written, !.torn = TRUE]
    /\ UNCHANGED <<main, call, draft, answer, crashes, acked, erased>>

EndWriteUnsynced ==                  \* mutant: no fsync before the rename
    /\ pc = "writing" /\ pc' = "rename"
    /\ tmp' = [tmp EXCEPT !.torn = FALSE]
    /\ UNCHANGED <<main, call, draft, answer, crashes, acked, erased>>

EndWrite ==
    /\ pc = "writing" /\ pc' = "sync"
    /\ tmp' = [tmp EXCEPT !.torn = FALSE]
    /\ UNCHANGED <<main, call, draft, answer, crashes, acked, erased>>

SyncAndRemove ==                     \* mutant: the target is removed before the rename
    /\ pc = "sync" /\ pc' = "rename"
    /\ tmp' = [tmp EXCEPT !.synced = TRUE]
    /\ main' = None
    /\ UNCHANGED <<call, draft, answer, crashes, acked, erased>>

Sync ==
    /\ pc = "sync" /\ pc' = "rename"
    /\ tmp' = [tmp EXCEPT !.synced = TRUE]
    /\ UNCHANGED <<main, call, draft, answer, crashes, acked, erased>>

Rename ==
    /\ pc = "rename" /\ pc' = "chmod"
    /\ main' = tmp /\ tmp' = None
    /\ answer' = <<"done">>
    /\ UNCHANGED <<call, draft, crashes, acked, erased>>

Chmod ==
    /\ pc = "chmod" /\ pc' = "idle"
    /\ UNCHANGED <<disk, call, draft, answer, crashes, acked, erased>>

\* The verb returns to the guard.
Return ==
    /\ pc = "idle" /\ answer # None
    /\ answer' = None
    /\ acked' = IF answer # <<"done">> THEN acked
                ELSE IF call[1] = "put" THEN acked \cup {call[2]} ELSE acked \ {call[2]}
    /\ erased' = IF answer = <<"done">> /\ call[1] = "delete" /\ call[2] \in acked
                 THEN erased \cup {call[2]} ELSE erased
    /\ UNCHANGED <<disk, pc, call, draft, crashes>>

-----------------------------------------------------------------------------
Dies ==
    /\ pc # "down" /\ crashes < MaxCrashes
    /\ crashes' = crashes + 1
    /\ pc' = "down" /\ answer' = None /\ draft' = Empty
    /\ UNCHANGED <<call, acked, erased>>

\* A panic on an I/O error, or a kill: the files keep what was written.
Crash == Dies /\ UNCHANGED disk

Lost(f) == IF f # None /\ ~f.synced THEN [f EXCEPT !.torn = TRUE] ELSE f

\* Only what fsync has flushed is sure to survive a power failure.
PowerFailure ==
    /\ Dies
    /\ main' = Lost(main) /\ tmp' = Lost(tmp)

\* A verb finds a file it cannot parse, and panics.
LoadPanics ==
    /\ pc = "idle" /\ answer = None /\ ~Parses(main)
    /\ pc' = "down"
    /\ UNCHANGED <<disk, call, draft, answer, crashes, acked, erased>>

\* NewFileStore parses the file and refuses one it cannot read.
Restart ==
    /\ pc = "down" /\ Parses(main)
    /\ pc' = "idle"
    /\ UNCHANGED <<disk, call, draft, answer, crashes, acked, erased>>

Next ==
    \/ \E id \in Ids : \/ Get(id) \/ BeginDelete(id) \/ DeleteAbsent(id)
                       \/ \E e \in Entries : BeginPut(id, e)
    \/ \E query \in Queries, visible \in SUBSET Identities : ScanScoped(query, visible)
    \/ AllByIndex
    \/ OpenTmp \/ StartWrite \/ EndWrite \/ Sync \/ Rename \/ Chmod
    \/ Return
    \/ Crash \/ PowerFailure \/ LoadPanics \/ Restart

Spec == Init /\ [][Next]_vars

-----------------------------------------------------------------------------
(***************************************************************************)
(* The canonical path never holds a partial snapshot, at any instant       *)
(* another handle may read it and after any crash or power failure         *)
(* (store_file.go save: fsync before the rename).                          *)
(***************************************************************************)
NeverTorn == main # None => ~main.torn

(***************************************************************************)
(* Once Delete has returned for a stored id, its record is in no file of   *)
(* the store, not even in a temp file an earlier or later crash left       *)
(* (store_file.go:19-23, the byte-level delete proof of ADR-012).          *)
(***************************************************************************)
DeletedBytesGone ==
    \A id \in erased : Lines(main)[id] = None /\ Lines(tmp)[id] = None

Store == INSTANCE StoreContract WITH kv <- Lines(main)

(***************************************************************************)
(* The adapter implements the MemoryStore contract: a mutation takes       *)
(* effect at the rename, and a crash before it or after it leaves the old  *)
(* or the new entries (store_file.go Put, Delete, save).                   *)
(***************************************************************************)
ImplementsStore == Store!Spec

(***************************************************************************)
(* store_file.go:24 says "a second handle or a restarted process always    *)
(* sees persisted truth": whatever was put, the file can be read back.     *)
(***************************************************************************)
RestartSeesTruth == pc = "down" => Parses(main)
=============================================================================

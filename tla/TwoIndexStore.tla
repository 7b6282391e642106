--------------------------- MODULE TwoIndexStore ---------------------------
(***************************************************************************)
(* The two-index MemoryStore adapter (store.go): the authoritative map     *)
(* from ids to entries and a secondary index from contents to ids, kept    *)
(* together by Put and Delete under the guard's lock.                      *)
(***************************************************************************)
CONSTANTS Ids, Contents, Identities, None,
          Queries      \* a query is the set of contents it is a substring of

Entries == [content : Contents, boundIdentity : Identities]

ASSUME AbsentAssumption == None \notin Entries

Indexes == {"primary", "secondary-content-index"}

VARIABLES primary,     \* id -> entry, None when absent
          byContent,   \* content -> the ids it is indexed under
          answer       \* what the last verb returned

vars == <<primary, byContent, answer>>

TypeOK ==
    /\ primary \in [Ids -> Entries \cup {None}]
    /\ byContent \in [Contents -> SUBSET Ids]

Init ==
    /\ primary = [i \in Ids |-> None]
    /\ byContent = [c \in Contents |-> {}]
    /\ answer = None

Present == {i \in Ids : primary[i] # None}

\* The secondary index without the link of id to the content it held, if any.
KeepStaleLink(id) == byContent      \* mutant: an overwrite leaves the old link behind

Unindexed(id) ==
    IF primary[id] = None THEN byContent
    ELSE [byContent EXCEPT ![primary[id].content] = @ \ {id}]

Put(id, e) ==
    /\ byContent' = [Unindexed(id) EXCEPT ![e.content] = @ \cup {id}]
    /\ primary' = [primary EXCEPT ![id] = e]
    /\ answer' = <<"done">>

DeletePrimaryOnly(id) ==            \* mutant: the second index keeps the content
    /\ primary' = [primary EXCEPT ![id] = None]
    /\ answer' = <<"done">>
    /\ UNCHANGED byContent

Delete(id) ==
    /\ byContent' = Unindexed(id)
    /\ primary' = [primary EXCEPT ![id] = None]
    /\ answer' = <<"done">>

Get(id) == answer' = <<"entry", primary[id]>> /\ UNCHANGED <<primary, byContent>>

ScanScoped(query, visible) ==
    /\ answer' = <<"hits", {i \in Present : primary[i].content \in query
                                            /\ primary[i].boundIdentity \in visible}>>
    /\ UNCHANGED <<primary, byContent>>

\* A link to an id the primary still holds is reported as the primary's entry.
Reconstructed(c, i) == IF primary[i] # None THEN primary[i].content ELSE c

Secondary == UNION {{<<i, Reconstructed(c, i)>> : i \in byContent[c]} : c \in Contents}

AllByIndex ==
    /\ answer' = <<"indexes", [x \in Indexes |->
                      IF x = "primary" THEN {<<i, primary[i].content>> : i \in Present}
                      ELSE Secondary]>>
    /\ UNCHANGED <<primary, byContent>>

Return == answer' = None /\ UNCHANGED <<primary, byContent>>

Next ==
    \/ \E id \in Ids : Delete(id) \/ Get(id) \/ \E e \in Entries : Put(id, e)
    \/ \E query \in Queries, visible \in SUBSET Identities : ScanScoped(query, visible)
    \/ AllByIndex
    \/ Return

Spec == Init /\ [][Next]_vars

-----------------------------------------------------------------------------
(***************************************************************************)
(* The secondary index links a content to exactly the ids that hold it in  *)
(* the primary: no overwrite or delete leaves a copy behind (store.go Put, *)
(* Delete, unindexContent).  AllByIndex cannot show a stale link whose id  *)
(* is still present, so the residue scan relies on this.                   *)
(***************************************************************************)
IndexesAgree ==
    \A c \in Contents :
        byContent[c] = {i \in Ids : primary[i] # None /\ primary[i].content = c}

Store == INSTANCE StoreContract WITH kv <- primary

\* The adapter implements the MemoryStore contract, answers included.
ImplementsStore == Store!Spec
=============================================================================

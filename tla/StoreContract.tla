--------------------------- MODULE StoreContract ---------------------------
(***************************************************************************)
(* What the MemoryStore seam (store.go) promises the guard, whatever the   *)
(* adapter: the entries by id, changed only by Put and Delete, and reads   *)
(* that answer from all of them, in every index.  A restart forgets the    *)
(* answer on its way and nothing else.                                     *)
(***************************************************************************)
CONSTANTS Ids, Contents, Identities, Indexes, None,
          Queries      \* a query is the set of contents it is a substring of

Entries == [content : Contents, boundIdentity : Identities]

VARIABLES kv,      \* id -> entry, None when absent
          answer   \* what the last verb returned, None when none is due

vars == <<kv, answer>>

Present == {i \in Ids : kv[i] # None}

Init == kv = [i \in Ids |-> None] /\ answer = None

Put(id, e) ==
    /\ kv' = [kv EXCEPT ![id] = e]
    /\ answer' = <<"done">>

Delete(id) ==
    /\ kv' = [kv EXCEPT ![id] = None]
    /\ answer' = <<"done">>

Get(id) == answer' = <<"entry", kv[id]>> /\ UNCHANGED kv

ScanScoped(query, visible) ==
    /\ answer' = <<"hits", {i \in Present : kv[i].content \in query
                                            /\ kv[i].boundIdentity \in visible}>>
    /\ UNCHANGED kv

\* Every backing index holds exactly the contents of the entries present.
AllByIndex ==
    /\ answer' = <<"indexes", [x \in Indexes |-> {<<i, kv[i].content>> : i \in Present}]>>
    /\ UNCHANGED kv

Return == answer' = None /\ UNCHANGED kv

Next ==
    \/ \E id \in Ids : Delete(id) \/ Get(id) \/ \E e \in Entries : Put(id, e)
    \/ \E query \in Queries, visible \in SUBSET Identities : ScanScoped(query, visible)
    \/ AllByIndex
    \/ Return

Spec == Init /\ [][Next]_vars
=============================================================================

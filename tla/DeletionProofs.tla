--------------------------- MODULE DeletionProofs ---------------------------
(***************************************************************************)
(* Proofs about the two-index store and the deletion over it, for every    *)
(* set of ids, contents and identities.  The two indexes agree, and        *)
(* therefore the adapter implements the MemoryStore contract; a deletion   *)
(* only makes steps of that store; and what VerifyDelete reports is the    *)
(* first index that holds residue, whatever the scan matches.  The last    *)
(* part is about the scan itself: one common word is no residue.           *)
(***************************************************************************)
EXTENDS DeletionGate, FiniteSetTheorems, WellFoundedInduction, TLAPS

-----------------------------------------------------------------------------
(* The two indexes *)

Inv == TypeOK /\ IndexesAgree

\* Putting an entry unlinks the content the id held and links the new one.
LEMMA PutKeeps == ASSUME Inv, NEW id \in Ids, NEW e \in Entries, Put(id, e) PROVE Inv'
<1>1. TypeOK'
    BY DEF Inv, TypeOK, Put, Unindexed, Entries
<1>2. IndexesAgree'
    <2> SUFFICES ASSUME NEW c \in Contents
                 PROVE  byContent'[c] = {i \in Ids : primary'[i] # None /\ primary'[i].content = c}
        BY DEF IndexesAgree
    <2>1. primary' = [i \in Ids |-> IF i = id THEN e ELSE primary[i]]
        BY DEF Inv, TypeOK, Put
    <2>2. e # None
        BY AbsentAssumption
    <2>3. byContent[c] = {i \in Ids : primary[i] # None /\ primary[i].content = c}
        BY DEF Inv, IndexesAgree
    <2>4. Unindexed(id)[c] = byContent[c] \ {id}
        BY <2>3 DEF Inv, TypeOK, Unindexed, Entries
    <2>5. Unindexed(id) \in [Contents -> SUBSET Ids]
        BY DEF Inv, TypeOK, Unindexed
    <2>6. byContent'[c] = IF c = e.content THEN (byContent[c] \ {id}) \cup {id}
                                           ELSE byContent[c] \ {id}
        BY <2>4, <2>5 DEF Put, Entries
    <2> QED
        BY <2>1, <2>2, <2>3, <2>6
<1> QED
    BY <1>1, <1>2 DEF Inv

\* Deleting an id leaves no link to it in the secondary index.
LEMMA DeleteKeeps == ASSUME Inv, NEW id \in Ids, Delete(id) PROVE Inv'
<1>1. TypeOK'
    BY DEF Inv, TypeOK, Delete, Unindexed
<1>2. IndexesAgree'
    <2> SUFFICES ASSUME NEW c \in Contents
                 PROVE  byContent'[c] = {i \in Ids : primary'[i] # None /\ primary'[i].content = c}
        BY DEF IndexesAgree
    <2>1. primary' = [i \in Ids |-> IF i = id THEN None ELSE primary[i]]
        BY DEF Inv, TypeOK, Delete
    <2>2. byContent[c] = {i \in Ids : primary[i] # None /\ primary[i].content = c}
        BY DEF Inv, IndexesAgree
    <2>3. byContent'[c] = byContent[c] \ {id}
        BY <2>2 DEF Inv, TypeOK, Unindexed, Entries, Delete
    <2> QED
        BY <2>1, <2>2, <2>3
<1> QED
    BY <1>1, <1>2 DEF Inv

LEMMA InvInductive == Inv /\ [Next]_vars => Inv'
<1> SUFFICES ASSUME Inv, [Next]_vars PROVE Inv'
    OBVIOUS
<1>1. CASE UNCHANGED vars
    BY <1>1 DEF Inv, TypeOK, IndexesAgree, vars
<1>2. ASSUME NEW id \in Ids, Delete(id) PROVE Inv'
    BY <1>2, DeleteKeeps
<1>3. ASSUME NEW id \in Ids, NEW e \in Entries, Put(id, e) PROVE Inv'
    BY <1>3, PutKeeps
<1>4. ASSUME UNCHANGED <<primary, byContent>> PROVE Inv'
    BY <1>4 DEF Inv, TypeOK, IndexesAgree
<1> QED
    BY <1>1, <1>2, <1>3, <1>4 DEF Next, Get, ScanScoped, AllByIndex, Return

LEMMA InitInv == Init => Inv
BY DEF Init, Inv, TypeOK, IndexesAgree

(***************************************************************************)
(* The two indexes always agree (store.go TwoIndexStore: Put, Delete and   *)
(* unindexContent).                                                        *)
(***************************************************************************)
THEOREM IndexesAlwaysAgree == Spec => []IndexesAgree
<1>1. Inv => IndexesAgree
    BY DEF Inv
<1> QED
    BY InitInv, InvInductive, <1>1, PTL DEF Spec

\* What AllByIndex reconstructs from the secondary index is what the primary holds.
LEMMA SecondaryIsPrimary ==
    ASSUME Inv PROVE Secondary = {<<i, primary[i].content>> : i \in Present}
<1>1. ASSUME NEW c \in Contents, NEW i \in byContent[c]
      PROVE  i \in Present /\ Reconstructed(c, i) = primary[i].content
    BY <1>1 DEF Inv, IndexesAgree, Present, Reconstructed
<1>2. ASSUME NEW i \in Present
      PROVE  primary[i].content \in Contents /\ i \in byContent[primary[i].content]
    BY <1>2 DEF Inv, TypeOK, IndexesAgree, Present, Entries
<1>3. Secondary \subseteq {<<i, primary[i].content>> : i \in Present}
    BY <1>1 DEF Secondary
<1>4. ASSUME NEW i \in Present PROVE <<i, primary[i].content>> \in Secondary
    BY <1>1, <1>2, <1>4 DEF Secondary
<1> QED
    BY <1>3, <1>4

LEMMA StepRefines == Inv /\ [Next]_vars => [Store!Next]_(Store!vars)
<1> SUFFICES ASSUME Inv, [Next]_vars PROVE [Store!Next]_(Store!vars)
    OBVIOUS
<1> USE DEF Store!Next
<1>1. CASE UNCHANGED vars
    BY <1>1 DEF vars, Store!vars
<1>2. ASSUME NEW id \in Ids, Delete(id) PROVE Store!Next
    BY <1>2 DEF Delete, Store!Delete
<1>3. ASSUME NEW id \in Ids, Get(id) PROVE Store!Next
    BY <1>3 DEF Get, Store!Get
<1>4. ASSUME NEW id \in Ids, NEW e \in Entries, Put(id, e) PROVE Store!Next
    BY <1>4 DEF Put, Store!Put, Entries, Store!Entries
<1>5. ASSUME NEW query \in Queries, NEW visible \in SUBSET Identities,
             ScanScoped(query, visible)
      PROVE  Store!Next
    BY <1>5 DEF ScanScoped, Store!ScanScoped, Present, Store!Present
<1>6. CASE AllByIndex
    <2>1. Store!AllByIndex
        BY <1>6, SecondaryIsPrimary DEF AllByIndex, Store!AllByIndex, Present, Store!Present
    <2> QED
        BY <2>1
<1>7. CASE Return
    BY <1>7 DEF Return, Store!Return
<1> QED
    BY <1>1, <1>2, <1>3, <1>4, <1>5, <1>6, <1>7 DEF Next

(***************************************************************************)
(* TwoIndexStore implements the MemoryStore contract: the verbs answer     *)
(* from the same entries, and both indexes show exactly the survivors.     *)
(***************************************************************************)
THEOREM TwoIndexImplementsStore == Spec => ImplementsStore
<1>1. Init => Store!Init
    BY DEF Init, Store!Init
<1> QED
    BY InitInv, InvInductive, StepRefines, <1>1, PTL DEF Spec, ImplementsStore, Store!Spec

-----------------------------------------------------------------------------
(* Every step of a deletion is a step of the store *)

IndexNames == {"primary", "recency-cache", "secondary-content-index"}

GateType ==
    gate \in [at : {"idle", "delete", "check", "scan", "reply"}, id : Ids \cup {None},
              deleted : Entries \cup {None}, residue : IndexNames \cup {None}]

\* What VerifyDelete knows at each of its steps.  Its last line is the one
\* that ties the answer to the indexes: nothing changes them before the reply.
GateKnows ==
    /\ gate.at # "idle" => gate.id \in Ids
    /\ gate.at \in {"check", "scan", "reply"} => primary[gate.id] = None
    /\ gate.at = "delete" => gate.deleted = primary[gate.id]
    /\ gate.at = "scan" => gate.deleted # None
    /\ gate.at \in {"check", "scan", "reply"} /\ gate.deleted # None =>
           cache[gate.id] \in {None, gate.deleted}
    /\ Reported => gate.residue = ResidueScanIndexes(Gone)

\* The cache may keep what the primary lost, and holds what the primary holds.
CacheFollows ==
    /\ cache \in [Ids -> Entries \cup {None}]
    /\ \A i \in Ids : primary[i] # None => cache[i] = primary[i]

GateInv == Inv /\ GateType /\ CacheFollows /\ GateKnows

LEMMA IndexNamesInOrder ==
    /\ DOMAIN IndexOrder = 1..3
    /\ IndexOrder[1] = "primary"
    /\ IndexOrder[2] = "recency-cache"
    /\ IndexOrder[3] = "secondary-content-index"
    /\ ToSet(IndexOrder) = IndexNames
BY DEF IndexOrder, ToSet, IndexNames

\* Of three places, a nonempty set has a first one.
LEMMA FirstExists ==
    ASSUME NEW found \in SUBSET (1..3), found # {}
    PROVE  \E n \in found : \A m \in found : n <= m
<1>1. CASE 1 \in found
    BY <1>1
<1>2. CASE 1 \notin found /\ 2 \in found
    BY <1>2
<1>3. CASE 1 \notin found /\ 2 \notin found
    <2>1. found = {3}
        <3>1. \A n \in found : n \in 1..3 /\ n # 1 /\ n # 2
            BY <1>3
        <3>2. \A n \in found : n = 3
            BY <3>1
        <3> QED
            BY <3>2
    <2> QED
        BY <2>1
<1> QED
    BY <1>1, <1>2, <1>3

(***************************************************************************)
(* What the scan answers (residue.go:87-122): no index when there is       *)
(* nothing to look for or none holds residue, otherwise an index that does *)
(* and that no other one precedes in the order of the scan.                *)
(***************************************************************************)
LEMMA ScanAnswers ==
    ASSUME NEW deleted
    PROVE  /\ ResidueScanIndexes(deleted) \in IndexNames \cup {None}
           /\ ResidueScanIndexes(deleted) # None =>
                  /\ HoldsResidue(ResidueScanIndexes(deleted), deleted)
                  /\ HoldsResidue("primary", deleted) => ResidueScanIndexes(deleted) = "primary"
           /\ ResidueScanIndexes(deleted) = None =>
                  Text[deleted] = <<>> \/ \A x \in IndexNames : ~HoldsResidue(x, deleted)
<1> DEFINE found == {n \in DOMAIN IndexOrder : HoldsResidue(IndexOrder[n], deleted)}
           first == CHOOSE n \in found : \A m \in found : n <= m
<1>1. ResidueScanIndexes(deleted) = IF Text[deleted] = <<>> \/ found = {} THEN None
                                                                 ELSE IndexOrder[first]
    BY DEF ResidueScanIndexes
<1>2. found \in SUBSET (1..3)
    BY IndexNamesInOrder
<1>3. ASSUME found # {} PROVE first \in found /\ \A m \in found : first <= m
    BY <1>2, <1>3, FirstExists
<1>4. \A n \in found : n \in 1..3 /\ IndexOrder[n] \in IndexNames /\ HoldsResidue(IndexOrder[n], deleted)
    BY IndexNamesInOrder DEF IndexNames
<1>5. \A x \in IndexNames : HoldsResidue(x, deleted) => \E n \in found : IndexOrder[n] = x
    BY IndexNamesInOrder DEF IndexNames
<1>6. HoldsResidue("primary", deleted) => 1 \in found
    BY IndexNamesInOrder
<1> HIDE DEF found, first
<1>7. CASE Text[deleted] = <<>> \/ found = {}
    <2>1. ResidueScanIndexes(deleted) = None
        BY <1>1, <1>7
    <2> QED
        BY <2>1, <1>5, <1>7
<1>8. CASE ~(Text[deleted] = <<>> \/ found = {})
    <2>1. ResidueScanIndexes(deleted) = IndexOrder[first]
        BY <1>1, <1>8
    <2>2. first \in found /\ \A m \in found : first <= m
        BY <1>3, <1>8
    <2>3. IndexOrder[first] \in IndexNames /\ HoldsResidue(IndexOrder[first], deleted)
        BY <1>4, <2>2
    <2>4. IndexOrder[first] # None
        BY <2>3, NoIndexAssumption DEF IndexNames
    <2>5. 1 \in found => first = 1
        BY <1>4, <2>2
    <2> QED
        BY <2>1, <2>3, <2>4, <2>5, <1>6, IndexNamesInOrder
<1> QED
    BY <1>7, <1>8

LEMMA GateInit1 == GateInit => GateInv
<1> SUFFICES ASSUME GateInit PROVE GateInv
    OBVIOUS
<1>1. Inv
    BY InitInv DEF GateInit
<1>2. GateType /\ CacheFollows /\ gate.at = "idle"
    BY DEF GateInit, Init, Idle, GateType, CacheFollows
<1> QED
    BY <1>1, <1>2 DEF GateInv, GateKnows, Reported

\* Every step of the verbs and of VerifyDelete is a step of the store.
LEMMA GateStepIsStoreStep == GateInv /\ [GateNext]_gateVars => [Next]_vars
<1> SUFFICES ASSUME GateInv, [GateNext]_gateVars PROVE [Next]_vars
    OBVIOUS
<1>1. CASE UNCHANGED gateVars
    BY <1>1 DEF gateVars
<1>2. ASSUME NEW id \in Ids, NEW e \in Offers[id], CachedPut(id, e) PROVE Next
    BY <1>2, OffersAssumption DEF CachedPut, Next
<1>3. ASSUME NEW query \in Queries, NEW visible \in SUBSET Identities, Search(query, visible)
      PROVE  Next
    BY <1>3 DEF Search, Next
<1>4. CASE TakeAnswer
    BY <1>4 DEF TakeAnswer, Next
<1>5. ASSUME NEW id \in Ids, Fetch(id) PROVE Next
    BY <1>5 DEF Fetch, Next
<1>6. CASE Purge
    BY <1>6 DEF Purge, Next, GateInv, GateKnows
<1>7. CASE Check
    BY <1>7 DEF Check, Next, GateInv, GateKnows
<1>8. CASE ScanByIndex
    BY <1>8 DEF ScanByIndex, Next
<1>9. CASE Reply
    BY <1>9 DEF Reply, Next
<1> QED
    BY <1>1, <1>2, <1>3, <1>4, <1>5, <1>6, <1>7, <1>8, <1>9 DEF GateNext, VerifyDelete

\* A step that leaves VerifyDelete where it is, between two deletions.
LEMMA IdleKeeps ==
    ASSUME GateInv, gate.at = "idle", gate' = gate, Inv', CacheFollows' PROVE GateInv'
BY DEF GateInv, GateType, GateKnows, Reported

\* Every put is cached, and only a deletion may leave the cache behind.
LEMMA CacheKeepsFollowing == GateInv /\ [GateNext]_gateVars => CacheFollows'
<1> SUFFICES ASSUME GateInv, [GateNext]_gateVars PROVE CacheFollows'
    OBVIOUS
<1> USE DEF GateInv, CacheFollows
<1>1. ASSUME NEW id \in Ids, NEW e \in Offers[id], CachedPut(id, e) PROVE CacheFollows'
    BY <1>1, OffersAssumption DEF CachedPut, Put, Inv, TypeOK
<1>2. CASE Purge
    BY <1>2 DEF Purge, Delete, Inv, TypeOK, GateKnows
<1>3. ASSUME cache' = cache, primary' = primary PROVE CacheFollows'
    BY <1>3
<1> QED
    BY <1>1, <1>2, <1>3 DEF GateNext, VerifyDelete, gateVars, vars, Search, TakeAnswer, Fetch, Check,
                            ScanByIndex, Reply, ScanScoped, Return, Get, AllByIndex

LEMMA GateInvInductive == GateInv /\ [GateNext]_gateVars => GateInv'
<1> SUFFICES ASSUME GateInv, [GateNext]_gateVars PROVE GateInv'
    OBVIOUS
<1>1. Inv'
    BY GateStepIsStoreStep, InvInductive DEF GateInv
<1>2. CacheFollows'
    BY CacheKeepsFollowing
<1>3. CASE UNCHANGED gateVars
    <2>1. UNCHANGED <<primary, byContent, cache, gate>>
        BY <1>3 DEF gateVars, vars
    <2>2. ResidueScanIndexes(Gone)' = ResidueScanIndexes(Gone)
        BY <2>1 DEF Gone, ResidueScanIndexes, HoldsResidue, ByIndex, Present, Secondary, Reconstructed
    <2> QED
        BY <1>1, <1>2, <2>1, <2>2 DEF GateInv, GateType, GateKnows, Reported
<1>4. ASSUME NEW id \in Ids, NEW e \in Offers[id], CachedPut(id, e) PROVE GateInv'
    BY <1>1, <1>2, <1>4, IdleKeeps DEF CachedPut, Free
<1>5. ASSUME NEW query \in Queries, NEW visible \in SUBSET Identities, Search(query, visible)
      PROVE  GateInv'
    BY <1>1, <1>2, <1>5, IdleKeeps DEF Search, Free
<1>6. CASE TakeAnswer
    BY <1>1, <1>2, <1>6, IdleKeeps DEF TakeAnswer
<1>7. ASSUME NEW id \in Ids, Fetch(id) PROVE GateInv'
    <2>1. /\ gate' = [at |-> "delete", id |-> id, deleted |-> primary[id], residue |-> None]
          /\ primary' = primary
        BY <1>7 DEF Fetch, Idle, Get
    <2>2. primary[id] \in Entries \cup {None}
        BY DEF GateInv, Inv, TypeOK
    <2> QED
        BY <1>1, <1>2, <2>1, <2>2 DEF GateInv, GateType, GateKnows, Reported
<1>8. CASE Purge
    <2>1. gate.id \in Ids /\ gate' = [gate EXCEPT !.at = "check"] /\ primary' = [primary EXCEPT ![gate.id] = None]
        BY <1>8 DEF Purge, Delete, GateInv, GateKnows
    <2>2. primary'[gate.id] = None
        BY <2>1 DEF GateInv, Inv, TypeOK
    <2>3. gate.deleted # None => cache[gate.id] = gate.deleted
        BY <1>8, <2>1 DEF Purge, GateInv, GateKnows, CacheFollows
    <2>4. cache'[gate.id] \in {None, cache[gate.id]}
        BY <1>8, <2>1 DEF Purge, GateInv, CacheFollows
    <2>5. GateType' /\ gate'.at = "check" /\ gate'.id = gate.id /\ gate'.deleted = gate.deleted
        BY <2>1 DEF GateInv, GateType
    <2> QED
        BY <1>1, <1>2, <2>1, <2>2, <2>3, <2>4, <2>5 DEF GateInv, GateKnows, Reported
<1>9. CASE Check
    <2>1. /\ gate.at = "check" /\ gate.id \in Ids /\ UNCHANGED <<primary, cache>> /\ primary[gate.id] = None
          /\ gate' = [gate EXCEPT !.at = IF gate.deleted = None THEN "reply" ELSE "scan"]
        BY <1>9 DEF Check, Get, GateInv, GateKnows
    <2> QED
        BY <1>1, <1>2, <2>1 DEF GateInv, GateType, GateKnows, Reported
<1>10. CASE ScanByIndex
    <2> DEFINE found == ResidueScanIndexes(gate.deleted.content)
    <2>1. /\ gate.at = "scan" /\ gate.deleted # None /\ gate.id \in Ids /\ primary[gate.id] = None
          /\ UNCHANGED <<primary, byContent, cache>>
          /\ gate' = [gate EXCEPT !.at = "reply", !.residue = found]
        BY <1>10 DEF ScanByIndex, AllByIndex, GateInv, GateKnows
    <2>2. found \in IndexNames \cup {None}
        BY ScanAnswers
    <2>3. gate'.deleted = gate.deleted /\ gate'.id = gate.id /\ gate'.at = "reply" /\ gate'.residue = found
        BY <2>1 DEF GateInv, GateType
    <2>4. GateType'
        BY <2>1, <2>2 DEF GateInv, GateType
    <2>5. Gone' = gate.deleted.content
        BY <2>3 DEF Gone
    <2>6. ResidueScanIndexes(Gone)' = found
        BY <2>1, <2>5 DEF ResidueScanIndexes, HoldsResidue, ByIndex, Present, Secondary, Reconstructed
    <2> QED
        BY <1>1, <1>2, <2>1, <2>3, <2>4, <2>6 DEF GateInv, GateKnows
<1>11. CASE Reply
    BY <1>1, <1>2, <1>11 DEF Reply, Idle, GateInv, GateType, GateKnows, Reported
<1> QED
    BY <1>3, <1>4, <1>5, <1>6, <1>7, <1>8, <1>9, <1>10, <1>11 DEF GateNext, VerifyDelete

\* The store's part of a deletion is a behaviour of the two-index store.
LEMMA GateRunsStore == GateSpec => Spec
<1>1. GateInit => Init
    BY DEF GateInit
<1> QED
    BY <1>1, GateInit1, GateInvInductive, GateStepIsStoreStep, PTL DEF GateSpec, Spec

(***************************************************************************)
(* Under a deletion too the two indexes always agree and the adapter       *)
(* implements the MemoryStore contract, whatever the lagging cache does.   *)
(***************************************************************************)
THEOREM DeletionKeepsStore == GateSpec => []IndexesAgree /\ ImplementsStore
BY GateRunsStore, IndexesAlwaysAgree, TwoIndexImplementsStore, PTL

-----------------------------------------------------------------------------
(* What a deletion reports *)

\* A clean reply: the id is gone and no index holds a match of its content,
\* unless there was nothing to look for.
CleanReplyIsClean ==
    Reported /\ gate.residue = None =>
        /\ primary[gate.id] = None
        /\ Text[Gone] = <<>> \/ \A x \in IndexNames : ~HoldsResidue(x, Gone)

(***************************************************************************)
(* VerifyDelete certifies what it says (guard.go VerifyDelete): when it    *)
(* reports no residue, the entry is gone from the primary and no survivor  *)
(* of any of the three indexes matches the deleted content.                *)
(***************************************************************************)
THEOREM CleanRepliesAreClean == GateSpec => []CleanReplyIsClean
<1>1. GateInv => CleanReplyIsClean
    BY ScanAnswers DEF GateInv, GateKnows, CleanReplyIsClean, Reported
<1> QED
    BY <1>1, GateInit1, GateInvInductive, PTL DEF GateSpec

\* The secondary index shows the contents of the primary and no others.
LEMMA SecondaryHoldsNoMore ==
    ASSUME Inv PROVE ByIndex["secondary-content-index"] = ByIndex["primary"]
<1>1. "primary" \in ToSet(IndexOrder) /\ "secondary-content-index" \in ToSet(IndexOrder)
    BY IndexNamesInOrder DEF IndexNames
<1>2. ByIndex["primary"] = {primary[i].content : i \in Present}
    BY <1>1 DEF ByIndex
<1>3. ByIndex["secondary-content-index"] = {link[2] : link \in Secondary}
    BY <1>1 DEF ByIndex
<1>4. Secondary = {<<i, primary[i].content>> : i \in Present}
    BY SecondaryIsPrimary
<1>5. \A link \in Secondary : \E i \in Present : link = <<i, primary[i].content>>
    BY <1>4
<1>6. \A i \in Present : <<i, primary[i].content>> \in Secondary
    BY <1>4
<1>7. \A link \in Secondary : link[2] \in ByIndex["primary"]
    BY <1>2, <1>5
<1>8. \A i \in Present : primary[i].content \in ByIndex["secondary-content-index"]
    <2> TAKE i \in Present
    <2>1. <<i, primary[i].content>>[2] = primary[i].content
        OBVIOUS
    <2> QED
        BY <1>3, <1>6, <2>1
<1> QED
    BY <1>2, <1>3, <1>7, <1>8

SecondaryIsNeverNamed == Reported => gate.residue # "secondary-content-index"

LEMMA SecondaryUnnamed == GateInv => SecondaryIsNeverNamed
<1> SUFFICES ASSUME GateInv, Reported, gate.residue = "secondary-content-index" PROVE FALSE
    BY DEF SecondaryIsNeverNamed
<1>1. gate.residue = ResidueScanIndexes(Gone) /\ gate.residue # None
    BY NoIndexAssumption DEF GateInv, GateKnows
<1>2. HoldsResidue("secondary-content-index", Gone) /\ ~HoldsResidue("primary", Gone)
    BY <1>1, ScanAnswers
<1> QED
    BY <1>2, SecondaryHoldsNoMore DEF HoldsResidue, GateInv

(***************************************************************************)
(* The secondary index is never the one to clean up (store.go Put, Delete, *)
(* residue.go:87-102): it holds no content the primary does not, and the   *)
(* primary is looked at first.  A deletion that named it would show that   *)
(* the two indexes had come apart.                                         *)
(***************************************************************************)
THEOREM SecondaryNeverNamed == GateSpec => []SecondaryIsNeverNamed
BY SecondaryUnnamed, GateInit1, GateInvInductive, PTL DEF GateSpec

(***************************************************************************)
(* An index other than the primary is named only for a copy the primary    *)
(* lost (residue.go:87-102, store.go Put and Delete), whatever the texts   *)
(* are and whatever the tiers match: the secondary index shows what the    *)
(* primary shows, and the cache shows more only after a lagging Delete.    *)
(***************************************************************************)
THEOREM NamedCopiesAreStale == GateSpec => []NamedElsewhereIsStale
<1>1. GateInv => NamedElsewhereIsStale
    <2> SUFFICES ASSUME GateInv, Reported, gate.residue \notin {None, "primary"}
                 PROVE  \E i \in Ids : /\ primary[i] = None /\ cache[i] # None
                                       /\ <<Gone, cache[i].content>> \in Residual
        BY DEF NamedElsewhereIsStale
    <2>1. gate.residue = "recency-cache"
        BY SecondaryUnnamed DEF SecondaryIsNeverNamed, GateInv, GateType, IndexNames
    <2>2. HoldsResidue("recency-cache", Gone) /\ ~HoldsResidue("primary", Gone)
        BY <2>1, ScanAnswers DEF GateInv, GateKnows
    <2>3. PICK i \in Ids : cache[i] # None /\ <<Gone, cache[i].content>> \in Residual
        <3>1. ByIndex["recency-cache"] = {cache[i].content : i \in {j \in Ids : cache[j] # None}}
            BY IndexNamesInOrder DEF ByIndex, IndexNames
        <3> QED
            BY <2>2, <3>1 DEF HoldsResidue
    <2>4. primary[i] = None
        <3> SUFFICES ASSUME primary[i] # None PROVE FALSE
            OBVIOUS
        <3>1. cache[i] = primary[i] /\ i \in Present
            BY DEF GateInv, CacheFollows, Present
        <3>2. ByIndex["primary"] = {primary[j].content : j \in Present}
            BY IndexNamesInOrder DEF ByIndex, IndexNames
        <3> QED
            BY <2>2, <2>3, <3>1, <3>2 DEF HoldsResidue
    <2> QED
        BY <2>3, <2>4
<1> QED
    BY <1>1, GateInit1, GateInvInductive, PTL DEF GateSpec

-----------------------------------------------------------------------------
(* Copies are reported *)

\* The copy a survivor keeps: the deleted text itself, or its normal form in
\* that of the survivor (another case, an amount written another way).
HoldsCopy(survivor, deleted) ==
    \/ ContainsSpan(Text[survivor], Text[deleted])
    \/ /\ NormalizeForResidue(Text[deleted]) # <<>>
       /\ ContainsSpan(NormalizeForResidue(Text[survivor]), NormalizeForResidue(Text[deleted]))

LEMMA CopiesAreResidue ==
    ASSUME NEW deleted \in Contents, NEW survivor \in Contents, HoldsCopy(survivor, deleted)
    PROVE  <<deleted, survivor>> \in Residual
<1>1. MatchSurvivor(Text[deleted], Text[survivor])
    BY DEF HoldsCopy, MatchSurvivor, ExactFragmentMatch, NormalizedFragmentMatch
<1> QED
    BY <1>1 DEF Residual

LEMMA EveryTextIsItsCopy == ASSUME NEW c \in Contents PROVE HoldsCopy(c, c)
<1> DEFINE text == Text[c]
<1>1. text \in Seq(Tokens) /\ Len(text) \in Nat
    BY TextAssumption
<1>2. \A i \in 1..Len(text) : text[i] = text[0 + i]
    BY <1>1
<1>3. 0 \in 0..(Len(text) - Len(text))
    BY <1>1
<1> QED
    BY <1>2, <1>3 DEF HoldsCopy, ContainsSpan

LEMMA SurvivorsAreContents ==
    ASSUME GateInv, NEW x \in IndexNames PROVE ByIndex[x] \subseteq Contents
<1>1. x \in ToSet(IndexOrder)
    BY IndexNamesInOrder
<1>2. ByIndex["primary"] \subseteq Contents
    BY IndexNamesInOrder DEF ByIndex, IndexNames, GateInv, Inv, TypeOK, Present, Entries
<1>3. ByIndex["recency-cache"] \subseteq Contents
    BY IndexNamesInOrder DEF ByIndex, IndexNames, GateInv, CacheFollows, Entries
<1>4. ByIndex["secondary-content-index"] \subseteq Contents
    BY <1>2, SecondaryHoldsNoMore DEF GateInv
<1> QED
    BY <1>2, <1>3, <1>4 DEF IndexNames

CopyIsReported ==
    Reported /\ Text[Gone] # <<>>
             /\ (\E x \in IndexNames : \E s \in ByIndex[x] : HoldsCopy(s, Gone))
        => gate.residue # None

(***************************************************************************)
(* A copy of the deleted content, whole or inside a longer text, in any    *)
(* case and with its amounts written in any of the forms that have the     *)
(* same normal form, is reported wherever it survives (residue.go:22-31).  *)
(***************************************************************************)
THEOREM CopiesAreReported == GateSpec => []CopyIsReported
<1>1. GateInv => CopyIsReported
    <2> SUFFICES ASSUME GateInv, Reported, Text[Gone] # <<>>,
                        NEW x \in IndexNames, NEW s \in ByIndex[x], HoldsCopy(s, Gone)
                 PROVE  gate.residue # None
        BY DEF CopyIsReported
    <2>1. Gone \in Contents
        BY DEF GateInv, GateType, Reported, Gone, Entries
    <2>2. s \in Contents
        BY SurvivorsAreContents
    <2>3. HoldsResidue(x, Gone)
        BY <2>1, <2>2, CopiesAreResidue DEF HoldsResidue
    <2> QED
        BY <2>3, ScanAnswers DEF GateInv, GateKnows
<1> QED
    BY <1>1, GateInit1, GateInvInductive, PTL DEF GateSpec

LaggingCacheIsReported ==
    Reported /\ Text[Gone] # <<>> /\ cache[gate.id] # None =>
        gate.residue \in {"primary", "recency-cache"}

(***************************************************************************)
(* A cache whose Delete lagged never passes unnoticed (guard.go            *)
(* VerifyDelete, residue_indexes_test.go laggingCacheStore): what it still *)
(* holds under the deleted id is the deleted content, which the scan finds *)
(* there unless it finds residue in the primary first.                     *)
(***************************************************************************)
THEOREM LaggingCachesAreReported == GateSpec => []LaggingCacheIsReported
<1>1. GateInv => LaggingCacheIsReported
    <2> SUFFICES ASSUME GateInv, Reported, Text[Gone] # <<>>, cache[gate.id] # None
                 PROVE  gate.residue \in {"primary", "recency-cache"}
        BY DEF LaggingCacheIsReported
    <2>1. gate.id \in Ids /\ cache[gate.id] = gate.deleted
        BY DEF GateInv, GateKnows, Reported
    <2>2. Gone \in ByIndex["recency-cache"]
        BY <2>1, IndexNamesInOrder DEF ByIndex, IndexNames, Gone
    <2>3. Gone \in Contents
        BY DEF GateInv, GateType, Reported, Gone, Entries
    <2>4. HoldsResidue("recency-cache", Gone)
        BY <2>2, <2>3, EveryTextIsItsCopy, CopiesAreResidue DEF HoldsResidue
    <2>5. gate.residue # None
        BY <2>4, ScanAnswers DEF GateInv, GateKnows, IndexNames
    <2>6. gate.residue # "secondary-content-index"
        BY SecondaryUnnamed DEF SecondaryIsNeverNamed
    <2> QED
        BY <2>5, <2>6 DEF GateInv, GateType, IndexNames
<1> QED
    BY <1>1, GateInit1, GateInvInductive, PTL DEF GateSpec


-----------------------------------------------------------------------------
(* Induction over a length, and what a function defined over the prefixes  *)
(* of a sequence is                                                        *)

NatOrder == {ss \in Nat \X Nat : ss[1] < ss[2]}

LEMMA NatOrderWellFounded == IsWellFoundedOn(NatOrder, Nat)
BY NatLessThanWellFounded, SMT DEF OpToRel, NatOrder

LEMMA Least ==
    ASSUME NEW T \in SUBSET Nat, T # {}
    PROVE  \E x \in T : \A y \in T : x <= y
<1>1. PICK x \in T : \A y \in T : <<y, x>> \notin NatOrder
    BY WFMin, NatOrderWellFounded
<1>2. \A y \in T : ~(y < x)
    BY <1>1 DEF NatOrder
<1> QED
    BY <1>2

\* Induction over the set of the numbers that have a property.
LEMMA Induction ==
    ASSUME NEW T, 0 \in T, \A n \in Nat : n \in T => n + 1 \in T
    PROVE  \A n \in Nat : n \in T
<1> SUFFICES ASSUME Nat \ T # {} PROVE FALSE
    OBVIOUS
<1>1. PICK x \in Nat \ T : \A y \in Nat \ T : x <= y
    BY Least
<1>2. x # 0 /\ x - 1 \in Nat
    OBVIOUS
<1>3. x - 1 \in T
    BY <1>1, <1>2
<1>4. (x - 1) + 1 \in T
    BY <1>2, <1>3
<1> QED
    BY <1>1, <1>4

\* The values a step takes from a base, up to the n-th.
Iterates(f, S, base, step, n) ==
    f \in [0..n -> S] /\ f[0] = base /\ \A i \in 1..n : f[i] = step[<<i, f[i - 1]>>]

LEMMA Recursion ==
    ASSUME NEW S, NEW base, base \in S, NEW step, step \in [Nat \X S -> S], NEW n, n \in Nat
    PROVE  \E f : Iterates(f, S, base, step, n)
<1> DEFINE Defines(f, k) == f[0] = base /\ \A i \in 1..k : f[i] = step[<<i, f[i - 1]>>]
           T == {k \in Nat : \E f \in [0..k -> S] : Defines(f, k)}
<1>1. 0 \in T
    <2>1. [i \in 0..0 |-> base] \in [0..0 -> S] /\ Defines([i \in 0..0 |-> base], 0)
        OBVIOUS
    <2> QED
        BY <2>1
<1>2. ASSUME NEW k \in Nat, k \in T PROVE k + 1 \in T
    <2>1. PICK f \in [0..k -> S] : Defines(f, k)
        BY <1>2
    <2> DEFINE g == [i \in 0..(k + 1) |-> IF i = k + 1 THEN step[<<k + 1, f[k]>>] ELSE f[i]]
    <2>2. f[k] \in S /\ step[<<k + 1, f[k]>>] \in S
        OBVIOUS
    <2>3. g \in [0..(k + 1) -> S]
        BY <2>2
    <2>4. \A i \in 1..(k + 1) : g[i - 1] = f[i - 1]
        OBVIOUS
    <2>5. \A i \in 1..k : g[i] = f[i]
        OBVIOUS
    <2>6. g[0] = base
        BY <2>1
    <2>7. g[k + 1] = step[<<k + 1, f[k]>>]
        OBVIOUS
    <2> HIDE DEF g
    <2>8. \A i \in 1..(k + 1) : g[i] = step[<<i, g[i - 1]>>]
        <3> TAKE i \in 1..(k + 1)
        <3>1. CASE i = k + 1
            <4>1. i - 1 = k /\ k \in 0..k
                BY <3>1
            <4>2. g[i - 1] = f[k]
                BY <2>4, <4>1
            <4> QED
                BY <3>1, <4>2, <2>7
        <3>2. CASE i \in 1..k
            BY <3>2, <2>1, <2>4, <2>5
        <3> QED
            BY <3>1, <3>2
    <2>9. Defines(g, k + 1)
        BY <2>6, <2>8
    <2> QED
        BY <2>3, <2>9
<1> HIDE DEF T
<1>3. n \in T
    BY <1>1, <1>2, Induction
<1> QED
    BY <1>3 DEF T, Iterates

\* FlattenSeq concatenates from left to right.
Concatenates(g, seqs, S) ==
    /\ g \in [0..Len(seqs) -> Seq(S)]
    /\ g[0] = <<>>
    /\ \A i \in 1..Len(seqs) : g[i] = g[i - 1] \o seqs[i]

LEMMA FlattenSteps ==
    ASSUME NEW S, NEW seqs \in Seq(Seq(S))
    PROVE  \E g : Concatenates(g, seqs, S) /\ FlattenSeq(seqs) = g[Len(seqs)]
<1> DEFINE n == Len(seqs)
           flatten[i \in 1..n] == IF i = 1 THEN seqs[i] ELSE flatten[i - 1] \o seqs[i]
           Equation(g) == g = [i \in 1..n |-> IF i = 1 THEN seqs[i] ELSE g[i - 1] \o seqs[i]]
           step == [p \in Nat \X Seq(S) |-> IF p[1] \in 1..n THEN p[2] \o seqs[p[1]] ELSE p[2]]
<1>1. n \in Nat /\ \A i \in 1..n : seqs[i] \in Seq(S)
    OBVIOUS
<1>2. step \in [Nat \X Seq(S) -> Seq(S)]
    <2>1. ASSUME NEW i \in Nat, NEW s \in Seq(S)
          PROVE  (IF i \in 1..n THEN s \o seqs[i] ELSE s) \in Seq(S)
        <3>1. CASE i \in 1..n
            <4>1. seqs[i] \in Seq(S)
                BY <1>1, <3>1
            <4>2. s \o seqs[i] \in Seq(S)
                BY <4>1
            <4> QED
                BY <3>1, <4>2
        <3>2. CASE i \notin 1..n
            BY <3>2
        <3> QED
            BY <3>1, <3>2
    <2> QED
        BY <2>1
<1>3. \A i \in Nat, s \in Seq(S) : i \in 1..n => step[<<i, s>>] = s \o seqs[i]
    OBVIOUS
<1>4. <<>> \in Seq(S)
    OBVIOUS
<1> HIDE DEF step
<1>5. PICK f : Iterates(f, Seq(S), <<>>, step, n)
    <2> HIDE DEF n
    <2> QED
        BY <1>1, <1>2, <1>4, Recursion
<1>6. ASSUME NEW i \in 1..n PROVE f[i] = f[i - 1] \o seqs[i]
    <2>1. i \in Nat /\ i - 1 \in 0..n
        BY <1>1
    <2>2. f[i - 1] \in Seq(S)
        BY <1>5, <2>1 DEF Iterates
    <2>3. step[<<i, f[i - 1]>>] = f[i - 1] \o seqs[i]
        BY <1>3, <2>1, <2>2
    <2> QED
        BY <1>5, <2>3 DEF Iterates
<1>7. Concatenates(f, seqs, S)
    BY <1>5, <1>6 DEF Concatenates, Iterates
<1>8. CASE n = 0
    <2>1. FlattenSeq(seqs) = <<>>
        BY <1>8 DEF FlattenSeq
    <2>2. f[n] = <<>>
        BY <1>8, <1>7 DEF Concatenates
    <2> QED
        BY <1>7, <2>1, <2>2
<1>9. CASE n # 0
    <2>1. FlattenSeq(seqs) = flatten[n]
        BY <1>9 DEF FlattenSeq
    <2> DEFINE g == [i \in 1..n |-> f[i]]
    <2>2. Equation(g)
        <3>1. 1 \in 1..n
            BY <1>1, <1>9
        <3>2. seqs[1] \in Seq(S) /\ f[0] = <<>>
            BY <1>1, <3>1, <1>7 DEF Concatenates
        <3>3. f[1] = f[1 - 1] \o seqs[1]
            BY <1>6, <3>1
        <3>8. f[1 - 1] = <<>>
            BY <3>2
        <3>4. f[1] = <<>> \o seqs[1]
            BY <3>3, <3>8
        <3>7. f[1] = seqs[1]
            BY <3>2, <3>4
        <3>5. \A i \in 1..n : i # 1 => i - 1 \in 1..n
            BY <1>1
        <3>6. \A i \in 1..n : g[i] = IF i = 1 THEN seqs[i] ELSE g[i - 1] \o seqs[i]
            BY <1>6, <3>7, <3>5
        <3> QED
            BY <3>6
    <2>3. \E h : Equation(h)
        BY <2>2
    <2>4. Equation(flatten)
        BY <2>3
    <2> HIDE DEF flatten, g
    <2> DEFINE T == {k \in Nat : k \in 1..n => flatten[k] = f[k]}
    <2>5. 0 \in T
        OBVIOUS
    <2>6. ASSUME NEW k \in Nat, k \in T PROVE k + 1 \in T
        <3> SUFFICES ASSUME k + 1 \in 1..n PROVE flatten[k + 1] = f[k + 1]
            OBVIOUS
        <3>1. f[k + 1] = f[k] \o seqs[k + 1]
            <4>1. f[k + 1] = f[(k + 1) - 1] \o seqs[k + 1]
                BY <1>6
            <4>2. (k + 1) - 1 = k
                OBVIOUS
            <4> QED
                BY <4>1, <4>2
        <3>2. CASE k = 0
            <4>1. flatten[1] = seqs[1]
                BY <1>1, <1>9, <2>4
            <4>2. seqs[1] \in Seq(S) /\ f[0] = <<>>
                BY <1>1, <3>2, <1>7 DEF Concatenates
            <4>3. f[1] = <<>> \o seqs[1]
                BY <3>1, <3>2, <4>2
            <4> QED
                BY <3>2, <4>1, <4>2, <4>3
        <3>3. CASE k # 0
            <4>1. k \in 1..n /\ flatten[k] = f[k]
                BY <1>1, <2>6, <3>3
            <4>4. k + 1 # 1
                BY <3>3
            <4>2. flatten[k + 1] = flatten[(k + 1) - 1] \o seqs[k + 1]
                BY <2>4, <4>4
            <4>3. (k + 1) - 1 = k
                OBVIOUS
            <4> QED
                BY <3>1, <4>1, <4>2, <4>3
        <3> QED
            BY <3>2, <3>3
    <2> HIDE DEF T
    <2>7. n \in T
        BY <1>1, <2>5, <2>6, Induction
    <2>8. flatten[n] = f[n]
        BY <1>1, <1>9, <2>7 DEF T
    <2> QED
        BY <1>7, <2>1, <2>8
<1> QED
    BY <1>8, <1>9

\* Where the elements of a concatenation are.
LEMMA FlattenPlaces ==
    ASSUME NEW S, NEW seqs \in Seq(Seq(S))
    PROVE  /\ FlattenSeq(seqs) \in Seq(S)
           /\ \E place \in [1..Len(seqs) -> Nat] :
                  /\ \A i \in 1..Len(seqs) : seqs[i] # <<>> =>
                         /\ place[i] \in 1..Len(FlattenSeq(seqs))
                         /\ FlattenSeq(seqs)[place[i]] = seqs[i][1]
                  /\ \A i, j \in 1..Len(seqs) : i < j /\ seqs[i] # <<>> => place[i] < place[j]
<1>1. PICK g : Concatenates(g, seqs, S) /\ FlattenSeq(seqs) = g[Len(seqs)]
    BY FlattenSteps
<1> DEFINE n == Len(seqs)
           place == [i \in 1..n |-> Len(g[i - 1]) + 1]
<1>2. n \in Nat /\ (\A i \in 1..n : seqs[i] \in Seq(S)) /\ g \in [0..n -> Seq(S)]
    BY <1>1 DEF Concatenates
<1>3. ASSUME NEW i \in 1..n
      PROVE  /\ i - 1 \in 0..n /\ g[i - 1] \in Seq(S) /\ g[i] \in Seq(S)
             /\ Len(g[i - 1]) \in Nat /\ Len(seqs[i]) \in Nat
             /\ Len(g[i]) = Len(g[i - 1]) + Len(seqs[i])
             /\ \A p \in 1..Len(g[i - 1]) : g[i][p] = g[i - 1][p]
             /\ seqs[i] # <<>> => Len(seqs[i]) > 0 /\ g[i][Len(g[i - 1]) + 1] = seqs[i][1]
    <2>1. i - 1 \in 0..n /\ i \in 0..n
        BY <1>2
    <2>2. g[i - 1] \in Seq(S) /\ seqs[i] \in Seq(S) /\ g[i] \in Seq(S)
        BY <1>2, <2>1
    <2>3. g[i] = g[i - 1] \o seqs[i]
        BY <1>1 DEF Concatenates
    <2> DEFINE x == g[i - 1]
               y == seqs[i]
    <2>4. x \in Seq(S) /\ y \in Seq(S) /\ g[i] = x \o y
        BY <2>2, <2>3
    <2> HIDE DEF x, y
    <2>5. /\ Len(x) \in Nat /\ Len(y) \in Nat
          /\ Len(g[i]) = Len(x) + Len(y)
          /\ \A p \in 1..Len(x) : g[i][p] = x[p]
          /\ y # <<>> => Len(y) > 0 /\ g[i][Len(x) + 1] = y[1]
        BY <2>4
    <2> QED
        BY <2>1, <2>2, <2>5 DEF x, y
<1> DEFINE Placed(k) == \A i \in 1..k : seqs[i] # <<>> =>
                            /\ Len(g[i - 1]) + 1 \in 1..Len(g[k])
                            /\ g[k][Len(g[i - 1]) + 1] = seqs[i][1]
           T == {k \in Nat : k \in 0..n => Placed(k)}
<1>4. 0 \in T
    OBVIOUS
<1>5. ASSUME NEW k \in Nat, k \in T PROVE k + 1 \in T
    <2> SUFFICES ASSUME k + 1 \in 0..n, NEW i \in 1..(k + 1), seqs[i] # <<>>
                 PROVE  /\ Len(g[i - 1]) + 1 \in 1..Len(g[k + 1])
                        /\ g[k + 1][Len(g[i - 1]) + 1] = seqs[i][1]
        OBVIOUS
    <2>1. k + 1 \in 1..n /\ (k + 1) - 1 = k
        BY <1>2
    <2>2. /\ k \in 0..n /\ Len(g[k]) \in Nat /\ Len(seqs[k + 1]) \in Nat
          /\ Len(g[k + 1]) = Len(g[k]) + Len(seqs[k + 1])
          /\ \A p \in 1..Len(g[k]) : g[k + 1][p] = g[k][p]
          /\ seqs[k + 1] # <<>> => Len(seqs[k + 1]) > 0 /\ g[k + 1][Len(g[k]) + 1] = seqs[k + 1][1]
        BY <1>3, <2>1
    <2>4. CASE i = k + 1
        <3>1. i - 1 = k /\ seqs[k + 1] # <<>>
            BY <2>4
        <3>2. Len(g[k]) + 1 \in 1..Len(g[k + 1]) /\ g[k + 1][Len(g[k]) + 1] = seqs[k + 1][1]
            <4> DEFINE a == Len(g[k])
                       b == Len(seqs[k + 1])
                       c == Len(g[k + 1])
            <4>1. a \in Nat /\ b \in Nat /\ b > 0 /\ c = a + b
                BY <2>2, <3>1
            <4> HIDE DEF a, b, c
            <4>2. a + 1 \in 1..c
                BY <4>1
            <4> QED
                BY <2>2, <3>1, <4>2 DEF a, c
        <3> QED
            BY <2>4, <3>1, <3>2
    <2>5. CASE i \in 1..k
        <3>1. Len(g[i - 1]) + 1 \in 1..Len(g[k]) /\ g[k][Len(g[i - 1]) + 1] = seqs[i][1]
            BY <1>5, <2>2, <2>5
        <3> DEFINE p == Len(g[i - 1]) + 1
                   a == Len(g[k])
                   c == Len(g[k + 1])
                   b == Len(seqs[k + 1])
        <3>6. a \in Nat /\ b \in Nat /\ c = a + b
            BY <2>2
        <3>3. g[k + 1][p] = g[k][p]
            BY <2>2, <3>1
        <3>4. p \in 1..a
            BY <3>1
        <3> HIDE DEF p, a, b, c
        <3>2. a \in Nat /\ c \in Nat /\ a <= c
            BY <3>6
        <3>5. p \in 1..c
            BY <3>2, <3>4
        <3> QED
            BY <3>1, <3>3, <3>5 DEF p, c
    <2> QED
        BY <2>4, <2>5
<1> HIDE DEF T
<1>6. \A k \in 0..n : Placed(k)
    <2> TAKE k \in 0..n
    <2>1. k \in Nat
        BY <1>2
    <2>2. k \in T
        BY <2>1, <1>4, <1>5, Induction
    <2> QED
        BY <2>2 DEF T
<1>7. place \in [1..n -> Nat]
    BY <1>3
<1>8. ASSUME NEW i \in 1..n, seqs[i] # <<>>
      PROVE  place[i] \in 1..Len(g[n]) /\ g[n][place[i]] = seqs[i][1]
    <2>1. n \in 0..n /\ i \in 1..n
        BY <1>2
    <2>2. Placed(n)
        BY <1>6, <2>1
    <2> QED
        BY <1>8, <2>1, <2>2
<1>9. ASSUME NEW i \in 1..n, NEW j \in 1..n, i < j, seqs[i] # <<>> PROVE place[i] < place[j]
    <2>1. i \in 1..(j - 1) /\ j - 1 \in 0..n
        BY <1>2, <1>9
    <2>2. Len(g[i - 1]) + 1 \in 1..Len(g[j - 1])
        BY <1>6, <1>9, <2>1
    <2>3. g[j - 1] \in Seq(S) /\ g[i - 1] \in Seq(S)
        BY <1>3
    <2> QED
        BY <2>2, <2>3
<1>10. FlattenSeq(seqs) \in Seq(S)
    BY <1>1, <1>2
<1> HIDE DEF place
<1> QED
    BY <1>1, <1>7, <1>8, <1>9, <1>10

-----------------------------------------------------------------------------
(* Words and figures *)

\* What lower-casing leaves, with every figure the scan makes.
LowWords == {t \in WordTokens : t.upper = FALSE}
Figures == [form : {"plain", "comma", "kilo"}, word : {""}, upper : {FALSE},
            value : Nat, width : Nat \cup {Width(n) : n \in Nat}]
Low == LowWords \cup Figures

LEMMA WordFacts ==
    ASSUME NEW t \in LowWords
    PROVE  /\ t.form = "word" /\ t.word # "" /\ t = Word(t.word)
           /\ t \notin Figures
           /\ PlainFigure(t) = t /\ Pieces(t) = <<t>>
<1>1. t \in WordTokens /\ t.upper = FALSE
    BY DEF LowWords
<1>2. /\ t = [form |-> t.form, word |-> t.word, upper |-> t.upper, value |-> t.value,
              width |-> t.width]
      /\ t.form = "word" /\ t.word # "" /\ t.value = 0 /\ t.width = 0
    BY <1>1 DEF WordTokens
<1>3. t = Word(t.word)
    BY <1>1, <1>2 DEF Word
<1> QED
    BY <1>2, <1>3 DEF Figures, PlainFigure, Pieces

LEMMA Thousands ==
    ASSUME NEW v \in Nat
    PROVE  /\ v * 1000 \in Nat /\ v % 1000 \in Nat
           /\ v \div 1000 \in Nat /\ (v \div 1000) % 1000 \in Nat /\ (v \div 1000) \div 1000 \in Nat
OBVIOUS

LEMMA FigureFacts ==
    ASSUME NEW t \in Figures
    PROVE  /\ t.form # "word" /\ t.word = "" /\ t \notin LowWords
           /\ PlainFigure(t) \in Figures /\ PlainFigure(t).form = "plain"
           /\ t.form # "comma" => Pieces(t) = <<t>>
           /\ Pieces(t) \in Seq(Figures)
<1>1. t.form \in {"plain", "comma", "kilo"} /\ t.word = "" /\ t.value \in Nat
    BY DEF Figures
<1>2. ASSUME NEW n \in Nat PROVE Number(n) \in Figures /\ Number(n).form = "plain"
    BY DEF Number, Figure, Figures
<1>6. /\ t.value * 1000 \in Nat /\ t.value % 1000 \in Nat
      /\ t.value \div 1000 \in Nat /\ (t.value \div 1000) % 1000 \in Nat
      /\ (t.value \div 1000) \div 1000 \in Nat
    <2> DEFINE v == t.value
    <2>1. v \in Nat
        BY <1>1
    <2> HIDE DEF v
    <2>2. /\ v * 1000 \in Nat /\ v % 1000 \in Nat
          /\ v \div 1000 \in Nat /\ (v \div 1000) % 1000 \in Nat /\ (v \div 1000) \div 1000 \in Nat
        BY <2>1, Thousands
    <2> QED
        BY <2>2 DEF v
<1>3. PlainFigure(t) \in Figures /\ PlainFigure(t).form = "plain"
    <2>1. CASE t.form = "kilo"
        <3>1. PlainFigure(t) = Number(t.value * 1000)
            BY <2>1 DEF PlainFigure
        <3> QED
            BY <1>2, <1>6, <3>1
    <2>2. CASE t.form = "comma"
        <3>1. PlainFigure(t) = Number(t.value)
            BY <2>2 DEF PlainFigure
        <3> QED
            BY <1>1, <1>2, <3>1
    <2>3. CASE t.form = "plain"
        BY <2>3 DEF PlainFigure
    <2> QED
        BY <1>1, <2>1, <2>2, <2>3
<1>4. Pieces(t) \in Seq(Figures)
    <2>1. CASE t.form = "comma"
        <3>2. Number(t.value \div 1000) \in Figures /\ Number((t.value \div 1000) \div 1000) \in Figures
            BY <1>2, <1>6
        <3>5. \A n \in Nat : Figure("plain", n, 3) \in Figures
            BY DEF Figure, Figures
        <3>3. /\ Figure("plain", t.value % 1000, 3) \in Figures
              /\ Figure("plain", (t.value \div 1000) % 1000, 3) \in Figures
            BY <1>6, <3>5
        <3>4. \A x, y, z \in Figures : <<x, y>> \in Seq(Figures) /\ <<x, y, z>> \in Seq(Figures)
            OBVIOUS
        <3> QED
            BY <2>1, <3>2, <3>3, <3>4 DEF Pieces
    <2>2. CASE t.form # "comma"
        BY <2>2 DEF Pieces
    <2> QED
        BY <2>1, <2>2
<1>5. t.form # "comma" => Pieces(t) = <<t>>
    BY DEF Pieces
<1> QED
    BY <1>1, <1>3, <1>4, <1>5, WordFacts

LEMMA NumberIsFigure == ASSUME NEW n \in Nat PROVE Number(n) \in Figures
BY DEF Number, Figure, Figures

LEMMA LowerType ==
    ASSUME NEW text, text \in Seq(Tokens) \/ text \in Seq(Low)
    PROVE  /\ Lower(text) \in Seq(Low) /\ Len(Lower(text)) = Len(text) /\ DOMAIN text = 1..Len(text)
           /\ text \in Seq(Low) => Lower(text) = text
<1>1. ASSUME NEW t \in Tokens PROVE [t EXCEPT !.upper = FALSE] \in Low
    <2>1. CASE t \in WordTokens
        BY <2>1 DEF WordTokens, Low, LowWords
    <2>2. CASE t \in FigureTokens
        <3>2. t.width \in 1..9
            BY <2>2 DEF FigureTokens
        <3>1. t.width \in Nat
            BY <3>2
        <3> QED
            BY <2>2, <3>1 DEF FigureTokens, Low, Figures
    <2> QED
        BY <2>1, <2>2 DEF Tokens
<1>2. ASSUME NEW t \in Low PROVE [t EXCEPT !.upper = FALSE] = t
    <2>1. CASE t \in LowWords
        BY <2>1 DEF LowWords, WordTokens
    <2>2. CASE t \in Figures
        BY <2>2 DEF Figures
    <2> QED
        BY <2>1, <2>2 DEF Low
<1>3. Len(text) \in Nat /\ DOMAIN text = 1..Len(text)
    OBVIOUS
<1>4. ASSUME NEW i \in 1..Len(text)
      PROVE  /\ [text[i] EXCEPT !.upper = FALSE] \in Low
             /\ text \in Seq(Low) => [text[i] EXCEPT !.upper = FALSE] = text[i]
    <2>1. CASE text \in Seq(Tokens)
        <3>1. text[i] \in Tokens
            BY <2>1
        <3>2. text \in Seq(Low) => text[i] \in Low
            OBVIOUS
        <3> QED
            BY <1>1, <1>2, <3>1, <3>2
    <2>2. CASE text \in Seq(Low)
        <3>1. text[i] \in Low
            BY <2>2
        <3> QED
            BY <1>2, <3>1
    <2> QED
        BY <2>1, <2>2
<1>5. Lower(text) = [i \in 1..Len(text) |-> [text[i] EXCEPT !.upper = FALSE]]
    BY <1>3 DEF Lower
<1>6. Lower(text) \in Seq(Low) /\ Len(Lower(text)) = Len(text)
    BY <1>3, <1>4, <1>5
<1>7. ASSUME text \in Seq(Low) PROVE Lower(text) = text
    <2>1. text = [i \in 1..Len(text) |-> text[i]]
        BY <1>7
    <2> QED
        BY <1>4, <1>5, <1>7, <2>1
<1> QED
    BY <1>3, <1>6, <1>7

-----------------------------------------------------------------------------
(* Reading number words *)

Runs == [open : BOOLEAN, current : Nat, total : Nat]
Readings == [out : Seq(Low), run : Runs]
Start == [out |-> <<>>, run |-> EmptyRun]

LEMMA WrittenIs ==
    ASSUME NEW out \in Seq(Low), NEW run \in Runs
    PROVE  /\ run.open => \E n \in Figures : Written(out, run) = Append(out, n)
           /\ ~run.open => Written(out, run) = out
           /\ Written(out, run) \in Seq(Low)
<1>1. run.total \in Nat /\ run.current \in Nat
    BY DEF Runs
<1> DEFINE sum == run.total + run.current
<1>2. sum \in Nat
    BY <1>1
<1>3. Number(sum) \in Figures
    BY <1>2, NumberIsFigure
<1>4. run.open => Written(out, run) = Append(out, Number(sum))
    BY DEF Written
<1>5. ~run.open => Written(out, run) = out
    BY DEF Written
<1> HIDE DEF sum
<1>6. Append(out, Number(sum)) \in Seq(Low)
    BY <1>3 DEF Low
<1> QED
    BY <1>3, <1>4, <1>5, <1>6

LEMMA AccumulatedType ==
    ASSUME NEW run \in Runs, NEW w \in NumberWords
    PROVE  Accumulated(run, w) \in Runs /\ Accumulated(run, w).open
<1> DEFINE current == IF run.current = 0 THEN 1 ELSE run.current
<1>1. current \in Nat /\ run.current \in Nat /\ run.total \in Nat
    BY DEF Runs
<1>2. CASE w \in DOMAIN NumberWordUnits
    <2>1. NumberWordUnits[w] \in Nat
        BY <1>2, NumberWordAssumption
    <2>2. run.current + NumberWordUnits[w] \in Nat
        BY <1>1, <2>1
    <2>3. Accumulated(run, w) =
              [run EXCEPT !.open = TRUE, !.current = run.current + NumberWordUnits[w]]
        BY <1>2 DEF Accumulated, Runs
    <2> QED
        BY <2>2, <2>3 DEF Runs
<1>3. CASE w \notin DOMAIN NumberWordUnits
    <2> DEFINE scale == NumberWordScales[w]
    <2>1. scale \in Nat
        BY <1>3, NumberWordAssumption DEF NumberWords
    <2>2. Accumulated(run, w) = IF scale = 100
              THEN [run EXCEPT !.open = TRUE, !.current = current * 100]
              ELSE [run EXCEPT !.open = TRUE, !.current = 0, !.total = run.total + current * scale]
        BY <1>3 DEF Accumulated, Runs
    <2> HIDE DEF scale, current
    <2>3. current * 100 \in Nat
        BY <1>1
    <2>4. current * scale \in Nat
        BY <1>1, <2>1
    <2> DEFINE part == current * scale
               total == run.total
    <2>5. part \in Nat /\ total \in Nat
        BY <1>1, <2>4
    <2> HIDE DEF part, total
    <2>6. total + part \in Nat
        BY <2>5
    <2>7. run.total + current * scale \in Nat
        BY <2>6 DEF part, total
    <2>8. ASSUME NEW a \in Nat, NEW b \in Nat
          PROVE  /\ [run EXCEPT !.open = TRUE, !.current = a, !.total = b] \in Runs
                 /\ [run EXCEPT !.open = TRUE, !.current = a, !.total = b].open
                 /\ [run EXCEPT !.open = TRUE, !.current = a] \in Runs
                 /\ [run EXCEPT !.open = TRUE, !.current = a].open
        BY DEF Runs
    <2>9. CASE scale = 100
        <3>1. Accumulated(run, w) = [run EXCEPT !.open = TRUE, !.current = current * 100]
            BY <2>2, <2>9
        <3> QED
            BY <2>3, <2>8, <3>1
    <2>10. CASE scale # 100
        <3>1. Accumulated(run, w) =
                  [run EXCEPT !.open = TRUE, !.current = 0, !.total = run.total + current * scale]
            BY <2>2, <2>10
        <3> DEFINE sum == run.total + current * scale
        <3>2. sum \in Nat /\ 0 \in Nat
            BY <2>7
        <3>3. Accumulated(run, w) = [run EXCEPT !.open = TRUE, !.current = 0, !.total = sum]
            BY <3>1
        <3> HIDE DEF sum
        <3> QED
            BY <2>8, <3>2, <3>3
    <2> QED
        BY <2>9, <2>10
<1> QED
    BY <1>2, <1>3

LEMMA ReadIs ==
    ASSUME NEW acc \in Readings, NEW t \in Low
    PROVE  /\ Read(acc, t) \in Readings
           /\ t.word \in NumberWords => Read(acc, t).out = acc.out /\ Read(acc, t).run.open
           /\ t.word \notin NumberWords /\ acc.run.open /\ t.word = "and" => Read(acc, t) = acc
           /\ t.word \notin NumberWords /\ ~(acc.run.open /\ t.word = "and") =>
                  Read(acc, t) = [out |-> Append(Written(acc.out, acc.run), t), run |-> EmptyRun]
<1>1. acc.out \in Seq(Low) /\ acc.run \in Runs
    BY DEF Readings
<1>2. CASE t.word \in NumberWords
    <2>1. Read(acc, t) = [acc EXCEPT !.run = Accumulated(acc.run, t.word)]
        BY <1>2 DEF Read, Readings
    <2>2. Accumulated(acc.run, t.word) \in Runs /\ Accumulated(acc.run, t.word).open
        BY <1>1, <1>2, AccumulatedType
    <2> QED
        BY <1>2, <2>1, <2>2 DEF Readings
<1>3. CASE t.word \notin NumberWords /\ acc.run.open /\ t.word = "and"
    BY <1>3 DEF Read
<1>4. CASE t.word \notin NumberWords /\ ~(acc.run.open /\ t.word = "and")
    <2>1. Read(acc, t) = [out |-> Append(Written(acc.out, acc.run), t), run |-> EmptyRun]
        BY <1>4 DEF Read
    <2>2. Append(Written(acc.out, acc.run), t) \in Seq(Low)
        BY <1>1, WrittenIs
    <2>3. EmptyRun \in Runs
        BY DEF EmptyRun, Runs
    <2> QED
        BY <1>4, <2>1, <2>2, <2>3 DEF Readings
<1> QED
    BY <1>2, <1>3, <1>4

\* What has been read after every token of a text.
Reads(f, text) ==
    /\ f \in [0..Len(text) -> Readings]
    /\ f[0] = Start
    /\ \A i \in 1..Len(text) : f[i] = Read(f[i - 1], text[i])

LEMMA Reading ==
    ASSUME NEW text \in Seq(Low)
    PROVE  \E f : /\ Reads(f, text)
                  /\ CanonicalizeNumberWords(text) = Written(f[Len(text)].out, f[Len(text)].run)
<1> DEFINE n == Len(text)
           upTo[k \in 0..n] ==
               IF k = 0 THEN [out |-> <<>>, run |-> EmptyRun] ELSE Read(upTo[k - 1], text[k])
           Equation(g) == g = [k \in 0..n |->
               IF k = 0 THEN [out |-> <<>>, run |-> EmptyRun] ELSE Read(g[k - 1], text[k])]
           step == [p \in Nat \X Readings |-> IF p[1] \in 1..n THEN Read(p[2], text[p[1]]) ELSE p[2]]
<1>1. n \in Nat /\ \A i \in 1..n : text[i] \in Low
    OBVIOUS
<1>2. CanonicalizeNumberWords(text) = Written(upTo[n].out, upTo[n].run)
    BY DEF CanonicalizeNumberWords
<1>3. \A i \in Nat, acc \in Readings : i \in 1..n => step[<<i, acc>>] = Read(acc, text[i])
    OBVIOUS
<1>4. step \in [Nat \X Readings -> Readings]
    BY <1>1, ReadIs
<1>5. Start \in Readings
    BY DEF Start, Readings, EmptyRun, Runs
<1> HIDE DEF step
<1>6. PICK f : Iterates(f, Readings, Start, step, n)
    <2> HIDE DEF n
    <2> QED
        BY <1>1, <1>4, <1>5, Recursion
<1>7. ASSUME NEW i \in 1..n PROVE f[i] = Read(f[i - 1], text[i])
    <2>1. i \in Nat /\ i - 1 \in 0..n
        BY <1>1
    <2>2. f[i - 1] \in Readings
        BY <1>6, <2>1 DEF Iterates
    <2>3. step[<<i, f[i - 1]>>] = Read(f[i - 1], text[i])
        BY <1>3, <2>1, <2>2
    <2> QED
        BY <1>6, <2>3 DEF Iterates
<1>8. Reads(f, text)
    BY <1>6, <1>7 DEF Reads, Iterates
<1>9. Equation(f)
    <2>1. \A k \in 0..n : k # 0 => k \in 1..n
        BY <1>1
    <2>2. \A k \in 0..n : f[k] = IF k = 0 THEN [out |-> <<>>, run |-> EmptyRun]
                                 ELSE Read(f[k - 1], text[k])
        BY <1>7, <1>8, <2>1 DEF Reads, Start
    <2>3. f = [k \in 0..n |-> f[k]]
        BY <1>8 DEF Reads
    <2> QED
        BY <2>2, <2>3
<1>10. Equation(upTo)
    BY <1>9
<1> HIDE DEF upTo
<1> DEFINE T == {k \in Nat : k \in 0..n => upTo[k] = f[k]}
<1>11. 0 \in T
    BY <1>1, <1>9, <1>10
<1>12. ASSUME NEW k \in Nat, k \in T PROVE k + 1 \in T
    <2> SUFFICES ASSUME k + 1 \in 0..n PROVE upTo[k + 1] = f[k + 1]
        OBVIOUS
    <2>1. k \in 0..n /\ upTo[k] = f[k]
        BY <1>1, <1>12
    <2>2. k + 1 # 0 /\ (k + 1) - 1 = k
        OBVIOUS
    <2>3. upTo[k + 1] = Read(upTo[(k + 1) - 1], text[k + 1])
        BY <1>10, <2>2
    <2>4. f[k + 1] = Read(f[(k + 1) - 1], text[k + 1])
        BY <1>9, <2>2
    <2> QED
        BY <2>1, <2>2, <2>3, <2>4
<1> HIDE DEF T
<1>13. n \in T
    BY <1>1, <1>11, <1>12, Induction
<1>14. upTo[n] = f[n]
    BY <1>1, <1>13 DEF T
<1> QED
    BY <1>2, <1>8, <1>14

-----------------------------------------------------------------------------
(* What normalisation keeps *)

Ordinary(t) == t \in LowWords /\ t.word \notin NumberWords

LEMMA AppendedSet ==
    ASSUME NEW S, NEW s \in Seq(S), NEW e \in S
    PROVE  ToSet(Append(s, e)) = ToSet(s) \cup {e}
<1>1. /\ DOMAIN s = 1..Len(s) /\ Len(s) \in Nat
      /\ DOMAIN Append(s, e) = 1..(Len(s) + 1)
      /\ Append(s, e)[Len(s) + 1] = e
      /\ \A i \in 1..Len(s) : Append(s, e)[i] = s[i]
    OBVIOUS
<1>2. \A i \in 1..(Len(s) + 1) : i \in 1..Len(s) \/ i = Len(s) + 1
    BY <1>1
<1>3. ToSet(Append(s, e)) \subseteq ToSet(s) \cup {e}
    BY <1>1, <1>2 DEF ToSet
<1>4. ToSet(s) \cup {e} \subseteq ToSet(Append(s, e))
    <2>1. \A i \in 1..Len(s) : i \in 1..(Len(s) + 1)
        BY <1>1
    <2>2. Len(s) + 1 \in 1..(Len(s) + 1)
        BY <1>1
    <2> QED
        BY <1>1, <2>1, <2>2 DEF ToSet
<1> QED
    BY <1>3, <1>4

\* A figure in what has been read so far, the open run included.
HasFigure(acc) == ToSet(Written(acc.out, acc.run)) \cap Figures # {}

LEMMA ReadKeeps ==
    ASSUME NEW acc \in Readings, NEW t \in Low
    PROVE  /\ ToSet(acc.out) \subseteq ToSet(Read(acc, t).out)
           /\ Ordinary(t) /\ t.word # "and" => t \in ToSet(Read(acc, t).out)
           /\ HasFigure(acc) \/ ~Ordinary(t) => HasFigure(Read(acc, t)) \/ acc.run.open
           /\ HasFigure(acc) => HasFigure(Read(acc, t))
<1> DEFINE next == Read(acc, t)
<1>1. /\ acc.out \in Seq(Low) /\ acc.run \in Runs
      /\ next \in Readings /\ next.out \in Seq(Low) /\ next.run \in Runs
    BY ReadIs DEF Readings
<1>2. CASE t.word \in NumberWords
    <2>1. next.out = acc.out /\ next.run.open
        BY <1>2, ReadIs
    <2>2. PICK n \in Figures : Written(next.out, next.run) = Append(next.out, n)
        BY <1>1, <2>1, WrittenIs
    <2>3. n \in ToSet(Written(next.out, next.run))
        BY <1>1, <2>2, AppendedSet DEF Low
    <2>4. HasFigure(next)
        BY <2>3 DEF HasFigure
    <2> QED
        BY <1>2, <2>1, <2>4 DEF Ordinary
<1>3. CASE t.word \notin NumberWords /\ acc.run.open /\ t.word = "and"
    <2>1. next = acc
        BY <1>3, ReadIs
    <2> QED
        BY <1>3, <2>1
<1>4. CASE t.word \notin NumberWords /\ ~(acc.run.open /\ t.word = "and")
    <2> DEFINE written == Written(acc.out, acc.run)
    <2>1. next = [out |-> Append(written, t), run |-> EmptyRun]
        BY <1>4, ReadIs
    <2>2. written \in Seq(Low)
        BY <1>1, WrittenIs
    <2>3. ToSet(acc.out) \subseteq ToSet(written)
        <3>1. CASE acc.run.open
            <4>1. PICK n \in Figures : written = Append(acc.out, n)
                BY <1>1, <3>1, WrittenIs
            <4> QED
                BY <1>1, <4>1, AppendedSet DEF Low
        <3>2. CASE ~acc.run.open
            BY <1>1, <3>2, WrittenIs
        <3> QED
            BY <3>1, <3>2
    <2> HIDE DEF written
    <2>4. ToSet(next.out) = ToSet(written) \cup {t}
        BY <2>1, <2>2, AppendedSet
    <2>5. Written(next.out, next.run) = next.out
        <3>1. ~next.run.open
            BY <2>1 DEF EmptyRun
        <3> QED
            BY <1>1, <3>1, WrittenIs
    <2>6. HasFigure(acc) => HasFigure(next)
        BY <2>4, <2>5 DEF HasFigure, written
    <2>7. ~Ordinary(t) => HasFigure(next)
        <3> SUFFICES ASSUME ~Ordinary(t) PROVE t \in Figures
            BY <2>4, <2>5 DEF HasFigure
        <3> QED
            BY <1>4 DEF Ordinary, Low
    <2> QED
        BY <2>3, <2>4, <2>6, <2>7
<1> QED
    BY <1>2, <1>3, <1>4

\* Reading makes figures only: every word it leaves was read.
LEMMA WordsWritten ==
    ASSUME NEW acc \in Readings
    PROVE  /\ Written(acc.out, acc.run) \in Seq(Low)
           /\ ToSet(Written(acc.out, acc.run)) \subseteq ToSet(acc.out) \cup Figures
<1> DEFINE written == Written(acc.out, acc.run)
<1>1. acc.out \in Seq(Low) /\ acc.run \in Runs
    BY DEF Readings
<1>2. CASE acc.run.open
    <2>1. PICK n \in Figures : written = Append(acc.out, n)
        BY <1>1, <1>2, WrittenIs
    <2>2. n \in Low
        BY DEF Low
    <2>3. Append(acc.out, n) \in Seq(Low) /\ ToSet(Append(acc.out, n)) = ToSet(acc.out) \cup {n}
        BY <1>1, <2>2, AppendedSet
    <2> HIDE DEF written
    <2>4. written \in Seq(Low) /\ ToSet(written) \subseteq ToSet(acc.out) \cup Figures
        BY <2>1, <2>3
    <2> QED
        BY <2>4 DEF written
<1>3. CASE ~acc.run.open
    BY <1>1, <1>3, WrittenIs
<1> QED
    BY <1>2, <1>3

LEMMA ReadAddsNoWord ==
    ASSUME NEW acc \in Readings, NEW t \in Low
    PROVE  ToSet(Read(acc, t).out) \subseteq ToSet(acc.out) \cup Figures \cup {t}
<1> DEFINE written == Written(acc.out, acc.run)
<1>1. \/ Read(acc, t).out = acc.out
      \/ Read(acc, t) = [out |-> Append(written, t), run |-> EmptyRun]
    BY ReadIs
<1> HIDE DEF written
<1>2. written \in Seq(Low) /\ ToSet(written) \subseteq ToSet(acc.out) \cup Figures
    BY WordsWritten DEF written
<1>3. ToSet(Append(written, t)) = ToSet(written) \cup {t}
    BY <1>2, AppendedSet
<1>4. \/ ToSet(Read(acc, t).out) = ToSet(acc.out)
      \/ ToSet(Read(acc, t).out) = ToSet(written) \cup {t}
    <2>1. \/ Read(acc, t).out = acc.out
          \/ Read(acc, t).out = Append(written, t)
        BY <1>1
    <2> QED
        BY <1>3, <2>1
<1> QED
    BY <1>2, <1>4

LEMMA OnlyReadWords ==
    ASSUME NEW text \in Seq(Low), NEW f, Reads(f, text)
    PROVE  ToSet(f[Len(text)].out) \subseteq ToSet(text) \cup Figures
<1> DEFINE n == Len(text)
           T == {k \in Nat : k \in 0..n => ToSet(f[k].out) \subseteq ToSet(text) \cup Figures}
<1>1. n \in Nat /\ \A i \in 1..n : text[i] \in Low /\ text[i] \in ToSet(text)
    BY DEF ToSet
<1>2. 0 \in T
    <2>1. f[0] = Start
        BY DEF Reads
    <2>2. ToSet(Start.out) = {}
        BY DEF Start, ToSet
    <2> QED
        BY <2>1, <2>2
<1>3. ASSUME NEW k \in Nat, k \in T PROVE k + 1 \in T
    <2> SUFFICES ASSUME k + 1 \in 0..n
                 PROVE  ToSet(f[k + 1].out) \subseteq ToSet(text) \cup Figures
        OBVIOUS
    <2>1. k \in 0..n /\ k + 1 \in 1..n /\ (k + 1) - 1 = k
        BY <1>1
    <2>2. f[k] \in Readings /\ f[k + 1] = Read(f[k], text[k + 1]) /\ text[k + 1] \in Low
        BY <1>1, <2>1 DEF Reads
    <2>3. ToSet(f[k + 1].out) \subseteq ToSet(f[k].out) \cup Figures \cup {text[k + 1]}
        BY <2>2, ReadAddsNoWord
    <2>4. ToSet(f[k].out) \subseteq ToSet(text) \cup Figures /\ text[k + 1] \in ToSet(text)
        BY <1>1, <1>3, <2>1
    <2> QED
        BY <2>3, <2>4
<1> HIDE DEF T
<1>4. n \in T
    BY <1>1, <1>2, <1>3, Induction
<1> QED
    BY <1>1, <1>4 DEF T

LEMMA WordsAreRead ==
    ASSUME NEW text \in Seq(Low), NEW f, Reads(f, text)
    PROVE  \A i \in 1..Len(text) : Ordinary(text[i]) /\ text[i].word # "and" =>
               text[i] \in ToSet(f[Len(text)].out)
<1> DEFINE n == Len(text)
           Kept(k) == \A i \in 1..k : Ordinary(text[i]) /\ text[i].word # "and" =>
                          text[i] \in ToSet(f[k].out)
           T == {k \in Nat : k \in 0..n => Kept(k)}
<1>1. n \in Nat /\ \A i \in 1..n : text[i] \in Low
    OBVIOUS
<1>2. 0 \in T
    OBVIOUS
<1>3. ASSUME NEW k \in Nat, k \in T PROVE k + 1 \in T
    <2> SUFFICES ASSUME k + 1 \in 0..n PROVE Kept(k + 1)
        OBVIOUS
    <2>1. k \in 0..n /\ k + 1 \in 1..n /\ (k + 1) - 1 = k
        BY <1>1
    <2>2. f[k] \in Readings /\ f[k + 1] = Read(f[k], text[k + 1])
        BY <2>1 DEF Reads
    <2>3. Kept(k)
        BY <1>3, <2>1
    <2>4. /\ ToSet(f[k].out) \subseteq ToSet(f[k + 1].out)
          /\ Ordinary(text[k + 1]) /\ text[k + 1].word # "and" =>
                 text[k + 1] \in ToSet(f[k + 1].out)
        <3>1. text[k + 1] \in Low
            BY <1>1, <2>1
        <3> QED
            BY <2>2, <3>1, ReadKeeps
    <2>5. \A i \in 1..(k + 1) : i \in 1..k \/ i = k + 1
        OBVIOUS
    <2> QED
        BY <2>3, <2>4, <2>5
<1> HIDE DEF T
<1>4. n \in T
    BY <1>1, <1>2, <1>3, Induction
<1> QED
    BY <1>1, <1>4 DEF T

\* Without a figure in the end, every token read was an ordinary word.
LEMMA OnlyWordsRead ==
    ASSUME NEW text \in Seq(Low), NEW f, Reads(f, text), ~HasFigure(f[Len(text)])
    PROVE  /\ \A i \in 1..Len(text) : Ordinary(text[i])
           /\ f[Len(text)].out = text /\ ~f[Len(text)].run.open
<1> DEFINE n == Len(text)
           Plain(k) == /\ f[k].run = EmptyRun /\ Len(f[k].out) = k
                       /\ \A i \in 1..k : f[k].out[i] = text[i] /\ Ordinary(text[i])
           T == {k \in Nat : k \in 0..n => HasFigure(f[k]) \/ Plain(k)}
<1>1. n \in Nat /\ \A i \in 1..n : text[i] \in Low
    OBVIOUS
<1>2. 0 \in T
    <2>1. f[0] = Start
        BY DEF Reads
    <2> QED
        BY <2>1 DEF Start
<1>3. ASSUME NEW k \in Nat, k \in T PROVE k + 1 \in T
    <2> SUFFICES ASSUME k + 1 \in 0..n PROVE HasFigure(f[k + 1]) \/ Plain(k + 1)
        OBVIOUS
    <2>1. k \in 0..n /\ k + 1 \in 1..n /\ (k + 1) - 1 = k
        BY <1>1
    <2>2. f[k] \in Readings /\ f[k + 1] = Read(f[k], text[k + 1]) /\ text[k + 1] \in Low
        BY <1>1, <2>1 DEF Reads
    <2>3. CASE HasFigure(f[k])
        BY <2>2, <2>3, ReadKeeps
    <2>4. CASE Plain(k) /\ ~Ordinary(text[k + 1])
        <3>1. ~f[k].run.open
            BY <2>4 DEF EmptyRun
        <3> QED
            BY <2>2, <2>4, <3>1, ReadKeeps
    <2>5. CASE Plain(k) /\ Ordinary(text[k + 1])
        <3> DEFINE out == f[k].out
                   t == text[k + 1]
        <3>1. ~f[k].run.open /\ out \in Seq(Low) /\ f[k].run \in Runs /\ Len(out) = k
            BY <2>2, <2>5 DEF EmptyRun, Readings
        <3>2. Written(f[k].out, f[k].run) = out
            BY <3>1, WrittenIs
        <3>3. f[k + 1] = [out |-> Append(out, t), run |-> EmptyRun]
            <4>1. text[k + 1].word \notin NumberWords
                BY <2>5 DEF Ordinary
            <4>2. Read(f[k], text[k + 1]) =
                      [out |-> Append(Written(f[k].out, f[k].run), text[k + 1]), run |-> EmptyRun]
                BY <2>2, <3>1, <4>1, ReadIs
            <4> QED
                BY <2>2, <3>2, <4>2
        <3>4. \A i \in 1..k : out[i] = text[i] /\ Ordinary(text[i])
            BY <2>5
        <3>5. t = text[k + 1] /\ Ordinary(t) /\ t \in Low
            BY <2>2, <2>5
        <3> HIDE DEF out, t
        <3>6. f[k + 1].out = Append(out, t) /\ f[k + 1].run = EmptyRun
            BY <3>3
        <3>7. Len(Append(out, t)) = k + 1
            BY <3>1
        <3>8. \A i \in 1..(k + 1) : Append(out, t)[i] = text[i] /\ Ordinary(text[i])
            <4> TAKE i \in 1..(k + 1)
            <4>1. CASE i = k + 1
                BY <3>1, <3>5, <4>1
            <4>2. CASE i \in 1..k
                <5>1. Append(out, t)[i] = out[i]
                    BY <3>1, <3>5, <4>2
                <5> QED
                    BY <3>4, <4>2, <5>1
            <4>3. i = k + 1 \/ i \in 1..k
                OBVIOUS
            <4> QED
                BY <4>1, <4>2, <4>3
        <3>9. Plain(k + 1)
            BY <3>6, <3>7, <3>8
        <3> QED
            BY <3>9
    <2>6. HasFigure(f[k]) \/ Plain(k)
        BY <1>3, <2>1
    <2> QED
        BY <2>3, <2>4, <2>5, <2>6
<1> HIDE DEF T
<1>4. n \in T
    BY <1>1, <1>2, <1>3, Induction
<1>5. Plain(n)
    BY <1>1, <1>4 DEF T
<1>6. f[n] \in Readings
    BY <1>1 DEF Reads
<1> DEFINE out == f[n].out
<1>7. out \in Seq(Low) /\ Len(out) = Len(text) /\ \A i \in 1..Len(text) : out[i] = text[i]
    BY <1>5, <1>6 DEF Readings
<1>8. out = text
    <2> HIDE DEF out
    <2> QED
        BY <1>7
<1> QED
    BY <1>5, <1>8 DEF EmptyRun

\* What normalisation makes of a text.
LEMMA Normal ==
    ASSUME NEW text, text \in Seq(Tokens) \/ text \in Seq(Low)
    PROVE  /\ NormalizeForResidue(text) \in Seq(Low)
           /\ \A t \in ToSet(NormalizeForResidue(text)) \cap Figures : t.form = "plain"
           /\ \A t \in ToSet(Lower(text)) : Ordinary(t) /\ t.word # "and" =>
                  t \in ToSet(NormalizeForResidue(text))
           /\ ToSet(NormalizeForResidue(text)) \cap Figures = {} =>
                  /\ NormalizeForResidue(text) = Lower(text)
                  /\ \A t \in ToSet(Lower(text)) : Ordinary(t)
           /\ ToSet(NormalizeForResidue(text)) \subseteq ToSet(Lower(text)) \cup Figures
<1> DEFINE lower == Lower(text)
           n == Len(lower)
           canonical == CanonicalizeNumberWords(lower)
           normal == NormalizeForResidue(text)
<1>1. lower \in Seq(Low)
    BY LowerType
<1> HIDE DEF lower
<1>2. PICK f : Reads(f, lower) /\ canonical = Written(f[n].out, f[n].run)
    BY <1>1, Reading
<1>3. f[n].out \in Seq(Low) /\ f[n].run \in Runs
    <2>1. n \in 0..n
        BY <1>1
    <2>2. f[n] \in Readings
        BY <1>2, <2>1 DEF Reads
    <2> QED
        BY <2>2 DEF Readings
<1>4. canonical \in Seq(Low)
    BY <1>2, <1>3, WrittenIs
<1>5. normal = [i \in DOMAIN canonical |-> PlainFigure(canonical[i])]
    BY DEF NormalizeForResidue, lower
<1> HIDE DEF canonical, normal
<1>6. /\ DOMAIN canonical = 1..Len(canonical) /\ Len(canonical) \in Nat
      /\ \A i \in 1..Len(canonical) : canonical[i] \in Low
    BY <1>4
<1>7. ASSUME NEW t \in Low
      PROVE  /\ PlainFigure(t) \in Low
             /\ t \in Figures <=> PlainFigure(t) \in Figures
             /\ PlainFigure(t) \in Figures => PlainFigure(t).form = "plain"
             /\ t \notin Figures => PlainFigure(t) = t
    <2>1. CASE t \in LowWords
        BY <2>1, WordFacts DEF Low
    <2>2. CASE t \in Figures
        BY <2>2, FigureFacts DEF Low
    <2> QED
        BY <2>1, <2>2 DEF Low
<1>8. normal \in Seq(Low) /\ DOMAIN normal = DOMAIN canonical
    BY <1>5, <1>6, <1>7
<1>9. ToSet(normal) = {PlainFigure(t) : t \in ToSet(canonical)} /\ ToSet(canonical) \subseteq Low
    BY <1>5, <1>6, <1>8 DEF ToSet
<1>10. \A t \in ToSet(normal) \cap Figures : t.form = "plain"
    BY <1>7, <1>9
<1>11. ASSUME NEW t \in ToSet(lower), Ordinary(t), t.word # "and" PROVE t \in ToSet(normal)
    <2>1. t \in ToSet(f[n].out)
        <3>1. PICK i \in 1..n : t = lower[i]
            BY <1>1 DEF ToSet
        <3> QED
            BY <1>1, <1>2, <1>11, <3>1, WordsAreRead
    <2>2. ToSet(f[n].out) \subseteq ToSet(canonical)
        <3>1. CASE f[n].run.open
            <4>1. PICK m \in Figures : canonical = Append(f[n].out, m)
                BY <1>2, <1>3, <3>1, WrittenIs
            <4> QED
                BY <1>3, <4>1, AppendedSet DEF Low
        <3>2. CASE ~f[n].run.open
            BY <1>2, <1>3, <3>2, WrittenIs
        <3> QED
            BY <3>1, <3>2
    <2>3. t = PlainFigure(t)
        BY <1>11, WordFacts DEF Ordinary
    <2> QED
        BY <1>9, <2>1, <2>2, <2>3
<1>12. ASSUME ToSet(normal) \cap Figures = {}
       PROVE  normal = lower /\ \A t \in ToSet(lower) : Ordinary(t)
    <2>1. ToSet(canonical) \cap Figures = {}
        BY <1>7, <1>9, <1>12
    <2>2. ~HasFigure(f[n])
        BY <1>2, <2>1 DEF HasFigure
    <2>3. /\ \A i \in 1..n : Ordinary(lower[i])
          /\ f[n].out = lower /\ ~f[n].run.open
        BY <1>1, <1>2, <2>2, OnlyWordsRead
    <2>4. canonical = lower
        BY <1>2, <1>3, <2>3, WrittenIs
    <2>5. \A i \in 1..n : PlainFigure(lower[i]) = lower[i]
        BY <2>3, WordFacts DEF Ordinary
    <2>6. normal = [i \in 1..n |-> lower[i]]
        BY <1>1, <1>5, <2>4, <2>5
    <2>7. [i \in 1..n |-> lower[i]] = lower
        BY <1>1
    <2>8. \A t \in ToSet(lower) : Ordinary(t)
        BY <1>1, <2>3 DEF ToSet
    <2> QED
        BY <2>6, <2>7, <2>8
<1>13. ToSet(normal) \subseteq ToSet(lower) \cup Figures
    <2>1. ToSet(f[n].out) \subseteq ToSet(lower) \cup Figures
        BY <1>1, <1>2, OnlyReadWords
    <2>2. ToSet(canonical) \subseteq ToSet(f[n].out) \cup Figures
        <3>1. f[n] \in Readings
            BY <1>1, <1>2 DEF Reads
        <3> QED
            BY <1>2, <3>1, WordsWritten
    <2> QED
        BY <1>7, <1>9, <2>1, <2>2
<1> QED
    BY <1>8, <1>10, <1>11, <1>12, <1>13 DEF lower, normal

\* A word alone is its own normal form, and that of nothing else.
LEMMA WordAlone ==
    ASSUME NEW w \in LowWords, NEW t \in Low
    PROVE  /\ Ordinary(w) => NormalizeForResidue(<<w>>) = <<w>>
           /\ NormalizeForResidue(<<t>>) = <<w>> => t = w
<1>1. <<t>> \in Seq(Low) /\ <<w>> \in Seq(Low) /\ w \in Low
    BY DEF Low
<1>2. Lower(<<t>>) = <<t>> /\ Lower(<<w>>) = <<w>>
    BY <1>1, LowerType
<1>3. \A x : ToSet(<<x>>) = {x}
    BY DEF ToSet
<1>4. ASSUME NormalizeForResidue(<<t>>) = <<w>> PROVE t = w
    <2>1. ToSet(NormalizeForResidue(<<t>>)) \cap Figures = {}
        BY <1>3, <1>4, WordFacts
    <2>2. <<w>> = <<t>>
        BY <1>1, <1>2, <1>4, <2>1, Normal
    <2> QED
        BY <2>2
<1>5. ASSUME Ordinary(w) PROVE NormalizeForResidue(<<w>>) = <<w>>
    <2>1. PICK f : Reads(f, <<w>>) /\ CanonicalizeNumberWords(<<w>>) =
                                          Written(f[Len(<<w>>)].out, f[Len(<<w>>)].run)
        BY <1>1, Reading
    <2>2. Len(<<w>>) = 1 /\ <<w>>[1] = w
        OBVIOUS
    <2>3. f[1] = Read(f[1 - 1], w)
        BY <2>1, <2>2 DEF Reads
    <2>4. f[1 - 1] = Start
        BY <2>1 DEF Reads
    <2>5. Start \in Readings /\ ~Start.run.open /\ Start.out = <<>>
        BY DEF Start, Readings, EmptyRun, Runs
    <2>6. Written(Start.out, Start.run) = <<>>
        BY <2>5 DEF Written
    <2>7. f[1] = [out |-> Append(<<>>, w), run |-> EmptyRun]
        <3>1. w.word \notin NumberWords
            BY <1>5 DEF Ordinary
        <3>2. Read(Start, w) = [out |-> Append(Written(Start.out, Start.run), w), run |-> EmptyRun]
            BY <1>1, <2>5, <3>1, ReadIs
        <3> QED
            BY <2>3, <2>4, <2>6, <3>2
    <2>8. Written(f[1].out, f[1].run) = <<w>>
        BY <2>7 DEF Written, EmptyRun
    <2>9. CanonicalizeNumberWords(Lower(<<w>>)) = <<w>>
        BY <1>2, <2>1, <2>2, <2>8
    <2> DEFINE c == CanonicalizeNumberWords(Lower(<<w>>))
    <2>10. NormalizeForResidue(<<w>>) = [i \in DOMAIN c |-> PlainFigure(c[i])]
        BY DEF NormalizeForResidue
    <2>13. c = <<w>> /\ PlainFigure(w) = w
        BY <2>9, WordFacts
    <2> HIDE DEF c
    <2>11. DOMAIN c = 1..1 /\ \A i \in 1..1 : PlainFigure(c[i]) = w
        <3>1. DOMAIN c = 1..1 /\ \A i \in 1..1 : c[i] = w
            BY <2>13
        <3> QED
            BY <2>13, <3>1
    <2>12. NormalizeForResidue(<<w>>) = [i \in 1..1 |-> w]
        BY <2>10, <2>11
    <2> QED
        BY <2>12
<1> QED
    BY <1>4, <1>5

-----------------------------------------------------------------------------
(* The distinctive tokens *)

LEMMA DistinctiveAre ==
    ASSUME NEW text, text \in Seq(Tokens) \/ text \in Seq(Low)
    PROVE  /\ DistinctiveTokens(text) \in Seq(Low)
           /\ \A t \in ToSet(DistinctiveTokens(text)) :
                  t \in Figures \/ (t \in ToSet(Lower(text)) /\ t \in LowWords /\ Distinctive(t))
           /\ \A t \in ToSet(Lower(text)) :
                  Distinctive(t) /\ t.form # "comma" => t \in ToSet(DistinctiveTokens(text))
           /\ IsInjective(DistinctiveTokens(text)) =>
                  \A i, j \in DOMAIN Lower(text) :
                      i < j /\ Distinctive(Lower(text)[i]) /\ Lower(text)[i] \in LowWords
                            /\ Distinctive(Lower(text)[j]) /\ Lower(text)[j] \in LowWords
                      => Lower(text)[i] # Lower(text)[j]
<1> DEFINE lower == Lower(text)
           n == Len(lower)
           W == {t \in ToSet(lower) : t \in LowWords /\ Distinctive(t)}
           S == Figures \cup W
           seqs == [i \in 1..n |-> IF Distinctive(lower[i]) THEN Pieces(lower[i]) ELSE <<>>]
           tokens == DistinctiveTokens(text)
<1>1. lower \in Seq(Low) /\ DOMAIN text = 1..n /\ DOMAIN lower = 1..n /\ n \in Nat
    BY LowerType
<1>2. tokens = FlattenSeq(seqs)
    BY <1>1 DEF DistinctiveTokens
<1> HIDE DEF lower, tokens
<1>3. ASSUME NEW i \in 1..n
      PROVE  /\ lower[i] \in Low /\ lower[i] \in ToSet(lower)
             /\ seqs[i] \in Seq(S)
             /\ Distinctive(lower[i]) /\ lower[i].form # "comma" => seqs[i] = <<lower[i]>>
             /\ lower[i] \in LowWords => lower[i].form # "comma"
    <2>1. lower[i] \in Low /\ lower[i] \in ToSet(lower)
        BY <1>1 DEF ToSet
    <2>2. CASE ~Distinctive(lower[i])
        <3>1. seqs[i] = <<>>
            BY <2>2
        <3>2. seqs[i] \in Seq(S)
            <4> HIDE DEF S, seqs
            <4> QED
                BY <3>1
        <3>3. lower[i] \in LowWords => lower[i].form # "comma"
            BY WordFacts
        <3> QED
            BY <2>1, <2>2, <3>2, <3>3
    <2>3. CASE Distinctive(lower[i]) /\ lower[i] \in LowWords
        <3>1. seqs[i] = <<lower[i]>> /\ lower[i] \in W
            BY <2>1, <2>3, WordFacts
        <3>2. lower[i].form # "comma"
            BY <2>3, WordFacts
        <3>4. lower[i] \in S
            BY <3>1
        <3>3. seqs[i] \in Seq(S)
            <4> HIDE DEF S, seqs
            <4>1. \A x \in S : <<x>> \in Seq(S)
                OBVIOUS
            <4> QED
                BY <3>1, <3>4, <4>1
        <3> QED
            BY <2>1, <3>1, <3>2, <3>3
    <2>4. CASE Distinctive(lower[i]) /\ lower[i] \in Figures
        <3>1. seqs[i] = Pieces(lower[i])
            BY <2>4
        <3>2. seqs[i] \in Seq(Figures) /\ lower[i] \notin LowWords
            BY <2>4, <3>1, FigureFacts
        <3>3. seqs[i] \in Seq(S)
            BY <3>2
        <3> QED
            BY <2>1, <2>4, <3>1, <3>2, <3>3, FigureFacts
    <2> QED
        BY <2>1, <2>2, <2>3, <2>4 DEF Low
<1> DEFINE P(place) ==
        /\ place \in [1..n -> Nat]
        /\ \A i \in 1..n : seqs[i] # <<>> =>
               place[i] \in 1..Len(tokens) /\ tokens[place[i]] = seqs[i][1]
        /\ \A i, j \in 1..n : i < j /\ seqs[i] # <<>> => place[i] < place[j]
<1>4. tokens \in Seq(S) /\ \E place : P(place)
    <2>1. seqs \in Seq(Seq(S)) /\ Len(seqs) = n
        BY <1>1, <1>3
    <2> HIDE DEF seqs, S, n
    <2> QED
        BY <1>2, <2>1, FlattenPlaces
<1>5. PICK place : P(place)
    BY <1>4
<1>6. DOMAIN tokens = 1..Len(tokens)
    BY <1>4
<1>7. ASSUME NEW i \in 1..n, Distinctive(lower[i]), lower[i].form # "comma"
      PROVE  place[i] \in DOMAIN tokens /\ tokens[place[i]] = lower[i] /\ seqs[i] # <<>>
    <2>1. seqs[i] = <<lower[i]>>
        BY <1>3, <1>7
    <2>2. seqs[i] # <<>> /\ seqs[i][1] = lower[i]
        BY <2>1
    <2> HIDE DEF seqs
    <2> QED
        BY <1>5, <1>6, <2>2
<1> HIDE DEF seqs
<1>8. tokens \in Seq(Low)
    <2>1. S \subseteq Low
        BY DEF Low
    <2> HIDE DEF S
    <2> QED
        BY <1>4, <2>1
<1>9. \A t \in ToSet(tokens) :
          t \in Figures \/ (t \in ToSet(lower) /\ t \in LowWords /\ Distinctive(t))
    <2>1. ToSet(tokens) \subseteq S
        <3> HIDE DEF S
        <3> QED
            BY <1>4, <1>6 DEF ToSet
    <2> TAKE t \in ToSet(tokens)
    <2>2. t \in Figures \/ t \in W
        BY <2>1
    <2> QED
        BY <2>2
<1>10. ASSUME NEW t \in ToSet(lower), Distinctive(t), t.form # "comma" PROVE t \in ToSet(tokens)
    <2>1. PICK i \in 1..n : t = lower[i]
        BY <1>1 DEF ToSet
    <2> QED
        BY <1>7, <1>10, <2>1 DEF ToSet
<1>11. ASSUME IsInjective(tokens), NEW i \in 1..n, NEW j \in 1..n, i < j,
              Distinctive(lower[i]), lower[i] \in LowWords,
              Distinctive(lower[j]), lower[j] \in LowWords
       PROVE  lower[i] # lower[j]
    <2>1. lower[i].form # "comma" /\ lower[j].form # "comma"
        BY <1>3, <1>11
    <2>2. /\ place[i] \in DOMAIN tokens /\ tokens[place[i]] = lower[i] /\ seqs[i] # <<>>
          /\ place[j] \in DOMAIN tokens /\ tokens[place[j]] = lower[j]
        BY <1>7, <1>11, <2>1
    <2>3. place[i] < place[j] /\ place[i] \in Nat /\ place[j] \in Nat
        BY <1>5, <1>11, <2>2
    <2>4. place[i] # place[j]
        BY <2>3
    <2> QED
        BY <1>11, <2>2, <2>4 DEF IsInjective
<1> QED
    BY <1>1, <1>8, <1>9, <1>10, <1>11 DEF lower, tokens

-----------------------------------------------------------------------------
(* One shared common word *)

WordsOf(c) == {t.word : t \in ToSet(DistinctiveTokens(NormalizeForResidue(Text[c])))}

LEMMA NormalText ==
    ASSUME NEW c \in Contents
    PROVE  /\ Text[c] \in Seq(Tokens)
           /\ NormalizeForResidue(Text[c]) \in Seq(Low)
           /\ \A t \in ToSet(NormalizeForResidue(Text[c])) :
                  Distinctive(t) => t.word \in WordsOf(c)
<1> DEFINE normal == NormalizeForResidue(Text[c])
<1>1. Text[c] \in Seq(Tokens)
    BY TextAssumption
<1>2. normal \in Seq(Low) /\ \A t \in ToSet(normal) \cap Figures : t.form = "plain"
    BY <1>1, Normal
<1>3. ASSUME NEW t \in ToSet(normal), Distinctive(t) PROVE t.word \in WordsOf(c)
    <2>1. t \in Low
        BY <1>2 DEF ToSet
    <2>2. t.form # "comma"
        BY <1>2, <2>1, WordFacts DEF Low
    <2>3. Lower(normal) = normal
        BY <1>2, LowerType
    <2>4. t \in ToSet(DistinctiveTokens(normal))
        BY <1>2, <1>3, <2>2, <2>3, DistinctiveAre
    <2> QED
        BY <2>4 DEF WordsOf
<1> QED
    BY <1>1, <1>2, <1>3

\* A deleted content whose distinctive tokens are common words: it has no
\* figure and no number word, and is in its normal form but for the case.
Common(d) == WordsOf(d) \cap (LongWords \cup {""}) = {}

LEMMA CommonText ==
    ASSUME NEW d \in Contents, Common(d)
    PROVE  /\ NormalizeForResidue(Text[d]) = Lower(Text[d])
           /\ DistinctiveTokens(NormalizeForResidue(Text[d])) = DistinctiveTokens(Text[d])
           /\ \A t \in ToSet(Lower(Text[d])) : Ordinary(t)
           /\ \A t \in ToSet(DistinctiveTokens(Text[d])) :
                  /\ t \in ToSet(Lower(Text[d])) /\ Ordinary(t) /\ Distinctive(t)
                  /\ ~IsStrongToken(t)
<1> DEFINE text == Text[d]
           normal == NormalizeForResidue(text)
<1>1. text \in Seq(Tokens)
    BY TextAssumption
<1>2. ToSet(normal) \cap Figures = {}
    <2> SUFFICES ASSUME NEW t \in ToSet(normal) \cap Figures PROVE FALSE
        OBVIOUS
    <2>1. t.form = "plain" /\ t.word = ""
        BY <1>1, Normal, FigureFacts
    <2>2. Distinctive(t)
        BY <2>1 DEF Distinctive
    <2>3. t.word \in WordsOf(d)
        BY <2>2, NormalText
    <2> QED
        BY <2>1, <2>3 DEF Common
<1>3. normal = Lower(text) /\ \A t \in ToSet(Lower(text)) : Ordinary(t)
    BY <1>1, <1>2, Normal
<1>4. DistinctiveTokens(normal) = DistinctiveTokens(text)
    <2>1. normal \in Seq(Low) /\ Lower(normal) = normal
        BY <1>1, Normal, LowerType
    <2>2. DOMAIN normal = DOMAIN text /\ Lower(normal) = Lower(text)
        BY <1>1, <1>3, <2>1, LowerType
    <2> HIDE DEF normal
    <2> QED
        BY <2>2 DEF DistinctiveTokens
<1>5. ASSUME NEW t \in ToSet(DistinctiveTokens(text))
      PROVE  /\ t \in ToSet(Lower(text)) /\ Ordinary(t) /\ Distinctive(t)
             /\ ~IsStrongToken(t)
    <2>1. t.word \in WordsOf(d)
        BY <1>4, <1>5 DEF WordsOf
    <2>2. t \notin Figures
        BY <2>1, FigureFacts DEF Common
    <2>3. t \in ToSet(Lower(text)) /\ t \in LowWords /\ Distinctive(t)
        BY <1>1, <1>5, <2>2, DistinctiveAre
    <2>4. t.form = "word" /\ t.word \notin LongWords
        BY <2>1, <2>3, WordFacts DEF Common
    <2> QED
        BY <1>3, <2>3, <2>4 DEF IsStrongToken
<1> QED
    BY <1>3, <1>4, <1>5

\* The word v is the word w or occurs inside of it.
InWord(v, w) == v = w \/ <<v, w>> \in HeadsOf \cup InnerOf
ShownIn(t, text) == \E x \in ToSet(text) : InWord(t.word, x.word)
Shown(d, s) == {v \in WordsOf(d) : \E x \in ToSet(Text[s]) : InWord(v, x.word)}

LEMMA SharingIs ==
    ASSUME NEW d, NEW s
    PROVE  SharesOneCommonWord(d, s) <=> Common(d) /\ Cardinality(Shown(d, s)) <= 1
<1>1. Shown(d, s) = {v \in WordsOf(d) : \E x \in ToSet(Text[s]) :
                         v = x.word \/ <<v, x.word>> \in HeadsOf \cup InnerOf}
    BY DEF Shown, InWord
<1> QED
    BY <1>1 DEF SharesOneCommonWord, Common, WordsOf

\* Two tokens of such a content are not both shown by a survivor that shows
\* one word at most.
LEMMA NotTwoShared ==
    ASSUME NEW d \in Contents, NEW s \in Contents, Common(d), Cardinality(Shown(d, s)) <= 1,
           NEW t \in ToSet(Lower(Text[d])), NEW u \in ToSet(Lower(Text[d])),
           Distinctive(t), Distinctive(u),
           ShownIn(t, Text[s]), ShownIn(u, Text[s])
    PROVE  t = u
<1> DEFINE shared == Shown(d, s)
<1>1. t \in LowWords /\ u \in LowWords
    BY CommonText DEF Ordinary
<1>2. t.word \in shared /\ u.word \in shared
    <2>1. t \in ToSet(NormalizeForResidue(Text[d])) /\ u \in ToSet(NormalizeForResidue(Text[d]))
        BY CommonText
    <2>2. t.word \in WordsOf(d) /\ u.word \in WordsOf(d)
        BY <2>1, NormalText
    <2> QED
        BY <2>2 DEF Shown, ShownIn
<1>3. IsFiniteSet(shared)
    <2> DEFINE tokens == DistinctiveTokens(NormalizeForResidue(Text[d]))
    <2>1. tokens \in Seq(Low)
        BY NormalText, DistinctiveAre
    <2> DEFINE n == Len(tokens)
               word == [i \in 1..n |-> tokens[i].word]
    <2>2. DOMAIN tokens = 1..n /\ n \in Nat
        BY <2>1
    <2>3. WordsOf(d) = {tokens[i].word : i \in 1..n}
        BY <2>2 DEF WordsOf, ToSet
    <2>4. word \in Surjection(1..n, WordsOf(d))
        <3> HIDE DEF tokens, n
        <3> QED
            BY <2>3 DEF Surjection
    <2> HIDE DEF tokens, n, word
    <2>5. IsFiniteSet(1..n)
        BY <2>2, FS_Interval
    <2>6. IsFiniteSet(WordsOf(d))
        BY <2>4, <2>5, FS_Surjection
    <2>7. shared \subseteq WordsOf(d)
        BY DEF Shown
    <2> QED
        BY <2>6, <2>7, FS_Subset
<1> HIDE DEF shared
<1>4. t.word = u.word
    <2>1. Cardinality({t.word}) = 1 /\ Cardinality(shared) \in Nat /\ Cardinality(shared) <= 1
        BY <1>3, FS_Singleton, FS_CardinalityType DEF shared
    <2>2. {t.word} \in SUBSET shared
        BY <1>2
    <2>3. Cardinality({t.word}) <= Cardinality(shared)
        BY <1>3, <2>2, FS_Subset
    <2>4. Cardinality(shared) = Cardinality({t.word})
        BY <2>1, <2>3
    <2>5. shared = {t.word}
        BY <1>3, <2>2, <2>4, FS_Subset
    <2> QED
        BY <1>2, <2>5
<1>5. t = Word(t.word) /\ u = Word(u.word)
    BY <1>1, WordFacts
<1> QED
    BY <1>4, <1>5

LEMMA TwoElements ==
    ASSUME NEW S, IsFiniteSet(S), Cardinality(S) >= 2
    PROVE  \E x, y \in S : x # y
<1>1. S # {}
    BY FS_EmptySet
<1>2. PICK x \in S : TRUE
    BY <1>1
<1>3. S # {x}
    BY FS_Singleton
<1> QED
    BY <1>2, <1>3

LEMMA SpanIsShown ==
    ASSUME NEW S, NEW text \in Seq(S), NEW span \in Seq(S), ContainsSpan(text, span),
           NEW t \in ToSet(span), t.form = "word"
    PROVE  ShownIn(t, text)
<1>1. Len(text) \in Nat /\ Len(span) \in Nat /\ DOMAIN span = 1..Len(span) /\ DOMAIN text = 1..Len(text)
    OBVIOUS
<1>2. PICK i \in 1..Len(span) : t = span[i]
    BY <1>1 DEF ToSet
<1>3. PICK k \in 0..(Len(text) - Len(span)) :
          \/ span[i] = text[k + i]
          \/ Inside(span[i], text[k + i])
          \/ Ends(span[i], text[k + i])
          \/ Begins(span[i], text[k + i])
    BY DEF ContainsSpan
<1>4. k + i \in 1..Len(text)
    BY <1>1
<1>5. text[k + i] \in ToSet(text)
    BY <1>1, <1>4 DEF ToSet
<1>6. \/ t = text[k + i]
      \/ <<t.word, text[k + i].word>> \in HeadsOf
      \/ <<t.word, text[k + i].word>> \in InnerOf
    BY <1>2, <1>3, SubwordAssumption DEF Inside, Ends, Begins, Follows
<1>7. InWord(t.word, text[k + i].word)
    BY <1>6 DEF InWord
<1> QED
    BY <1>5, <1>7 DEF ShownIn

\* Case aside, a text and its lower case have the same words.
LEMMA LowerShows ==
    ASSUME NEW text \in Seq(Tokens)
    PROVE  /\ \A x \in ToSet(Lower(text)) : \E y \in ToSet(text) : y.word = x.word /\ y.form = x.form
           /\ \A t : ShownIn(t, Lower(text)) => ShownIn(t, text)
<1>1. DOMAIN Lower(text) = DOMAIN text
      /\ \A i \in DOMAIN text : Lower(text)[i] = [text[i] EXCEPT !.upper = FALSE]
    BY DEF Lower
<1>2. ASSUME NEW i \in DOMAIN text
      PROVE  text[i].word = Lower(text)[i].word /\ text[i].form = Lower(text)[i].form
    <2>1. text[i] \in Tokens
        OBVIOUS
    <2>2. \A t \in Tokens : /\ [t EXCEPT !.upper = FALSE].word = t.word
                            /\ [t EXCEPT !.upper = FALSE].form = t.form
        BY DEF Tokens, WordTokens, FigureTokens
    <2> QED
        BY <1>1, <2>1, <2>2
<1>3. \A x \in ToSet(Lower(text)) : \E y \in ToSet(text) : y.word = x.word /\ y.form = x.form
    BY <1>1, <1>2 DEF ToSet
<1> QED
    BY <1>3 DEF ShownIn

\* Normalising a text shows no word that the text does not show.
LEMMA NormalShows ==
    ASSUME NEW s \in Contents, NEW t \in LowWords, ShownIn(t, NormalizeForResidue(Text[s]))
    PROVE  ShownIn(t, Text[s])
<1>1. PICK x \in ToSet(NormalizeForResidue(Text[s])) : InWord(t.word, x.word)
    BY DEF ShownIn
<1>2. x \in ToSet(Lower(Text[s])) \cup Figures
    BY NormalText, Normal
<1>3. x \notin Figures
    <2> SUFFICES ASSUME x \in Figures PROVE FALSE
        OBVIOUS
    <2>1. x.word = "" /\ t.word # ""
        BY FigureFacts, WordFacts
    <2>2. \A p \in HeadsOf \cup InnerOf : p[2] # ""
        BY SubwordAssumption
    <2>3. <<t.word, "">>[2] = ""
        OBVIOUS
    <2> QED
        BY <1>1, <2>1, <2>2, <2>3 DEF InWord
<1>4. ShownIn(t, Lower(Text[s]))
    BY <1>1, <1>2, <1>3 DEF ShownIn
<1> QED
    BY <1>4, NormalText, LowerShows

\* The positions of two distinctive tokens of the deleted content, told apart.
LEMMA PositionsDiffer ==
    ASSUME NEW d \in Contents, Common(d), IsInjective(DistinctiveTokens(Text[d])),
           NEW i \in DOMAIN Lower(Text[d]), NEW j \in DOMAIN Lower(Text[d]), i # j,
           Distinctive(Lower(Text[d])[i]), Distinctive(Lower(Text[d])[j])
    PROVE  Lower(Text[d])[i] # Lower(Text[d])[j]
<1> DEFINE lower == Lower(Text[d])
<1>1. Text[d] \in Seq(Tokens) /\ DOMAIN lower = 1..Len(lower) /\ Len(lower) \in Nat
    BY NormalText, LowerType
<1>2. lower[i] \in LowWords /\ lower[j] \in LowWords
    <2>1. lower[i] \in ToSet(lower) /\ lower[j] \in ToSet(lower)
        BY DEF ToSet
    <2> QED
        BY <2>1, CommonText DEF Ordinary
<1>3. i < j \/ j < i
    BY <1>1
<1> QED
    BY <1>1, <1>2, <1>3, DistinctiveAre

(***************************************************************************)
(* No tier matches a survivor that shows one common word at most           *)
(* (residue.go matchSurvivor): no token is strong enough alone, and each   *)
(* of the other tests needs two tokens that differ.                        *)
(***************************************************************************)
LEMMA OneWordIsNoMatch ==
    ASSUME NEW d \in Contents, NEW s \in Contents, DistinctWords(d), SharesOneCommonWord(d, s)
    PROVE  ~MatchSurvivor(Text[d], Text[s])
<1> DEFINE lower == Lower(Text[d])
           tokens == DistinctiveTokens(Text[d])
           survivor == NormalizeForResidue(Text[s])
<1>1. Common(d) /\ Cardinality(Shown(d, s)) <= 1
    BY SharingIs
<1>2. IsInjective(tokens) /\ Len(tokens) >= 2
    BY DEF DistinctWords
<1>3. /\ Text[d] \in Seq(Tokens) /\ Text[s] \in Seq(Tokens)
      /\ tokens \in Seq(Low) /\ survivor \in Seq(Low) /\ lower \in Seq(Low)
    BY NormalText, DistinctiveAre, LowerType
<1>4. /\ NormalizeForResidue(Text[d]) = lower
      /\ DistinctiveTokens(lower) = tokens
      /\ \A t \in ToSet(tokens) : /\ t \in ToSet(lower) /\ Ordinary(t) /\ Distinctive(t)
                                  /\ ~IsStrongToken(t)
    <2>1. NormalizeForResidue(Text[d]) = lower
        BY <1>1, CommonText
    <2> QED
        BY <1>1, <2>1, CommonText
<1>5. ASSUME NEW t \in ToSet(lower), NEW u \in ToSet(lower), Distinctive(t), Distinctive(u),
             ShownIn(t, Text[s]), ShownIn(u, Text[s])
      PROVE  t = u
    BY <1>1, <1>5, NotTwoShared
<1>6. \A t \in ToSet(lower) : Ordinary(t) /\ t \in LowWords /\ t.form = "word"
    <2> TAKE t \in ToSet(lower)
    <2>1. Ordinary(t)
        BY <1>1, CommonText
    <2> QED
        BY <2>1, WordFacts DEF Ordinary
<1>7. ~(\A t \in ToSet(tokens) : ShownIn(t, Text[s]))
    <2>1. 1 \in DOMAIN tokens /\ 2 \in DOMAIN tokens
        BY <1>2, <1>3
    <2>2. tokens[1] \in ToSet(tokens) /\ tokens[2] \in ToSet(tokens)
        BY <2>1 DEF ToSet
    <2>3. tokens[1] # tokens[2]
        BY <1>2, <2>1 DEF IsInjective
    <2> HIDE DEF tokens, lower, survivor
    <2> QED
        BY <1>4, <1>5, <2>2, <2>3
<1> HIDE DEF tokens, lower, survivor
<1>8. ~ExactFragmentMatch(Text[d], Text[s])
    <2>1. ~ContainsSpan(Text[s], Text[d])
        <3> SUFFICES ASSUME ContainsSpan(Text[s], Text[d]) PROVE FALSE
            OBVIOUS
        <3>1. \A y \in ToSet(Text[d]) : y.form = "word" => ShownIn(y, Text[s])
            BY <1>3, SpanIsShown
        <3>2. ASSUME NEW t \in ToSet(lower) PROVE ShownIn(t, Text[s])
            <4>1. PICK y \in ToSet(Text[d]) : y.word = t.word /\ y.form = t.form
                BY <1>3, LowerShows DEF lower
            <4>2. ShownIn(y, Text[s])
                BY <1>6, <3>1, <4>1
            <4> QED
                BY <4>1, <4>2 DEF ShownIn
        <3> QED
            BY <1>4, <1>7, <3>2
    <2> QED
        BY <1>4, <2>1 DEF ExactFragmentMatch, tokens
<1>9. ~NormalizedFragmentMatch(lower, Text[s])
    <2>1. ~ContainsSpan(survivor, lower)
        <3> SUFFICES ASSUME ContainsSpan(survivor, lower) PROVE FALSE
            OBVIOUS
        <3>1. \A t \in ToSet(lower) : ShownIn(t, survivor)
            BY <1>3, <1>6, SpanIsShown
        <3>2. \A t \in ToSet(lower) : ShownIn(t, Text[s])
            BY <1>6, <3>1, NormalShows DEF survivor
        <3> QED
            BY <1>4, <1>7, <3>2
    <2> QED
        BY <1>4, <2>1 DEF NormalizedFragmentMatch, survivor
<1>10. ~PhraseMatch(lower, Text[s])
    <2> SUFFICES ASSUME PhraseMatch(lower, Text[s]) PROVE FALSE
        OBVIOUS
    <2>1. PICK i \in DOMAIN lower, j \in DOMAIN lower :
              CountDistinctive(SubSeq(lower, i, j)) >= 3 /\ ContainsSpan(survivor, SubSeq(lower, i, j))
        BY DEF PhraseMatch, PhraseMinTokens, survivor
    <2> DEFINE window == SubSeq(lower, i, j)
               D == {k \in DOMAIN window : Distinctive(window[k])}
    <2>2. /\ DOMAIN lower = 1..Len(lower) /\ Len(lower) \in Nat /\ window \in Seq(Low)
          /\ DOMAIN window = 1..Len(window) /\ Len(window) \in Nat
        BY <1>3
    <2>3. ASSUME NEW k \in DOMAIN window
          PROVE  i + k - 1 \in DOMAIN lower /\ window[k] = lower[i + k - 1]
        <3>1. \A x, y \in 1..Len(lower) : \A m \in DOMAIN SubSeq(lower, x, y) :
                  x + m - 1 \in 1..Len(lower) /\ SubSeq(lower, x, y)[m] = lower[x + m - 1]
            BY <1>3
        <3> QED
            BY <2>2, <3>1
    <2>4. Cardinality(D) >= 3 /\ IsFiniteSet(D)
        <3>1. IsFiniteSet(DOMAIN window)
            BY <2>2, FS_Interval
        <3>2. Cardinality(D) >= 3
            BY <2>1 DEF CountDistinctive
        <3> QED
            BY <3>1, <3>2, FS_Subset
    <2>5. Cardinality(D) >= 2
        <3>1. Cardinality(D) \in Nat
            BY <2>4, FS_CardinalityType
        <3> HIDE DEF D
        <3> QED
            BY <2>4, <3>1
    <2>6. PICK a \in D, b \in D : a # b
        <3> HIDE DEF D
        <3> QED
            BY <2>4, <2>5, TwoElements
    <2>8. window[a] \in ToSet(window) /\ window[b] \in ToSet(window)
        BY DEF ToSet
    <2>9. /\ i + a - 1 \in DOMAIN lower /\ window[a] = lower[i + a - 1]
          /\ i + b - 1 \in DOMAIN lower /\ window[b] = lower[i + b - 1]
        BY <2>3
    <2>10. i + a - 1 # i + b - 1
        <3>1. i \in Nat /\ a \in Nat /\ b \in Nat
            BY <2>2
        <3> HIDE DEF D, window
        <3> QED
            BY <2>6, <3>1
    <2>11. Distinctive(window[a]) /\ Distinctive(window[b])
        OBVIOUS
    <2> HIDE DEF window, D
    <2>12. window[a] # window[b]
        BY <1>1, <1>2, <2>9, <2>10, <2>11, PositionsDiffer DEF lower, tokens
    <2>13. window[a] \in ToSet(lower) /\ window[b] \in ToSet(lower)
        BY <2>9 DEF ToSet
    <2>14. ShownIn(window[a], survivor) /\ ShownIn(window[b], survivor)
        <3>1. ContainsSpan(survivor, window) /\ window \in Seq(Low)
            BY <2>1, <2>2 DEF window
        <3> QED
            BY <1>3, <1>6, <2>8, <2>13, <3>1, SpanIsShown
    <2>15. ShownIn(window[a], Text[s]) /\ ShownIn(window[b], Text[s])
        BY <1>6, <2>13, <2>14, NormalShows DEF survivor
    <2> QED
        BY <1>5, <2>11, <2>12, <2>13, <2>15
<1>12. IsFiniteSet(DOMAIN tokens)
    <2>1. DOMAIN tokens = 1..Len(tokens) /\ Len(tokens) \in Int
        BY <1>3
    <2> QED
        BY <2>1, FS_Interval
<1>11. ~TokenOverlapMatch(Text[d], Text[s])
    <2> DEFINE Norm(t) == NormalizeForResidue(<<t>>)
               survSet == {Norm(t) : t \in ToSet(DistinctiveTokens(Text[s]))}
               hits == {i \in DOMAIN tokens : Norm(tokens[i]) \in survSet}
    <2> SUFFICES ASSUME Len(tokens) >= 3, 10 * Cardinality(hits) >= 7 * Len(tokens) PROVE FALSE
        BY DEF TokenOverlapMatch, MinDistinctiveTokens, tokens
    <2>1. DOMAIN tokens = 1..Len(tokens) /\ Len(tokens) \in Nat
        BY <1>3
    <2>2. IsFiniteSet(hits) /\ Cardinality(hits) \in Nat
        <3>1. hits \in SUBSET DOMAIN tokens
            <4> HIDE DEF survSet
            <4> QED
                OBVIOUS
        <3> HIDE DEF hits
        <3>2. IsFiniteSet(hits)
            BY <1>12, <3>1, FS_Subset
        <3> QED
            BY <3>2, FS_CardinalityType
    <2>3. Cardinality(hits) >= 2
        <3> DEFINE c == Cardinality(hits)
                   l == Len(tokens)
        <3>1. c \in Nat /\ l \in Nat /\ l >= 3 /\ 10 * c >= 7 * l
            BY <2>1, <2>2
        <3> HIDE DEF c, l
        <3>2. c >= 2
            BY <3>1
        <3> QED
            BY <3>2 DEF c
    <2>4. PICK a \in hits, b \in hits : a # b
        <3> HIDE DEF hits
        <3> QED
            BY <2>2, <2>3, TwoElements
    <2>5. ASSUME NEW i \in hits
          PROVE  tokens[i] \in ToSet(tokens) /\ ShownIn(tokens[i], Text[s])
        <3> DEFINE t == tokens[i]
        <3>1. t \in ToSet(tokens)
            BY DEF ToSet
        <3>2. Ordinary(t) /\ t \in LowWords
            BY <1>4, <3>1 DEF Ordinary
        <3>3. PICK u \in ToSet(DistinctiveTokens(Text[s])) : Norm(u) = Norm(t)
            OBVIOUS
        <3>4. u \in Low
            <4>1. DistinctiveTokens(Text[s]) \in Seq(Low)
                BY <1>3, DistinctiveAre
            <4> QED
                BY <4>1 DEF ToSet
        <3> HIDE DEF t
        <3>5. Norm(u) = <<t>>
            BY <3>2, <3>3, <3>4, WordAlone
        <3>6. u = t
            BY <3>2, <3>4, <3>5, WordAlone
        <3>7. t \in ToSet(Lower(Text[s]))
            BY <1>3, <3>2, <3>3, <3>6, DistinctiveAre, WordFacts
        <3>8. ShownIn(t, Text[s])
            <4>1. ShownIn(t, Lower(Text[s]))
                BY <3>7 DEF ShownIn, InWord
            <4> QED
                BY <1>3, <4>1, LowerShows
        <3> QED
            BY <3>1, <3>8 DEF t
    <2>6. tokens[a] # tokens[b]
        BY <1>2, <2>4 DEF IsInjective
    <2> QED
        BY <1>4, <1>5, <2>5, <2>6
<1> QED
    BY <1>4, <1>8, <1>9, <1>10, <1>11 DEF MatchSurvivor

(***************************************************************************)
(* A survivor that shows one common word of the deleted content, alone or  *)
(* inside a longer word, is no residue of it (residue.go:53-58): for every *)
(* vocabulary, with any words inside others, for all contents and number   *)
(* words, verify_delete reports nothing when all survivors are such.       *)
(***************************************************************************)
THEOREM CommonWordsAreNotResidue == GateSpec => []OneCommonWordIsNotResidue
<1>1. GateInv => OneCommonWordIsNotResidue
    <2> SUFFICES ASSUME GateInv, Reported, DistinctWords(Gone), gate.residue # None,
                        \A x \in ToSet(IndexOrder) : \A s \in ByIndex[x] :
                            SharesOneCommonWord(Gone, s)
                 PROVE  FALSE
        BY DEF OneCommonWordIsNotResidue
    <2>1. gate.residue \in IndexNames /\ HoldsResidue(gate.residue, Gone)
        BY ScanAnswers DEF GateInv, GateKnows
    <2>2. PICK s \in ByIndex[gate.residue] : <<Gone, s>> \in Residual
        BY <2>1 DEF HoldsResidue
    <2>3. Gone \in Contents /\ s \in Contents /\ MatchSurvivor(Text[Gone], Text[s])
        BY <2>2 DEF Residual
    <2>4. SharesOneCommonWord(Gone, s)
        BY <2>1, <2>2, IndexNamesInOrder
    <2> QED
        BY <2>3, <2>4, OneWordIsNoMatch
<1> QED
    BY <1>1, GateInit1, GateInvInductive, PTL DEF GateSpec
=============================================================================

---------------------------- MODULE DeletionGate ----------------------------
(***************************************************************************)
(* VerifyDelete (guard.go) over a store of three indexes: the two of       *)
(* TwoIndexStore, and the recency cache of the residue suite               *)
(* (residue_indexes_test.go), whose Delete may leave its copy behind.      *)
(* The calls of VerifyDelete are steps, made under the guard's lock: the   *)
(* other verbs run between two deletions.                                  *)
(***************************************************************************)
EXTENDS Residue, TwoIndexStore

CONSTANTS Text,        \* content -> its tokens
          Offers,      \* id -> the entries put under it
          Copies       \* <<d, s>>: s holds the facts of d, respelled

\* A figure followed by one of these letters alone is one magnitude (5 k).
Magnitudes == {"k", "m", "b"}

WordTokens == [form : {"word"}, word : STRING \ ({""} \cup Magnitudes), upper : BOOLEAN,
               value : {0}, width : {0}]
FigureTokens == [form : {"plain", "comma", "kilo"}, word : {""}, upper : {FALSE},
                 value : Nat, width : 1..9]      \* at most 9 digits
Tokens == WordTokens \cup {t \in FigureTokens : t.value < 10^t.width}

ASSUME TextAssumption == \A c \in Contents : Text[c] \in Seq(Tokens)
ASSUME OffersAssumption == \A i \in Ids : Offers[i] \subseteq Entries
ASSUME NoIndexAssumption == None \notin {"primary", "recency-cache", "secondary-content-index"}

VARIABLES cache,       \* id -> entry, None when absent
          gate         \* where VerifyDelete is, and what it knows

gateVars == <<vars, cache, gate>>

\* mutant: by name alone, backwards
LastIndexFirst == <<"secondary-content-index", "recency-cache", "primary">>

IndexOrder == <<"primary", "recency-cache", "secondary-content-index">>

Idle == [at |-> "idle", id |-> None, deleted |-> None, residue |-> None]

GateInit ==
    /\ Init
    /\ cache = [i \in Ids |-> None]
    /\ gate = Idle

\* The guard makes its calls one at a time, and takes their answers.
Free == gate.at = "idle" /\ answer = None

CachedPut(id, e) ==
    /\ Free
    /\ Put(id, e)
    /\ cache' = [cache EXCEPT ![id] = e]
    /\ UNCHANGED gate

Search(query, visible) ==
    /\ Free
    /\ ScanScoped(query, visible)
    /\ UNCHANGED <<cache, gate>>

TakeAnswer ==
    /\ gate.at = "idle" /\ answer # None
    /\ Return
    /\ UNCHANGED <<cache, gate>>

-----------------------------------------------------------------------------
(* VerifyDelete *)

Fetch(id) ==
    /\ Free
    /\ Get(id)
    /\ gate' = [Idle EXCEPT !.at = "delete", !.id = id, !.deleted = primary[id]]
    /\ UNCHANGED cache

Purge ==
    /\ gate.at = "delete"
    /\ Delete(gate.id)
    /\ \E lags \in BOOLEAN : cache' = IF lags THEN cache ELSE [cache EXCEPT ![gate.id] = None]
    /\ gate' = [gate EXCEPT !.at = "check"]

\* A fresh Get.  Nothing is scanned for an id that did not exist.
Check ==
    /\ gate.at = "check"
    /\ Get(gate.id)
    /\ gate' = [gate EXCEPT !.at = IF gate.deleted = None THEN "reply" ELSE "scan"]
    /\ UNCHANGED cache

\* The contents of every index, as AllByIndex answers them.
ByIndex ==
    [x \in ToSet(IndexOrder) |->
        IF x = "recency-cache" THEN {cache[i].content : i \in {j \in Ids : cache[j] # None}}
        ELSE IF x = "primary" THEN {primary[i].content : i \in Present}
        ELSE {link[2] : link \in Secondary}]

Residual == {x \in Contents \X Contents : MatchSurvivor(Text[x[1]], Text[x[2]])}

HoldsResidue(index, deleted) == \E survivor \in ByIndex[index] : <<deleted, survivor>> \in Residual

\* The first index in order that holds residue, None if there is none.
ResidueScanIndexes(deleted) ==
    LET found == {n \in DOMAIN IndexOrder : HoldsResidue(IndexOrder[n], deleted)}
    IN  IF Text[deleted] = <<>> \/ found = {} THEN None
        ELSE IndexOrder[CHOOSE n \in found : \A m \in found : n <= m]

ScanByIndex ==
    /\ gate.at = "scan"
    /\ AllByIndex
    /\ gate' = [gate EXCEPT !.at = "reply",
                            !.residue = ResidueScanIndexes(gate.deleted.content)]
    /\ UNCHANGED cache

Reply ==
    /\ gate.at = "reply"
    /\ Return
    /\ gate' = Idle
    /\ UNCHANGED cache

VerifyDelete == (\E id \in Ids : Fetch(id)) \/ Purge \/ Check \/ ScanByIndex \/ Reply

GateNext ==
    \/ \E id \in Ids : \E e \in Offers[id] : CachedPut(id, e)
    \/ \E query \in Queries, visible \in SUBSET Identities : Search(query, visible)
    \/ TakeAnswer
    \/ VerifyDelete

GateSpec == GateInit /\ [][GateNext]_gateVars

-----------------------------------------------------------------------------
Reported == gate.at = "reply" /\ gate.deleted # None
Gone == gate.deleted.content

(***************************************************************************)
(* A survivor that holds all the facts of the deleted content, in another  *)
(* case, with its amounts written 5000, 5,000, 5k or five thousand, inside *)
(* a longer text or left behind by a lagging index, is always reported     *)
(* (residue.go:22-31, the classes it says the scan catches).               *)
(***************************************************************************)
RespelledCopyIsReported ==
    Reported /\ (\E x \in ToSet(IndexOrder) : \E s \in ByIndex[x] : <<Gone, s>> \in Copies)
        => gate.residue # None

(***************************************************************************)
(* Another index than the primary is named only for a stale copy: an entry *)
(* the primary no longer has, left in the cache by a Delete that lagged    *)
(* (residue.go:87-102, store.go Put and Delete, guard.go VerifyDelete).    *)
(* The operator purges that copy, and never one whose entry is still live. *)
(***************************************************************************)
NamedElsewhereIsStale ==
    Reported /\ gate.residue \notin {None, "primary"} =>
        \E i \in Ids : /\ primary[i] = None /\ cache[i] # None
                       /\ <<Gone, cache[i].content>> \in Residual

(***************************************************************************)
(* One shared short word is not residue (residue.go:53-58): when the       *)
(* tokens of the deleted content are common words, distinct and at least   *)
(* two, and every survivor shows at most one of them, as a word or inside  *)
(* of one, nothing is reported.                                            *)
(***************************************************************************)
DistinctWords(d) == LET ts == DistinctiveTokens(Text[d]) IN IsInjective(ts) /\ Len(ts) >= 2

SharesOneCommonWord(d, s) ==
    LET words == {t.word : t \in ToSet(DistinctiveTokens(NormalizeForResidue(Text[d])))}
        shown == {v \in words : \E t \in ToSet(Text[s]) :
                      v = t.word \/ <<v, t.word>> \in HeadsOf \cup InnerOf}
    IN  words \cap (LongWords \cup {""}) = {} /\ Cardinality(shown) <= 1

OneCommonWordIsNotResidue ==
    Reported /\ DistinctWords(Gone)
             /\ (\A x \in ToSet(IndexOrder) : \A s \in ByIndex[x] : SharesOneCommonWord(Gone, s))
        => gate.residue = None
=============================================================================

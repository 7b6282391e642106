-------------------------- MODULE GuardProperties --------------------------
(***************************************************************************)
(* What must hold of MemoryGuard whatever the interleaving, the crashes    *)
(* and the lost replies.                                                   *)
(***************************************************************************)
EXTENDS MemoryGuard

Answering(h, op) == pc[h] = "reply" /\ req[h].op = op

\* What AsyncSink accepted, in the order it hands it on; a crash takes its queue.
Accepted == forwarded \o queue

(***************************************************************************)
(* A validate_read answer holds only redacted contents of entries whose    *)
(* author's principal the reader may read, and never one of a write that   *)
(* was poisoned or quarantined (guard.go ValidateRead, principal.go        *)
(* boundKeyFor and readerVisibilityKey, which the rule MayRead ignores).   *)
(***************************************************************************)
ReadIsolation ==
    \A h \in Handlers : Answering(h, "validate_read") =>
        \A hit \in resp[h].hits :
            LET author == written[hit[1]] IN
            /\ author # None
            /\ MayRead(req[h].who, author.who)
            /\ author.text \notin Injected \cup Borderline
            /\ hit[2] = Redact[author.text] /\ hit[2] \in req[h].query

(***************************************************************************)
(* Once verify_delete has confirmed to a client that an id is gone, the    *)
(* store never holds it again, and a validate_read that arrived later      *)
(* does not return it (guard.go VerifyDelete, ValidateRead).               *)
(***************************************************************************)
DeletionIsFinal ==
    /\ \A i \in gone \cap Ids : store[i] = None
    /\ \A h \in Handlers : Answering(h, "validate_read") =>
          \A hit \in resp[h].hits : hit[1] \notin seen[h].gone

(***************************************************************************)
(* When verify_delete removes an entry and reports no residue, no entry    *)
(* that was acknowledged before the request arrived, quarantined or not,   *)
(* and is still stored, is residue of it (guard.go VerifyDelete).          *)
(***************************************************************************)
ResidueIsReported ==
    \A h \in Handlers :
        Answering(h, "verify_delete") /\ resp[h].hash[2] # None /\ ~resp[h].residue =>
            \A i \in seen[h].acked :
                store[i] # None => <<resp[h].hash[2], store[i].content>> \notin Residual

(***************************************************************************)
(* However many clients delete the same id, with crashes in between, at    *)
(* most one accepted event proves the deletion of the content (guard.go    *)
(* VerifyDelete reads and deletes under one lock).  The proof of an absent *)
(* entry is the one that digests "" (guard.go:350-354).                    *)
(***************************************************************************)
OneProofPerEntry ==
    LET Proves(n, i) == /\ Accepted[n].type = "deletion"
                        /\ Accepted[n].hash[1] = i /\ Accepted[n].hash[2] # None
    IN \A i \in Ids : \A m, n \in DOMAIN Accepted : Proves(m, i) /\ Proves(n, i) => m = n

(***************************************************************************)
(* All the entries stored under one reserved key in one process lifetime   *)
(* have the same content, whoever raced to write it first (keys.go         *)
(* evaluateKeyPolicy).                                                     *)
(***************************************************************************)
ReservedSlotAgrees ==
    \A i, j \in Ids :
        /\ store[i] # None /\ store[j] # None
        /\ written[i].key \in ReservedKeys /\ written[i].key = written[j].key
        /\ written[i].epoch = written[j].epoch
        => store[i].content = store[j].content

(***************************************************************************)
(* A pinned baseline comes from a write the guard accepted: its entry was  *)
(* stored in this process lifetime, or its handler is on the way to Put.   *)
(* A rejected write leaves no baseline (keys.go:112).                      *)
(***************************************************************************)
BaselineIsBacked ==
    \A k \in Keys : baselines[k] # None =>
        \/ \E i \in Ids : /\ written[i] # None
                          /\ written[i].key = k /\ written[i].epoch = epoch
                          /\ Redact[written[i].text] = baselines[k]
        \/ \E h \in Handlers : /\ pc[h] \in {"inspect", "put"}
                               /\ Key(h) = k /\ Redacted(h) = baselines[k]

(***************************************************************************)
(* Of the events the sink accepted, the pii_redaction event of an entry is *)
(* handed to the transport before its deletion event, although it is       *)
(* offered after the unlock: the id is disclosed only after that offer     *)
(* (guard.go ValidateWrite, audit.go Emit).  In the trail it may still     *)
(* come later, when its exchange hit the deadline (OnlyLateOnesOvertaken). *)
(***************************************************************************)
OfferOrder ==
    \A m, n \in DOMAIN Accepted :
        /\ Accepted[m].type = "deletion" /\ Accepted[n].type = "pii_redaction"
        /\ Accepted[m].hash[1] = Accepted[n].id
        => n < m

(***************************************************************************)
(* Every request is answered, or its connection ends with the process:     *)
(* no handler waits for g.mu for ever (guard.go, every Lock and Unlock).   *)
(***************************************************************************)
EveryRequestEnds == \A h \in Handlers : pc[h] # "idle" ~> pc[h] = "idle"

-----------------------------------------------------------------------------
(***************************************************************************)
(* MemoryGuard implements GuardContract.  A write takes effect at Put, a   *)
(* read at Scan, a review at Lookup and a deletion at Delete.              *)
(***************************************************************************)
Mem == [i \in Ids |-> IF store[i] = None THEN None
                      ELSE [who |-> written[i].who, text |-> written[i].text,
                            key |-> written[i].key]]

Told(a) ==
    CASE a.op = "validate_write"    -> [id |-> a.id, state |-> a.state]
      [] a.op = "validate_read"     -> [hits |-> a.hits]
      [] a.op = "review_quarantine" -> [content |-> a.content]
      [] a.op = "verify_delete"     -> [confirmed |-> a.confirmed, residue |-> a.residue,
                                        hash |-> a.hash]

Decided(h) ==
    CASE pc[h] \in {"emit", "reply"} -> Told(resp[h])
      [] pc[h] = "filter"            -> [hits |-> Readable(held[h])]
      [] pc[h] = "review"            -> Told(Reviewed(Copy(h)))
      [] pc[h] = "verify"            -> Told(Deleted(h))
      [] OTHER                       -> None

\* What the contract keeps of an entry, tells a client and knows of a call; the
\* absent value is none of them.
Kept    == [who : Principals, text : Texts, key : Keys \cup {None}]
Outcome == [id : Ids \cup {None}, state : {"allow", "quarantine", "block"}]
             \cup [hits : SUBSET (Ids \X Contents)]
             \cup [content : Contents \cup {None}]
             \cup [confirmed : BOOLEAN, residue : BOOLEAN,
                   hash : (Ids \cup BogusIds) \X (Contents \cup {None})]
Asked   == [ask : Request, answer : Outcome \cup {None}]

ASSUME MappingAssumption == None \notin Kept \cup Outcome \cup Asked

Contract == INSTANCE GuardContract WITH
    mem    <- Mem,
    minted <- {i \in Ids : written[i] # None},
    pins   <- baselines,
    call   <- [h \in Handlers |-> IF pc[h] = "idle" THEN None
                                  ELSE [ask |-> req[h], answer |-> Decided(h)]]

\* Every behaviour of the guard is one the contract allows (the four verbs).
ImplementsContract == Contract!Spec
=============================================================================

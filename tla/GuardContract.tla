--------------------------- MODULE GuardContract ---------------------------
(***************************************************************************)
(* What the four verbs promise to a client, with no locks, no local copies *)
(* and no derived keys: each request takes effect at one instant between   *)
(* its arrival and its answer.  Only the pinning of an immutable slot is   *)
(* an instant of its own: a slot may be pinned by a write whose entry is   *)
(* stored later, or, if the process dies in between, never.                *)
(***************************************************************************)
EXTENDS GuardData

CONSTANTS Handlers, Durable

VARIABLES mem,     \* id -> who wrote what under which key, None when absent
          minted,  \* ids ever given to an entry
          pins,    \* key -> the content its slot is pinned to
          call     \* connection -> the request and its answer, None when idle

vars == <<mem, minted, pins, call>>

Init ==
    /\ mem = [i \in Ids |-> None]
    /\ minted = {}
    /\ pins = [k \in Keys |-> None]
    /\ call = [h \in Handlers |-> None]

Pending(h, op) == call[h] # None /\ call[h].ask.op = op /\ call[h].answer = None
Ask(h)         == call[h].ask
Answers(h, a)  == call' = [call EXCEPT ![h].answer = a]

Call(h) ==
    /\ call[h] = None
    /\ \E r \in WriteRequests \cup ReadRequests \cup IdRequest :
          call' = [call EXCEPT ![h] = [ask |-> r, answer |-> None]]
    /\ UNCHANGED <<mem, minted, pins>>

Return(h) ==
    /\ call[h] # None /\ call[h].answer # None
    /\ call' = [call EXCEPT ![h] = None]
    /\ UNCHANGED <<mem, minted, pins>>

\* Poisoned, or an identity-less write to one of the guard's own slots.
Forbidden(r) == \/ r.text \in Injected
                \/ r.key \in ReservedKeys /\ ~r.who.attested

Contradicts(r) == r.key \in ReservedKeys /\ pins[r.key] \notin {None, Redact[r.text]}

Refuse(h) ==
    /\ Pending(h, "validate_write")
    /\ Forbidden(Ask(h)) \/ Contradicts(Ask(h))
    /\ Answers(h, [id |-> None, state |-> "block"])
    /\ UNCHANGED <<mem, minted, pins>>

Pin(h) ==
    /\ Pending(h, "validate_write")
    /\ ~Forbidden(Ask(h))
    /\ Ask(h).key \in ReservedKeys \cup ImmutableKeys
    /\ pins[Ask(h).key] = None
    /\ pins' = [pins EXCEPT ![Ask(h).key] = Redact[Ask(h).text]]
    /\ UNCHANGED <<mem, minted, call>>

Keep(h) ==
    /\ Pending(h, "validate_write")
    /\ ~Forbidden(Ask(h))
    /\ Ask(h).key \in ReservedKeys => pins[Ask(h).key] = Redact[Ask(h).text]
    /\ \E id \in Ids \ minted :
        /\ mem' = [mem EXCEPT ![id] =
               [who |-> Ask(h).who, text |-> Ask(h).text, key |-> Ask(h).key]]
        /\ minted' = minted \cup {id}
        /\ Answers(h, [id |-> id, state |-> IF Ask(h).text \in Borderline
                                            THEN "quarantine" ELSE "allow"])
    /\ UNCHANGED pins

Visible(r, i) ==
    /\ mem[i] # None
    /\ Redact[mem[i].text] \in r.query
    /\ mem[i].text \notin Borderline
    /\ MayRead(r.who, mem[i].who)

Look(h) ==
    /\ Pending(h, "validate_read")
    /\ Answers(h, [hits |-> {<<i, Redact[mem[i].text]>> :
                                i \in {j \in Ids : Visible(Ask(h), j)}}])
    /\ UNCHANGED <<mem, minted, pins>>

At(id) == IF id \in Ids THEN mem[id] ELSE None

Isolated(id) == At(id) # None /\ At(id).text \in Borderline

Review(h) ==
    /\ Pending(h, "review_quarantine")
    /\ Answers(h, [content |-> IF Isolated(Ask(h).id)
                               THEN Redact[At(Ask(h).id).text] ELSE None])
    /\ UNCHANGED <<mem, minted, pins>>

ContentAt(id) == IF At(id) = None THEN None ELSE Redact[At(id).text]

ResidueOf(id) ==
    \E i \in Ids \ {id} :
        mem[i] # None /\ <<ContentAt(id), Redact[mem[i].text]>> \in Residual

Forget(h) ==
    /\ Pending(h, "verify_delete")
    /\ mem' = [i \in Ids |-> IF i = Ask(h).id THEN None ELSE mem[i]]
    /\ Answers(h, [confirmed |-> TRUE,
                   residue   |-> ResidueOf(Ask(h).id),
                   hash      |-> <<Ask(h).id, ContentAt(Ask(h).id)>>])
    /\ UNCHANGED <<minted, pins>>

Restart ==
    /\ call' = [h \in Handlers |-> None]
    /\ pins' = [k \in Keys |-> None]
    /\ mem' = IF Durable THEN mem ELSE [i \in Ids |-> None]
    /\ UNCHANGED minted

Next ==
    \/ \E h \in Handlers :
        \/ Call(h) \/ Return(h)
        \/ Refuse(h) \/ Pin(h) \/ Keep(h) \/ Look(h) \/ Review(h) \/ Forget(h)
    \/ Restart

Spec == Init /\ [][Next]_vars
=============================================================================

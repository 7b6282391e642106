------------------------------ MODULE MCGuard ------------------------------
(***************************************************************************)
(* Small instances of MemoryGuard for TLC: the texts, principals, keys and *)
(* requests each configuration picks from.                                 *)
(***************************************************************************)
EXTENDS GuardProperties, TLC

\* "note" and "hedge" are residue of each other, and every content of itself.
MCContents   == {"note", "masked", "hedge", "poison"}
MCTexts      == MCContents \cup {"email"}
MCRedact     == [t \in MCTexts |-> IF t = "email" THEN "masked" ELSE t]
MCInjected   == {"poison"}
MCBorderline == {"hedge"}
MCPII        == {"email"}
MCResidual   == {<<c, c>> : c \in MCContents}
                  \cup {<<"note", "hedge">>, <<"hedge", "note">>}

MCKeys          == {"memguard:slot", "config:limit"}
MCReservedKeys  == {"memguard:slot"}
MCConfiguredKeys == {"config:limit"}

-----------------------------------------------------------------------------
Person(subject, attested, shared) ==
    [subject |-> subject, attested |-> attested, shared |-> shared,
     source |-> "user_input"]

Alice     == Person("alice", TRUE, FALSE)
Bob       == Person("bob", TRUE, FALSE)
Publisher == Person("bob", TRUE, TRUE)
Claimant  == [Person("alice", FALSE, TRUE) EXCEPT !.source = "unrecognized"]  \* unattested
Forger    == Person(SharedScope, TRUE, FALSE)       \* attested as "shared://"
Nobody    == [Person(Unbound, FALSE, FALSE) EXCEPT !.source = ""]

Write(text, who, key) == [op |-> "validate_write", text |-> text, who |-> who, key |-> key]
Read(query, who)      == [op |-> "validate_read", query |-> query, who |-> who]

Everything == MCContents \ {"poison"}

DeletionWrites == {Write(t, Nobody, None) : t \in {"note", "email", "hedge"}}
DeletionReads  == {Read(Everything, Nobody)}

SlotWrites == {Write("note", Alice, "memguard:slot"), Write("masked", Alice, "memguard:slot"),
               Write("note", Nobody, "memguard:slot"), Write("email", Nobody, "config:limit")}
SlotReads  == {}

MixedWrites == {Write("note", p, None) : p \in {Alice, Publisher, Claimant, Forger}}
                 \cup {Write("hedge", Alice, "memguard:slot"), Write("note", Claimant, "memguard:slot"),
                       Write("poison", Nobody, None)}
                 \cup {Write(t, Nobody, "config:limit") : t \in {"note", "email"}}
MixedReads  == {Read(Everything, p) : p \in {Alice, Bob, Forger}}
                 \cup {Read({"note"}, Claimant)}

Symmetry == Permutations(Handlers) \cup Permutations(Ids)
=============================================================================

----------------------------- MODULE GuardData -----------------------------
(***************************************************************************)
(* The vocabulary the guard and its contract share: what a text looks like *)
(* to the Detector seam, the named keys of the key policy, the requests of *)
(* the four verbs and the shapes of their answers.                         *)
(***************************************************************************)
EXTENDS Identity

CONSTANTS
    Texts,          \* what a client may ask to store
    Contents,       \* texts as they look after RedactPII
    Redact,         \* RedactPII, as a function
    Injected,       \* texts DetectInjection flags
    Borderline,     \* texts DetectBorderline flags
    PII,            \* texts in which RedactPII finds something
    Residual,       \* <<deleted, survivor>> pairs residueScanIndexes reports
    Keys,           \* non-empty logical slot names
    ReservedKeys,   \* those with the prefix "memguard:"
    ProtectedKeys,  \* those matching MEMGUARD_PROTECTED_KEYS
    ImmutableKeys,  \* those matching MEMGUARD_IMMUTABLE_KEYS
    Ids,            \* what "mem-" + randHex(6) may return
    BogusIds,       \* ids a client may name that are never minted
    WriteRequests,  \* the validate_write requests clients send
    ReadRequests,   \* the validate_read requests clients send
    None            \* the absent entry, id, key, content or baseline

WriteRequest == [op : {"validate_write"}, text : Texts, who : Principals,
                 key : Keys \cup {None}]
\* A query is the set of contents it is a substring of.
ReadRequest  == [op : {"validate_read"}, query : SUBSET Contents, who : Principals]
IdRequest    == [op : {"verify_delete", "review_quarantine"}, id : Ids \cup BogusIds]
Request      == WriteRequest \cup ReadRequest \cup IdRequest

ASSUME DetectorAssumption ==
    /\ Contents \subseteq Texts
    /\ Injected \subseteq Texts /\ Borderline \subseteq Texts
    /\ PII \subseteq Texts \ Contents
    /\ Redact \in [Texts -> Contents]
    /\ \A c \in Contents : Redact[c] = c
    /\ Residual \subseteq Contents \X Contents

ASSUME KeyAssumption ==
    ReservedKeys \subseteq Keys /\ ProtectedKeys \subseteq Keys /\ ImmutableKeys \subseteq Keys

\* randHex draws 48 random bits: a client does not guess an id it was not given.
ASSUME IdAssumption == Ids \cap BogusIds = {}

ASSUME RequestAssumption ==
    WriteRequests \subseteq WriteRequest /\ ReadRequests \subseteq ReadRequest

-----------------------------------------------------------------------------
Flags == {"injection_suspected", "pii", "borderline_suspected",
          "protected_key_violation", "immutable_mismatch", "behavioral"}

\* The additive flags of the Detector seam, in one set: order is not modelled.
DetectorFlags(text) ==
    {f \in {"injection_suspected", "pii", "borderline_suspected"} :
        \/ f = "injection_suspected"  /\ text \in Injected
        \/ f = "pii"                  /\ text \in PII
        \/ f = "borderline_suspected" /\ text \in Borderline}

Entry == [content       : Contents,
          boundIdentity : BoundKeys,
          sourceClass   : SourceClasses,
          flags         : SUBSET Flags,
          quarantined   : BOOLEAN]

ASSUME NoneAssumption == None \notin Texts \cup Keys \cup Ids \cup BogusIds \cup Entry

WriteAnswer  == [op : {"validate_write"}, allow : BOOLEAN, id : Ids \cup {None},
                 state : {"allow", "quarantine", "block"}, flags : SUBSET Flags]
\* content_redacted, as the set of the entries it joins.
ReadAnswer   == [op : {"validate_read"}, hits : SUBSET (Ids \X Contents)]
ReviewAnswer == [op : {"review_quarantine"}, found : BOOLEAN,
                 content : Contents \cup {None}, flags : SUBSET Flags]
\* deletion_hash is collision-free: the pair it digests.
DeleteAnswer == [op : {"verify_delete"}, confirmed : BOOLEAN, residue : BOOLEAN,
                 hash : (Ids \cup BogusIds) \X (Contents \cup {None})]
Answer       == WriteAnswer \cup ReadAnswer \cup ReviewAnswer \cup DeleteAnswer

-----------------------------------------------------------------------------
(***************************************************************************)
(* The access rule ADR-004 and ADR-013 promise, stated on the principals   *)
(* and not on the keys the code derives from them: what author published   *)
(* is for everyone when shared by an attested author, for the author's own *)
(* attested identity when it has one, and for the identity-less otherwise. *)
(***************************************************************************)
Identified(p) == p.attested /\ p.subject \in Subjects

MayRead(reader, author) ==
    \/ author.attested /\ author.shared
    \/ Identified(author) /\ Identified(reader) /\ reader.subject = author.subject
    \/ /\ ~(author.attested /\ author.shared) /\ ~Identified(author)
       /\ (~reader.attested \/ reader.subject = Unbound)
=============================================================================

------------------------------ MODULE Identity ------------------------------
(***************************************************************************)
(* The Principal seam (principal.go): how the typed identity carried on    *)
(* validate_write and validate_read becomes the key an entry is bound to   *)
(* and the keys a reader matches.  Trimming and the JSON decoding are      *)
(* abstracted: a principal is the record principalFromMap returns, with    *)
(* Unbound for a missing or empty spiffe_id.                               *)
(***************************************************************************)

\* The trimmed, non-empty SPIFFE IDs other than the reserved shared marker.
CONSTANT Subjects

Unbound     == ""
SharedScope == "shared://"

ASSUME SubjectsAssumption == Subjects \cap {Unbound, SharedScope} = {}

\* The source_class values sourceClassFromMap passes through unchanged.
RecognizedSources == {"external_tool", "user_input", "agent_authored", "system"}

BoundKeys == Subjects \cup {Unbound, SharedScope}

\* What principalFromMap can return, with the raw source_class beside it.
\* A wire spiffe_id may be any string, the shared marker included.
Principals == [subject  : BoundKeys,
               attested : BOOLEAN,
               shared   : BOOLEAN,
               source   : RecognizedSources \cup {"", "unrecognized"}]

RawSource(p) == p.source     \* mutant: the raw tag stored as it came

SourceClass(p) ==
    IF p.source \in RecognizedSources THEN p.source ELSE "unknown"

SourceClasses == RecognizedSources \cup {"unknown"}

-----------------------------------------------------------------------------
\* Mutant: the shared marker not neutralised.
BoundKeyForForgeable(p) ==
    IF p.attested /\ p.shared THEN SharedScope
    ELSE IF p.attested THEN p.subject ELSE Unbound

\* The key an entry written by p carries (producer half).
BoundKeyFor(p) ==
    IF p.attested /\ p.shared THEN SharedScope
    ELSE IF p.attested /\ p.subject \in Subjects THEN p.subject ELSE Unbound

\* The one bound key a reader p matches besides the shared scope (consumer half).
ReaderVisibilityKey(p) == IF p.attested THEN p.subject ELSE Unbound

VisibleKeys(p) == {ReaderVisibilityKey(p), SharedScope}
=============================================================================

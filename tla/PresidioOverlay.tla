-------------------------- MODULE PresidioOverlay --------------------------
(***************************************************************************)
(* How RedactPII lays the sidecar's entities over the native redaction     *)
(* (detector_presidio.go).  A text is a sequence of characters, its Go     *)
(* string the sequence of their bytes.  The sidecar counts characters, as  *)
(* Python does; the detector slices bytes.  A placeholder is one symbol    *)
(* here, so that no value matches inside of one: what that leaves out,     *)
(* SpelledOverlay has.                                                     *)
(***************************************************************************)
EXTENDS Naturals, SequencesExt

CONSTANTS Chars,
          Wide,          \* characters of two bytes
          NativePII,     \* characters the native detector redacts
          Labels,        \* placeholders of the listed entity types
          Unlisted,      \* an entity of another type, or below the score floor
          MaxLen,        \* bound: characters of a text
          MaxEntities    \* bound: entities of an answer

ASSUME NativeAssumption == "native" \notin Labels
ASSUME BoundAssumption == MaxLen \in Nat /\ MaxEntities \in Nat

Texts == UNION {[1..n -> Chars] : n \in 1..MaxLen}

\* Character positions from (inclusive, from 0) and to (exclusive).
Entities(t) == {e \in [label : Labels \cup {Unlisted}, from : 0..Len(t), to : 0..Len(t)] :
                   e.from < e.to}

VARIABLES text, entities,   \* what RedactPII was given and the sidecar's answer
          redacted,         \* the output so far
          hits,             \* entity values not applied yet
          flags             \* labels flagged so far

vars == <<text, entities, redacted, hits, flags>>

Bytes(t) ==
    FlattenSeq([i \in DOMAIN t |-> IF t[i] \in Wide THEN << <<t[i], 1>>, <<t[i], 2>> >>
                                                    ELSE << <<t[i], 1>> >>])

Placeholder(l) == <<l, 0>>

IsNative(b) == b[1] \in NativePII

NativeRedacted(bytes) ==
    FlattenSeq([i \in DOMAIN bytes |->
        IF ~IsNative(bytes[i]) THEN <<bytes[i]>>
        ELSE IF bytes[i][2] = 1 THEN <<Placeholder("native")>> ELSE <<>>])

Occurs(s, t) == s \in SubSeqs(t)

-----------------------------------------------------------------------------
\* The value Go cuts out of the text for an entity.
Value(t, e) == SubSeq(Bytes(t), e.from + 1, e.to)

Usable(t, e) == e.label # Unlisted /\ e.to <= Len(Bytes(t))

Hit(t, e) == [label |-> e.label, value |-> Value(t, e)]

\* The usable entities without repeated pairs of label and value, in the answer's order.
Hits(t, es) ==
    LET upTo[n \in 0..Len(es)] ==
            IF n = 0 THEN <<>>
            ELSE IF Usable(t, es[n]) /\ ~Contains(upTo[n - 1], Hit(t, es[n]))
            THEN Append(upTo[n - 1], Hit(t, es[n]))
            ELSE upTo[n - 1]
    IN  upTo[Len(es)]

Init ==
    /\ text \in Texts
    /\ redacted = NativeRedacted(Bytes(text))
    /\ entities \in UNION {[1..n -> Entities(text)] : n \in 0..MaxEntities}
    /\ hits = Hits(text, entities)
    /\ flags = {}

InOrder == 1                        \* mutant: the values are applied in the answer's order

\* The first of the longest hits: what iterating over the stable sort applies next.
Longest ==
    CHOOSE i \in DOMAIN hits : \A j \in DOMAIN hits :
        \/ Len(hits[i].value) > Len(hits[j].value)
        \/ Len(hits[i].value) = Len(hits[j].value) /\ i <= j

ReplaceOnce ==                      \* mutant: only the first occurrence is replaced
    /\ hits # <<>>
    /\ LET h == hits[Longest] IN
           /\ Occurs(h.value, redacted)
           /\ redacted' = ReplaceFirstSubSeq(<<Placeholder(h.label)>>, h.value, redacted)
           /\ flags' = flags \cup {h.label}
    /\ hits' = RemoveAt(hits, Longest)
    /\ UNCHANGED <<text, entities>>

\* ReplaceAll replaces the occurrences of the value from left to right.
Replace ==
    /\ hits # <<>>
    /\ LET h == hits[Longest] IN
           /\ Occurs(h.value, redacted)
           /\ redacted' = ReplaceFirstSubSeq(<<Placeholder(h.label)>>, h.value, redacted)
           /\ flags' = flags \cup {h.label}
    /\ UNCHANGED <<text, entities, hits>>

NextHit ==
    /\ hits # <<>> /\ ~Occurs(hits[Longest].value, redacted)
    /\ hits' = RemoveAt(hits, Longest)
    /\ UNCHANGED <<text, entities, redacted, flags>>

Next == Replace \/ NextHit

Spec == Init /\ [][Next]_vars

Done == hits = <<>>

-----------------------------------------------------------------------------
UsableEntities == {e \in ToSet(entities) : Usable(text, e)}

(***************************************************************************)
(* No value cut out for a listed entity survives in the output, wherever   *)
(* and however often it occurs (detector_presidio.go RedactPII).           *)
(***************************************************************************)
NoValueLeft == Done => \A e \in UsableEntities : ~Occurs(Value(text, e), redacted)

\* The byte intervals of the text that hold a value of a usable entity.
Occurrences ==
    LET B == Bytes(text) IN
    {p \in (1..Len(B)) \X (1..Len(B)) :
        p[1] <= p[2] /\ \E e \in UsableEntities : SubSeq(B, p[1], p[2]) = Value(text, e)}

\* Values that hold no native PII and whose occurrences are nested or disjoint.
Nested ==
    /\ \A e \in UsableEntities : \A i \in DOMAIN Value(text, e) : ~IsNative(Value(text, e)[i])
    /\ \A p, q \in Occurrences : \/ p[2] < q[1] \/ q[2] < p[1]
                                 \/ p[1] <= q[1] /\ q[2] <= p[2]
                                 \/ q[1] <= p[1] /\ p[2] <= q[2]

\* The elements of s at the places in I, in order.
Selected(s, I) == FlattenSeq([i \in DOMAIN s |-> IF i \in I THEN <<s[i]>> ELSE <<>>])

\* The bytes of the text outside native PII and outside every value.
Clear ==
    LET B == Bytes(text) IN
    {i \in DOMAIN B : ~IsNative(B[i]) /\ \A p \in Occurrences : i \notin p[1]..p[2]}

(***************************************************************************)
(* Values that are nested or apart are covered completely, a shorter one   *)
(* inside a longer one never breaks it up, and no other byte is touched    *)
(* (detector_presidio.go: "longest-first").                                *)
(***************************************************************************)
NestedValuesCovered ==
    (Done /\ Nested) =>
        Selected(redacted, {i \in DOMAIN redacted : redacted[i][2] # 0}) = Selected(Bytes(text), Clear)

(***************************************************************************)
(* detector_presidio.go:252-253: "We compute entity spans on the original  *)
(* so offsets are valid".  What the sidecar found does not survive in the  *)
(* output.                                                                 *)
(***************************************************************************)
FoundIsRedacted ==
    Done => \A e \in UsableEntities : ~Occurs(Bytes(SubSeq(text, e.from + 1, e.to)), redacted)
=============================================================================

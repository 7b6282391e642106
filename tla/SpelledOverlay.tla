--------------------------- MODULE SpelledOverlay ---------------------------
(***************************************************************************)
(* The overlay of PresidioOverlay beside the same one with its             *)
(* placeholders spelled out, as detector_presidio.go writes them: "<", the *)
(* label, ">".  They are text like any other, in which the values of later *)
(* hits are looked for.                                                    *)
(***************************************************************************)
EXTENDS PresidioOverlay

CONSTANT Letters       \* label, or "native" -> the characters of its placeholder

ASSUME LettersAssumption ==
    /\ DOMAIN Letters = Labels \cup {"native"}
    /\ \A l \in DOMAIN Letters : Letters[l] # <<>>

VARIABLE spelled       \* the output so far, as text

\* The characters of a placeholder have one byte.
Spelling(l) == [i \in DOMAIN Letters[l] |-> <<Letters[l][i], 1>>]

\* From left to right; what was put in is not looked at again.
StringsReplaceAll(s, v, w) ==
    LET from[k \in 1..(Len(s) + 1)] ==
            IF k > Len(s) THEN <<>>
            ELSE IF k + Len(v) <= Len(s) + 1 /\ SubSeq(s, k, k + Len(v) - 1) = v
            THEN w \o from[k + Len(v)]
            ELSE <<s[k]>> \o from[k + 1]
    IN  from[1]

\* An output with every symbol of a placeholder written out.
WrittenOut(s) ==
    FlattenSeq([i \in DOMAIN s |-> IF s[i][2] = 0 THEN Spelling(s[i][1]) ELSE <<s[i]>>])

SpelledInit == Init /\ spelled = WrittenOut(redacted)

ReplaceFirst ==                     \* mutant: only the first occurrence is replaced
    /\ NextHit
    /\ LET h == hits[Longest] IN
           spelled' = IF Occurs(h.value, spelled)
                      THEN ReplaceFirstSubSeq(Spelling(h.label), h.value, spelled)
                      ELSE spelled

\* One round of the loop over the hits: ReplaceAll on the text.
ApplyHit ==
    /\ NextHit
    /\ LET h == hits[Longest] IN spelled' = StringsReplaceAll(spelled, h.value, Spelling(h.label))

SpelledNext == ApplyHit \/ (Replace /\ UNCHANGED spelled)

SpelledSpec == SpelledInit /\ [][SpelledNext]_<<vars, spelled>>

-----------------------------------------------------------------------------
\* No value has a character in common with a placeholder.
Apart ==
    \A e \in UsableEntities, l \in Labels \cup {"native"} :
        ToSet(Value(text, e)) \cap ToSet(Spelling(l)) = {}

(***************************************************************************)
(* What PresidioOverlay shows with one symbol for a placeholder stands for *)
(* the text the code writes, as long as no value has a character of a      *)
(* placeholder: the output is the same, and a label flagged shows its      *)
(* placeholder whole.  Otherwise a value may match in a placeholder, which *)
(* ReplaceAll then breaks up (detector_presidio.go:296-303).               *)
(***************************************************************************)
SpelledOutAlike ==
    Done /\ Apart =>
        /\ spelled = WrittenOut(redacted)
        /\ \A l \in flags : Occurs(Spelling(l), spelled)
=============================================================================

------------------------------ MODULE Residue ------------------------------
(***************************************************************************)
(* The residue scan (residue.go): does a fragment of a deleted content     *)
(* survive in another one?  A content is a sequence of tokens: words,      *)
(* known by what the scan asks about them, and figures, known by their     *)
(* digits and by how they are written (5000, 5,000 or 5k).  The scan looks *)
(* for substrings, so words may occur inside longer ones.                  *)
(***************************************************************************)
EXTENDS Integers, Sequences, FiniteSets, SequencesExt

CONSTANTS StopWords, ShortWords,          \* of less than 3 letters
          LongWords,                      \* of at least strongTokenMinLen letters
          NumberWordUnits, NumberWordScales,  \* word -> its value
          HeadsOf,    \* <<v, w>>: the word w begins with the shorter v,
          TailsOf,    \* ends with it,
          InnerOf     \* has it somewhere past its first letter

ASSUME NumberWordAssumption ==
    /\ "and" \in StopWords
    /\ NumberWordUnits \in [DOMAIN NumberWordUnits -> Nat]
    /\ NumberWordScales \in [DOMAIN NumberWordScales -> Nat]

ASSUME SubwordAssumption ==
    /\ TailsOf \subseteq InnerOf
    /\ \A pair \in HeadsOf \cup InnerOf : pair[1] # "" /\ pair[2] # ""

\* upper: its first letter is a capital.
Word(w) == [form |-> "word", word |-> w, upper |-> FALSE, value |-> 0, width |-> 0]
Figure(form, n, width) ==
    [form |-> form, word |-> "", upper |-> FALSE, value |-> n, width |-> width]

Width(n) == CHOOSE k \in 1..9 : n < 10^k /\ (k = 1 \/ n >= 10^(k - 1))
Number(n) == Figure("plain", n, Width(n))

Lower(text) == [i \in DOMAIN text |-> [text[i] EXCEPT !.upper = FALSE]]

-----------------------------------------------------------------------------
(* Number words *)

ScaledWhole(run, w) ==      \* mutant: a scale multiplies all that was read so far
    IF w \in DOMAIN NumberWordUnits
    THEN [run EXCEPT !.open = TRUE, !.current = @ + NumberWordUnits[w]]
    ELSE [run EXCEPT !.open = TRUE, !.current = 0,
                     !.total = (@ + run.current) * NumberWordScales[w]]

\* A run of number words is folded into the sum of its scaled parts.
Accumulated(run, w) ==
    LET current == IF run.current = 0 THEN 1 ELSE run.current
        scale == NumberWordScales[w]
    IN  IF w \in DOMAIN NumberWordUnits
        THEN [run EXCEPT !.open = TRUE, !.current = @ + NumberWordUnits[w]]
        ELSE IF scale = 100
        THEN [run EXCEPT !.open = TRUE, !.current = current * 100]
        ELSE [run EXCEPT !.open = TRUE, !.current = 0, !.total = @ + current * scale]

NumberWords == DOMAIN NumberWordUnits \cup DOMAIN NumberWordScales

EmptyRun == [open |-> FALSE, current |-> 0, total |-> 0]

Written(out, run) == IF run.open THEN Append(out, Number(run.total + run.current)) ELSE out

Read(acc, t) ==
    IF t.word \in NumberWords THEN [acc EXCEPT !.run = Accumulated(@, t.word)]
    ELSE IF acc.run.open /\ t.word = "and" THEN acc
    ELSE [out |-> Append(Written(acc.out, acc.run), t), run |-> EmptyRun]

CanonicalizeNumberWords(text) ==
    LET upTo[n \in 0..Len(text)] ==
            IF n = 0 THEN [out |-> <<>>, run |-> EmptyRun] ELSE Read(upTo[n - 1], text[n])
    IN  Written(upTo[Len(text)].out, upTo[Len(text)].run)

KeepKilo(t) == IF t.form = "comma" THEN Number(t.value) ELSE t      \* mutant: 5k stays 5k

\* The spelling of a figure: separators stripped, k expanded.
PlainFigure(t) == IF t.form = "kilo" THEN Number(t.value * 1000)
                  ELSE IF t.form = "comma" THEN Number(t.value) ELSE t

NormalizeForResidue(text) ==
    LET canonical == CanonicalizeNumberWords(Lower(text))
    IN  [i \in DOMAIN canonical |-> PlainFigure(canonical[i])]

-----------------------------------------------------------------------------
(* Tokens *)

\* Folding the commas of a separated figure leaves its groups of digits.
Pieces(t) ==
    LET group(n) == Figure("plain", n % 1000, 3)
    IN  IF t.form # "comma" THEN <<t>>
        ELSE IF t.width <= 6 THEN <<Number(t.value \div 1000), group(t.value)>>
        ELSE <<Number((t.value \div 1000) \div 1000), group(t.value \div 1000), group(t.value)>>

\* Short tokens are dropped unless they are numbers: 5k is not one.
Distinctive(t) ==
    /\ t.form = "word" => t.word \notin StopWords \cup ShortWords
    /\ t.form = "kilo" => t.width >= 2

DistinctiveTokens(text) ==
    FlattenSeq([i \in DOMAIN text |->
        IF Distinctive(Lower(text)[i]) THEN Pieces(Lower(text)[i]) ELSE <<>>])

AnyToken(t) == TRUE      \* mutant: a common word is enough

IsStrongToken(t) == t.form # "word" \/ t.word \in LongWords

DigitsIn(t, u) == \E k \in 0..(u.width - t.width) : (u.value \div 10^k) % 10^t.width = t.value

\* The word t at the beginning of the longer u, at its end, and past its first
\* letter: there all letters are small.
Begins(t, u) == <<t.word, u.word>> \in HeadsOf /\ t.upper = u.upper
Ends(t, u) == <<t.word, u.word>> \in TailsOf /\ ~t.upper
Follows(t, u) == <<t.word, u.word>> \in InnerOf /\ ~t.upper

\* A token as a substring of another: "cat" occurs in "concatenate", "50" in
\* "5000" and in "50k".
Inside(t, u) ==
    \/ t = u
    \/ Begins(t, u)
    \/ Follows(t, u)
    \/ t.form = "plain" /\ u.form \in {"plain", "kilo"} /\ DigitsIn(t, u)
    \/ t.form = "kilo" /\ u.form = "kilo" /\ t.width <= u.width
                       /\ u.value % 10^t.width = t.value

ContainsToken(text, t) ==
    \E w \in ToSet(text) : \E u \in ToSet(Pieces(w)) : Inside(t, u)

\* A span as a substring of a text: it may begin and end inside a word.  One
\* that begins or ends inside a figure shows that figure: tier 1 or 2.
ContainsSpan(text, span) ==
    LET n == Len(span)
    IN  \E k \in 0..(Len(text) - n) : \A i \in 1..n :
            \/ span[i] = text[k + i]
            \/ i = 1 /\ n = 1 /\ Inside(span[i], text[k + i])
            \/ i = 1 /\ n > 1 /\ Ends(span[i], text[k + i])
            \/ i = n /\ n > 1 /\ Begins(span[i], text[k + i])

-----------------------------------------------------------------------------
(* The tiers *)

ExactFragmentMatch(deleted, survivor) ==
    \/ ContainsSpan(survivor, deleted)
    \/ \E t \in ToSet(DistinctiveTokens(deleted)) :
           IsStrongToken(t) /\ ContainsToken(survivor, t)

NormalizedFragmentMatch(normDeleted, survivor) ==
    LET normSurvivor == NormalizeForResidue(survivor)
    IN  \/ normDeleted # <<>> /\ ContainsSpan(normSurvivor, normDeleted)
        \/ \E t \in ToSet(DistinctiveTokens(normDeleted)) :
               IsStrongToken(t) /\ ContainsToken(normSurvivor, t)

PhraseMinTokens == 3
CountDistinctive(window) == Cardinality({i \in DOMAIN window : Distinctive(window[i])})

PhraseMatch(normDeleted, survivor) ==
    LET normSurvivor == NormalizeForResidue(survivor)
    IN  \E i, j \in DOMAIN normDeleted :
            LET window == SubSeq(normDeleted, i, j)
            IN  CountDistinctive(window) >= PhraseMinTokens /\ ContainsSpan(normSurvivor, window)

MinDistinctiveTokens == 3

\* Tokens are counted as often as the deleted content has them.  0.7 as 7/10.
TokenOverlapMatch(deleted, survivor) ==
    LET delTokens == DistinctiveTokens(deleted)
        Norm(t) == NormalizeForResidue(<<t>>)
        survSet == {Norm(t) : t \in ToSet(DistinctiveTokens(survivor))}
        hits == {i \in DOMAIN delTokens : Norm(delTokens[i]) \in survSet}
    IN  /\ Len(delTokens) >= MinDistinctiveTokens
        /\ 10 * Cardinality(hits) >= 7 * Len(delTokens)

MatchSurvivor(deleted, survivor) ==
    LET normDeleted == NormalizeForResidue(deleted)
    IN  \/ ExactFragmentMatch(deleted, survivor)
        \/ NormalizedFragmentMatch(normDeleted, survivor)
        \/ PhraseMatch(normDeleted, survivor)
        \/ TokenOverlapMatch(deleted, survivor)
=============================================================================

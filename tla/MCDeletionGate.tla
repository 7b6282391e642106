-------------------------- MODULE MCDeletionGate ----------------------------
(***************************************************************************)
(* The words and contents of the small instance.                           *)
(***************************************************************************)
EXTENDS DeletionGate

MCStop == {"with", "and"}
MCShort == {"is"}
MCLong == {"codename", "codenames", "demerger"}
MCHeads == {<<"acme", "acmes">>, <<"codename", "codenames">>}
MCTails == {<<"merger", "demerger">>}
MCInner == MCTails
MCUnits == [w \in {"one", "two", "three", "four", "five", "six", "seven", "eight", "nine", "ten",
                   "eleven", "twelve", "twenty", "thirty", "forty", "fifty"} |->
    CASE w = "one" -> 1 [] w = "two" -> 2 [] w = "three" -> 3 [] w = "four" -> 4
      [] w = "five" -> 5 [] w = "six" -> 6 [] w = "seven" -> 7 [] w = "eight" -> 8
      [] w = "nine" -> 9 [] w = "ten" -> 10 [] w = "eleven" -> 11 [] w = "twelve" -> 12
      [] w = "twenty" -> 20 [] w = "thirty" -> 30 [] w = "forty" -> 40 [] w = "fifty" -> 50]
MCScales == [w \in {"hundred", "thousand", "million"} |->
    CASE w = "hundred" -> 100 [] w = "thousand" -> 1000 [] w = "million" -> 1000000]

Capital(w) == [Word(w) EXCEPT !.upper = TRUE]

Phrase(words) == [i \in DOMAIN words |-> Word(words[i])]

\* Amounts of every shape, below a million, with and without "and", and with a
\* scale word that comes first.
SpelledAmounts == {
    <<21, <<"twenty", "one">>>>,
    <<100, <<"one", "hundred">>>>, <<100, <<"hundred">>>>,
    <<342, <<"three", "hundred", "forty", "two">>>>,
    <<342, <<"three", "hundred", "and", "forty", "two">>>>,
    <<1005, <<"one", "thousand", "five">>>>, <<1005, <<"one", "thousand", "and", "five">>>>,
    <<1005, <<"thousand", "five">>>>, <<1005, <<"thousand", "and", "five">>>>,
    <<1100, <<"one", "thousand", "one", "hundred">>>>, <<1100, <<"thousand", "one", "hundred">>>>,
    <<12345, <<"twelve", "thousand", "three", "hundred", "forty", "five">>>>,
    <<12345, <<"twelve", "thousand", "three", "hundred", "and", "forty", "five">>>>,
    <<105000, <<"one", "hundred", "five", "thousand">>>>,
    <<105000, <<"hundred", "five", "thousand">>>>,
    <<342011, <<"three", "hundred", "forty", "two", "thousand", "eleven">>>>,
    <<342011, <<"three", "hundred", "forty", "two", "thousand", "and", "eleven">>>> }

Amounts(n, words) ==
    {<<Number(n)>>, Phrase(words)}
    \cup (IF n < 1000 THEN {} ELSE {<<Figure("comma", n, Width(n))>>})
    \cup (IF n % 1000 # 0 THEN {} ELSE {<<Figure("kilo", n \div 1000, Width(n \div 1000))>>})

Words(w) == {<<Word(w)>>, <<Capital(w)>>}

\* A base is what a content says, a sequence of words and amounts; its
\* renderings are the ways to write it.
Joined(xs, ys) == {x \o y : x \in xs, y \in ys}
Bases == {
    Joined({<<Word("acme"), Word("is")>>}, Amounts(5000, <<"five", "thousand">>)),
    Joined(Amounts(25000, <<"twenty", "five", "thousand">>), {<<Word("and"), Word("merger")>>}),
    Joined(Words("merger"), {<<Word("with"), Word("acme"), Word("corp")>>}),
    {<<Word("merger"), Word("acme")>>},
    {<<Number(1250000)>>, <<Figure("comma", 1250000, 7)>>},
    Amounts(500, <<"five", "hundred">>), Words("codename"), {<<Word("is")>>} }

Others == { <<>>, <<Word("corp"), Word("merger"), Word("acme")>>, <<Word("merger")>>,
            <<Word("acme"), Word("corp"), Word("is")>>, <<Word("merger"), Word("acme"), Word("done")>>,
            <<Word("codenames")>>, <<Capital("demerger"), Word("acmes")>> }

Embedded(s) == <<Word("corp")>> \o s \o <<Word("is")>>

Texts == UNION Bases \cup {Embedded(s) : s \in UNION Bases} \cup Others
         \cup {Phrase(a[2]) : a \in SpelledAmounts}

MCText == FoldSet(LAMBDA text, seq : Append(seq, text), <<>>, Texts)
MCContents == DOMAIN MCText
Named(texts) == {c \in MCContents : MCText[c] \in texts}

MCCopies ==
    UNION {Named(b) \X Named(b \cup {Embedded(s) : s \in b}) : b \in Bases}

MCOffers == [i \in Ids |->
    IF i = "a" THEN {[content |-> c, boundIdentity |-> "alice"] : c \in Named(UNION Bases \cup Others)}
    ELSE {[content |-> c, boundIdentity |-> "unbound"] : c \in MCContents}]

MCQueries == {{}, Named(UNION Bases), MCContents}

-----------------------------------------------------------------------------
SpelledAs == [c \in MCContents |-> {a[1] : a \in {b \in SpelledAmounts : Phrase(b[2]) = MCText[c]}}]
Normalized == [c \in MCContents |-> NormalizeForResidue(MCText[c])]

(***************************************************************************)
(* A stored content that spells an amount, with or without "and", reads as *)
(* its figure and nothing else (residue.go:372-424): a scale multiplies    *)
(* what was read since the last one, and "and" neither ends nor enters it. *)
(***************************************************************************)
SpelledAmountFolds ==
    \A i \in Present : \A n \in SpelledAs[primary[i].content] :
        Normalized[primary[i].content] = <<Number(n)>>
=============================================================================

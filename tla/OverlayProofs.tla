--------------------------- MODULE OverlayProofs ---------------------------
(***************************************************************************)
(* Proofs about the overlay of the sidecar's entities over the native      *)
(* redaction, for texts and answers of any length: the output holds no     *)
(* value cut out for a usable entity, and values that are nested or apart  *)
(* are covered as a whole.  A placeholder is one symbol no byte is equal   *)
(* to: a value that matches inside the text of one is not ruled out.       *)
(***************************************************************************)
EXTENDS PresidioOverlay, WellFoundedInduction, TLAPS

-----------------------------------------------------------------------------
(* Induction over a length, and what a function defined over the prefixes  *)
(* of a sequence is                                                        *)

NatOrder == {ss \in Nat \X Nat : ss[1] < ss[2]}

LEMMA NatOrderWellFounded == IsWellFoundedOn(NatOrder, Nat)
BY NatLessThanWellFounded, SMT DEF OpToRel, NatOrder

LEMMA Least ==
    ASSUME NEW T \in SUBSET Nat, T # {}
    PROVE  \E x \in T : \A y \in T : x <= y
<1>1. PICK x \in T : \A y \in T : <<y, x>> \notin NatOrder
    BY WFMin, NatOrderWellFounded
<1>2. \A y \in T : ~(y < x)
    BY <1>1 DEF NatOrder
<1> QED
    BY <1>2

\* Induction over the set of the numbers that have a property.
LEMMA Induction ==
    ASSUME NEW T, 0 \in T, \A n \in Nat : n \in T => n + 1 \in T
    PROVE  \A n \in Nat : n \in T
<1> SUFFICES ASSUME Nat \ T # {} PROVE FALSE
    OBVIOUS
<1>1. PICK x \in Nat \ T : \A y \in Nat \ T : x <= y
    BY Least
<1>2. x # 0 /\ x - 1 \in Nat
    OBVIOUS
<1>3. x - 1 \in T
    BY <1>1, <1>2
<1>4. (x - 1) + 1 \in T
    BY <1>2, <1>3
<1> QED
    BY <1>1, <1>4

\* The values a step takes from a base, up to the n-th.
Iterates(f, S, base, step, n) ==
    f \in [0..n -> S] /\ f[0] = base /\ \A i \in 1..n : f[i] = step[<<i, f[i - 1]>>]

LEMMA Recursion ==
    ASSUME NEW S, NEW base, base \in S, NEW step, step \in [Nat \X S -> S], NEW n, n \in Nat
    PROVE  \E f : Iterates(f, S, base, step, n)
<1> DEFINE Defines(f, k) == f[0] = base /\ \A i \in 1..k : f[i] = step[<<i, f[i - 1]>>]
           T == {k \in Nat : \E f \in [0..k -> S] : Defines(f, k)}
<1>1. 0 \in T
    <2>1. [i \in 0..0 |-> base] \in [0..0 -> S] /\ Defines([i \in 0..0 |-> base], 0)
        OBVIOUS
    <2> QED
        BY <2>1
<1>2. ASSUME NEW k \in Nat, k \in T PROVE k + 1 \in T
    <2>1. PICK f \in [0..k -> S] : Defines(f, k)
        BY <1>2
    <2> DEFINE g == [i \in 0..(k + 1) |-> IF i = k + 1 THEN step[<<k + 1, f[k]>>] ELSE f[i]]
    <2>2. f[k] \in S /\ step[<<k + 1, f[k]>>] \in S
        OBVIOUS
    <2>3. g \in [0..(k + 1) -> S]
        BY <2>2
    <2>4. \A i \in 1..(k + 1) : g[i - 1] = f[i - 1]
        OBVIOUS
    <2>5. \A i \in 1..k : g[i] = f[i]
        OBVIOUS
    <2>6. g[0] = base
        BY <2>1
    <2>7. g[k + 1] = step[<<k + 1, f[k]>>]
        OBVIOUS
    <2> HIDE DEF g
    <2>8. \A i \in 1..(k + 1) : g[i] = step[<<i, g[i - 1]>>]
        <3> TAKE i \in 1..(k + 1)
        <3>1. CASE i = k + 1
            <4>1. i - 1 = k /\ k \in 0..k
                BY <3>1
            <4>2. g[i - 1] = f[k]
                BY <2>4, <4>1
            <4> QED
                BY <3>1, <4>2, <2>7
        <3>2. CASE i \in 1..k
            BY <3>2, <2>1, <2>4, <2>5
        <3> QED
            BY <3>1, <3>2
    <2>9. Defines(g, k + 1)
        BY <2>6, <2>8
    <2> QED
        BY <2>3, <2>9
<1> HIDE DEF T
<1>3. n \in T
    BY <1>1, <1>2, Induction
<1> QED
    BY <1>3 DEF T, Iterates

\* FlattenSeq concatenates from left to right.
Concatenates(g, seqs, S) ==
    /\ g \in [0..Len(seqs) -> Seq(S)]
    /\ g[0] = <<>>
    /\ \A i \in 1..Len(seqs) : g[i] = g[i - 1] \o seqs[i]

LEMMA FlattenSteps ==
    ASSUME NEW S, NEW seqs \in Seq(Seq(S))
    PROVE  \E g : Concatenates(g, seqs, S) /\ FlattenSeq(seqs) = g[Len(seqs)]
<1> DEFINE n == Len(seqs)
           flatten[i \in 1..n] == IF i = 1 THEN seqs[i] ELSE flatten[i - 1] \o seqs[i]
           Equation(g) == g = [i \in 1..n |-> IF i = 1 THEN seqs[i] ELSE g[i - 1] \o seqs[i]]
           step == [p \in Nat \X Seq(S) |-> IF p[1] \in 1..n THEN p[2] \o seqs[p[1]] ELSE p[2]]
<1>1. n \in Nat /\ \A i \in 1..n : seqs[i] \in Seq(S)
    OBVIOUS
<1>2. step \in [Nat \X Seq(S) -> Seq(S)]
    <2>1. ASSUME NEW i \in Nat, NEW s \in Seq(S)
          PROVE  (IF i \in 1..n THEN s \o seqs[i] ELSE s) \in Seq(S)
        <3>1. CASE i \in 1..n
            <4>1. seqs[i] \in Seq(S)
                BY <1>1, <3>1
            <4>2. s \o seqs[i] \in Seq(S)
                BY <4>1
            <4> QED
                BY <3>1, <4>2
        <3>2. CASE i \notin 1..n
            BY <3>2
        <3> QED
            BY <3>1, <3>2
    <2> QED
        BY <2>1
<1>3. \A i \in Nat, s \in Seq(S) : i \in 1..n => step[<<i, s>>] = s \o seqs[i]
    OBVIOUS
<1>4. <<>> \in Seq(S)
    OBVIOUS
<1> HIDE DEF step
<1>5. PICK f : Iterates(f, Seq(S), <<>>, step, n)
    <2> HIDE DEF n
    <2> QED
        BY <1>1, <1>2, <1>4, Recursion
<1>6. ASSUME NEW i \in 1..n PROVE f[i] = f[i - 1] \o seqs[i]
    <2>1. i \in Nat /\ i - 1 \in 0..n
        BY <1>1
    <2>2. f[i - 1] \in Seq(S)
        BY <1>5, <2>1 DEF Iterates
    <2>3. step[<<i, f[i - 1]>>] = f[i - 1] \o seqs[i]
        BY <1>3, <2>1, <2>2
    <2> QED
        BY <1>5, <2>3 DEF Iterates
<1>7. Concatenates(f, seqs, S)
    BY <1>5, <1>6 DEF Concatenates, Iterates
<1>8. CASE n = 0
    <2>1. FlattenSeq(seqs) = <<>>
        BY <1>8 DEF FlattenSeq
    <2>2. f[n] = <<>>
        BY <1>8, <1>7 DEF Concatenates
    <2> QED
        BY <1>7, <2>1, <2>2
<1>9. CASE n # 0
    <2>1. FlattenSeq(seqs) = flatten[n]
        BY <1>9 DEF FlattenSeq
    <2> DEFINE g == [i \in 1..n |-> f[i]]
    <2>2. Equation(g)
        <3>1. 1 \in 1..n
            BY <1>1, <1>9
        <3>2. seqs[1] \in Seq(S) /\ f[0] = <<>>
            BY <1>1, <3>1, <1>7 DEF Concatenates
        <3>3. f[1] = f[1 - 1] \o seqs[1]
            BY <1>6, <3>1
        <3>8. f[1 - 1] = <<>>
            BY <3>2
        <3>4. f[1] = <<>> \o seqs[1]
            BY <3>3, <3>8
        <3>7. f[1] = seqs[1]
            BY <3>2, <3>4
        <3>5. \A i \in 1..n : i # 1 => i - 1 \in 1..n
            BY <1>1
        <3>6. \A i \in 1..n : g[i] = IF i = 1 THEN seqs[i] ELSE g[i - 1] \o seqs[i]
            BY <1>6, <3>7, <3>5
        <3> QED
            BY <3>6
    <2>3. \E h : Equation(h)
        BY <2>2
    <2>4. Equation(flatten)
        BY <2>3
    <2> HIDE DEF flatten, g
    <2> DEFINE T == {k \in Nat : k \in 1..n => flatten[k] = f[k]}
    <2>5. 0 \in T
        OBVIOUS
    <2>6. ASSUME NEW k \in Nat, k \in T PROVE k + 1 \in T
        <3> SUFFICES ASSUME k + 1 \in 1..n PROVE flatten[k + 1] = f[k + 1]
            OBVIOUS
        <3>1. f[k + 1] = f[k] \o seqs[k + 1]
            <4>1. f[k + 1] = f[(k + 1) - 1] \o seqs[k + 1]
                BY <1>6
            <4>2. (k + 1) - 1 = k
                OBVIOUS
            <4> QED
                BY <4>1, <4>2
        <3>2. CASE k = 0
            <4>1. flatten[1] = seqs[1]
                BY <1>1, <1>9, <2>4
            <4>2. seqs[1] \in Seq(S) /\ f[0] = <<>>
                BY <1>1, <3>2, <1>7 DEF Concatenates
            <4>3. f[1] = <<>> \o seqs[1]
                BY <3>1, <3>2, <4>2
            <4> QED
                BY <3>2, <4>1, <4>2, <4>3
        <3>3. CASE k # 0
            <4>1. k \in 1..n /\ flatten[k] = f[k]
                BY <1>1, <2>6, <3>3
            <4>4. k + 1 # 1
                BY <3>3
            <4>2. flatten[k + 1] = flatten[(k + 1) - 1] \o seqs[k + 1]
                BY <2>4, <4>4
            <4>3. (k + 1) - 1 = k
                OBVIOUS
            <4> QED
                BY <3>1, <4>1, <4>2, <4>3
        <3> QED
            BY <3>2, <3>3
    <2> HIDE DEF T
    <2>7. n \in T
        BY <1>1, <2>5, <2>6, Induction
    <2>8. flatten[n] = f[n]
        BY <1>1, <1>9, <2>7 DEF T
    <2> QED
        BY <1>7, <2>1, <2>8
<1> QED
    BY <1>8, <1>9

LEMMA FlattenType ==
    ASSUME NEW S, NEW seqs \in Seq(Seq(S))
    PROVE  FlattenSeq(seqs) \in Seq(S)
<1>1. PICK g : Concatenates(g, seqs, S) /\ FlattenSeq(seqs) = g[Len(seqs)]
    BY FlattenSteps
<1>2. Len(seqs) \in 0..Len(seqs)
    OBVIOUS
<1> QED
    BY <1>1, <1>2 DEF Concatenates

\* z is x followed by y.
Follows(z, x, y, S) ==
    /\ x \in Seq(S) /\ y \in Seq(S) /\ z \in Seq(S)
    /\ Len(z) = Len(x) + Len(y)
    /\ \A q \in 1..Len(x) : z[q] = x[q]
    /\ \A q \in 1..Len(y) : z[Len(x) + q] = y[q]

LEMMA FlattenStep ==
    ASSUME NEW S, NEW seqs \in Seq(Seq(S)), NEW g, Concatenates(g, seqs, S)
    PROVE  \A i \in 1..Len(seqs) : Follows(g[i], g[i - 1], seqs[i], S)
<1> TAKE i \in 1..Len(seqs)
<1>1. i - 1 \in 0..Len(seqs) /\ i \in 0..Len(seqs) /\ seqs[i] \in Seq(S)
    OBVIOUS
<1>2. g[i - 1] \in Seq(S) /\ g[i] \in Seq(S) /\ g[i] = g[i - 1] \o seqs[i]
    BY <1>1 DEF Concatenates
<1> DEFINE x == g[i - 1]
           y == seqs[i]
<1>3. x \in Seq(S) /\ y \in Seq(S) /\ g[i] = x \o y
    BY <1>1, <1>2
<1> HIDE DEF x, y
<1>4. g[i] \in Seq(S) /\ Len(g[i]) = Len(x) + Len(y)
    BY <1>3
<1>5. /\ \A q \in 1..Len(x) : g[i][q] = x[q]
      /\ \A q \in 1..Len(y) : g[i][Len(x) + q] = y[q]
    BY <1>3
<1>6. Follows(g[i], x, y, S)
    BY <1>3, <1>4, <1>5 DEF Follows
<1> QED
    BY <1>6 DEF x, y

-----------------------------------------------------------------------------
(* Enumerations of sets of positions *)

\* f lists the numbers of T in increasing order.
Enumerates(f, n, T) ==
    /\ f \in [1..n -> T]
    /\ \A i, j \in 1..n : i < j => f[i] < f[j]
    /\ \A q \in T : \E i \in 1..n : f[i] = q

SameList(f, m, g, n) == m = n /\ \A i \in 1..m : f[i] = g[i]

LEMMA SameEnumeration ==
    ASSUME NEW T \in SUBSET Nat, NEW m \in Nat, NEW n \in Nat, NEW f, NEW g,
           Enumerates(f, m, T), Enumerates(g, n, T)
    PROVE  SameList(f, m, g, n)
<1>0. \A q \in T : q \in Nat
    OBVIOUS
<1> DEFINE Agree(k) == k <= m /\ k <= n /\ \A i \in 1..k : f[i] = g[i]
<1>1. ASSUME NEW k \in Nat, Agree(k), k + 1 <= m PROVE Agree(k + 1)
    <2>1. k + 1 \in 1..m /\ f[k + 1] \in T
        BY <1>1 DEF Enumerates
    <2>2. PICK j \in 1..n : g[j] = f[k + 1]
        BY <2>1 DEF Enumerates
    <2>3. j > k
        <3> SUFFICES ASSUME j \in 1..k PROVE FALSE
            OBVIOUS
        <3>1. f[j] = g[j] /\ j \in 1..m /\ j < k + 1
            BY <1>1
        <3>2. f[j] < f[k + 1]
            BY <2>1, <3>1 DEF Enumerates
        <3>3. f[j] = f[k + 1] /\ f[k + 1] \in Nat
            BY <1>0, <2>1, <2>2, <3>1
        <3> QED
            BY <3>2, <3>3
    <2>4. k + 1 \in 1..n /\ g[k + 1] \in T
        BY <2>2, <2>3 DEF Enumerates
    <2>5. PICK i \in 1..m : f[i] = g[k + 1]
        BY <2>4 DEF Enumerates
    <2>6. i > k
        <3> SUFFICES ASSUME i \in 1..k PROVE FALSE
            OBVIOUS
        <3>1. f[i] = g[i] /\ i \in 1..n /\ i < k + 1
            BY <1>1
        <3>2. g[i] < g[k + 1]
            BY <2>4, <3>1 DEF Enumerates
        <3>3. g[i] = g[k + 1] /\ g[k + 1] \in Nat
            BY <1>0, <2>4, <2>5, <3>1
        <3> QED
            BY <3>2, <3>3
    <2>7. i = k + 1 \/ f[k + 1] < f[i]
        BY <2>1, <2>5, <2>6 DEF Enumerates
    <2>8. j = k + 1 \/ g[k + 1] < g[j]
        BY <2>2, <2>3, <2>4 DEF Enumerates
    <2>9. f[k + 1] = g[k + 1]
        <3>1. f[k + 1] \in Nat /\ g[k + 1] \in Nat
            BY <1>0, <2>1, <2>4
        <3>2. g[k + 1] = f[k + 1] \/ f[k + 1] < g[k + 1]
            BY <2>5, <2>7
        <3>3. f[k + 1] = g[k + 1] \/ g[k + 1] < f[k + 1]
            BY <2>2, <2>8
        <3> QED
            BY <3>1, <3>2, <3>3
    <2>10. \A l \in 1..(k + 1) : l \in 1..k \/ l = k + 1
        OBVIOUS
    <2> QED
        BY <1>1, <2>1, <2>4, <2>9, <2>10
<1> DEFINE A == {k \in Nat : k <= m => Agree(k)}
<1>2. 0 \in A
    OBVIOUS
<1>3. ASSUME NEW k \in Nat, k \in A PROVE k + 1 \in A
    BY <1>1, <1>3
<1> HIDE DEF A
<1>4. m \in A
    BY <1>2, <1>3, Induction
<1>5. Agree(m)
    BY <1>4 DEF A
<1>6. ~(m < n)
    <2> SUFFICES ASSUME m < n PROVE FALSE
        OBVIOUS
    <2>1. m + 1 \in 1..n /\ g[m + 1] \in T
        BY DEF Enumerates
    <2>2. PICK i \in 1..m : f[i] = g[m + 1]
        BY <2>1 DEF Enumerates
    <2>3. g[i] = g[m + 1] /\ i \in 1..n /\ i < m + 1
        BY <1>5, <2>2
    <2>4. g[i] < g[m + 1]
        BY <2>1, <2>3 DEF Enumerates
    <2>5. g[m + 1] \in Nat
        BY <1>0, <2>1
    <2> QED
        BY <2>3, <2>4, <2>5
<1> QED
    BY <1>5, <1>6 DEF SameList

LEMMA EmptyOrOne ==
    ASSUME NEW S, NEW s \in Seq(S), Len(s) <= 1 PROVE s = <<>> \/ (s # <<>> /\ Len(s) = 1)
<1>1. Len(s) \in Nat /\ (s = <<>> => Len(s) = 0)
    OBVIOUS
<1>2. Len(s) = 0 => s = <<>>
    OBVIOUS
<1>3. Len(s) = 0 \/ Len(s) = 1
    <2> DEFINE n == Len(s)
    <2>1. n \in Nat /\ n <= 1
        BY <1>1
    <2> HIDE DEF n
    <2>2. n = 0 \/ n = 1
        BY <2>1
    <2> QED
        BY <2>2 DEF n
<1>4. Len(s) = 1 => s # <<>>
    <2>1. Len(s) = 1 => Len(s) # 0
        OBVIOUS
    <2> QED
        BY <1>1, <2>1
<1> QED
    BY <1>2, <1>3, <1>4, Zenon

\* The pieces that are not empty, in the order of what they contribute.
LEMMA FlattenEnumerates ==
    ASSUME NEW S, NEW seqs \in Seq(Seq(S)), \A i \in 1..Len(seqs) : Len(seqs[i]) <= 1
    PROVE  \E pos : /\ Enumerates(pos, Len(FlattenSeq(seqs)), {i \in 1..Len(seqs) : seqs[i] # <<>>})
                    /\ \A i \in 1..Len(FlattenSeq(seqs)) : FlattenSeq(seqs)[i] = seqs[pos[i]][1]
<1>1. PICK g : Concatenates(g, seqs, S) /\ FlattenSeq(seqs) = g[Len(seqs)]
    BY FlattenSteps
<1>7. \A i \in 1..Len(seqs) : Follows(g[i], g[i - 1], seqs[i], S)
    BY <1>1, FlattenStep
<1> DEFINE Kept(k) == {i \in 1..k : seqs[i] # <<>>}
           Listed(k, pos) == /\ Enumerates(pos, Len(g[k]), Kept(k))
                             /\ \A i \in 1..Len(g[k]) : g[k][i] = seqs[pos[i]][1]
           A == {k \in Nat : k <= Len(seqs) => \E pos : Listed(k, pos)}
<1>2. Len(seqs) \in Nat
    OBVIOUS
<1>3. 0 \in A
    <2>1. g[0] = <<>> /\ Len(g[0]) = 0
        BY <1>1 DEF Concatenates
    <2>2. Kept(0) = {}
        OBVIOUS
    <2>3. Listed(0, <<>>)
        BY <2>1, <2>2 DEF Enumerates
    <2> QED
        BY <2>3
<1>4. ASSUME NEW k \in Nat, k \in A PROVE k + 1 \in A
    <2> HIDE DEF Listed
    <2> SUFFICES ASSUME k + 1 <= Len(seqs) PROVE \E pos : Listed(k + 1, pos)
        OBVIOUS
    <2>1. PICK pos : Listed(k, pos)
        BY <1>2, <1>4
    <2> USE DEF Listed
    <2> DEFINE x == g[k]
               y == seqs[k + 1]
               z == g[k + 1]
    <2>2. /\ x \in Seq(S) /\ y \in Seq(S) /\ z \in Seq(S)
          /\ Len(z) = Len(x) + Len(y)
          /\ \A q \in 1..Len(x) : z[q] = x[q]
          /\ \A q \in 1..Len(y) : z[Len(x) + q] = y[q]
        <3>1. k + 1 \in 1..Len(seqs) /\ (k + 1) - 1 = k
            BY <1>2
        <3>2. Follows(z, x, y, S)
            BY <1>7, <3>1
        <3> HIDE DEF x, y, z
        <3> QED
            BY <3>2 DEF Follows
    <2>3. Len(y) <= 1
        BY <1>2
    <2>4. y = <<>> \/ (y # <<>> /\ Len(y) = 1)
        BY <2>2, <2>3, EmptyOrOne
    <2>5. \A i \in 1..(k + 1) : i \in 1..k \/ i = k + 1
        OBVIOUS
    <2>6. \A i \in Kept(k) : i \in Nat /\ i < k + 1
        OBVIOUS
    <2> HIDE DEF x, z
    <2>7. Enumerates(pos, Len(x), Kept(k)) /\ \A i \in 1..Len(x) : x[i] = seqs[pos[i]][1]
        BY <2>1 DEF x
    <2>8. CASE y = <<>>
        <3>1. Kept(k + 1) = Kept(k)
            BY <2>5, <2>8
        <3>2. Len(z) = Len(x)
            BY <2>2, <2>8
        <3>3. \A i \in 1..Len(z) : z[i] = seqs[pos[i]][1]
            BY <2>2, <2>7, <3>2
        <3>4. Enumerates(pos, Len(z), Kept(k + 1))
            BY <2>7, <3>1, <3>2
        <3> QED
            BY <3>3, <3>4 DEF z
    <2>9. CASE y # <<>> /\ Len(y) = 1
        <3> DEFINE new == [i \in 1..Len(z) |-> IF i \in 1..Len(x) THEN pos[i] ELSE k + 1]
        <3>1. Kept(k + 1) = Kept(k) \cup {k + 1}
            BY <2>5, <2>9
        <3>2. Len(z) = Len(x) + 1 /\ Len(x) \in Nat
            BY <2>2, <2>9
        <3>3. \A i \in 1..Len(z) : i \in 1..Len(x) \/ i = Len(x) + 1
            BY <3>2
        <3> HIDE DEF Kept
        <3>4. new \in [1..Len(z) -> Kept(k + 1)]
            BY <2>7, <3>1, <3>3 DEF Enumerates
        <3>5. new[Len(x) + 1] = k + 1
            BY <3>2
        <3>11. \A i \in 1..Len(x) : i \in 1..Len(z)
            BY <3>2
        <3>12. \A i \in 1..Len(x) : new[i] = pos[i]
            BY <3>11
        <3> HIDE DEF new
        <3>6. \A i \in 1..Len(x) : i \in 1..Len(z) /\ new[i] = pos[i] /\ pos[i] \in Kept(k)
            BY <2>7, <3>11, <3>12 DEF Enumerates
        <3>7. ASSUME NEW i \in 1..Len(z), NEW j \in 1..Len(z), i < j PROVE new[i] < new[j]
            <4>1. i \in 1..Len(x)
                BY <3>2, <3>3, <3>7
            <4>2. CASE j \in 1..Len(x)
                BY <2>7, <3>6, <3>7, <4>1, <4>2 DEF Enumerates
            <4>3. CASE j = Len(x) + 1
                BY <2>6, <3>5, <3>6, <4>1, <4>3
            <4> QED
                BY <3>3, <4>2, <4>3
        <3>8. \A q \in Kept(k + 1) : \E i \in 1..Len(z) : new[i] = q
            <4>1. Len(x) + 1 \in 1..Len(z)
                BY <3>2
            <4> QED
                BY <2>7, <3>1, <3>5, <3>6, <4>1 DEF Enumerates
        <3>9. \A i \in 1..Len(z) : z[i] = seqs[new[i]][1]
            <4>1. 1 \in 1..Len(y)
                BY <2>9
            <4>2. z[Len(x) + 1] = y[1]
                BY <2>2, <4>1
            <4> QED
                BY <2>2, <2>7, <3>3, <3>5, <3>6, <4>2
        <3>10. Enumerates(new, Len(z), Kept(k + 1))
            BY <3>4, <3>7, <3>8 DEF Enumerates
        <3> QED
            BY <3>9, <3>10 DEF z
    <2> QED
        BY <2>4, <2>8, <2>9
<1> HIDE DEF A
<1>5. Len(seqs) \in A
    BY <1>2, <1>3, <1>4, Induction
<1>6. \E pos : Listed(Len(seqs), pos)
    <2> HIDE DEF Listed
    <2> QED
        BY <1>2, <1>5 DEF A
<1> QED
    BY <1>1, <1>6

LEMMA SelectedEnumerates ==
    ASSUME NEW S, NEW s \in Seq(S), NEW I \in SUBSET (1..Len(s))
    PROVE  /\ Selected(s, I) \in Seq(S)
           /\ \E e : /\ Enumerates(e, Len(Selected(s, I)), I)
                     /\ \A i \in 1..Len(Selected(s, I)) : Selected(s, I)[i] = s[e[i]]
<1> DEFINE pieces == [i \in DOMAIN s |-> IF i \in I THEN <<s[i]>> ELSE <<>>]
<1>1. DOMAIN s = 1..Len(s) /\ Len(s) \in Nat /\ \A i \in 1..Len(s) : s[i] \in S
    OBVIOUS
<1>2. ASSUME NEW i \in DOMAIN s
      PROVE  /\ pieces[i] \in Seq(S) /\ Len(pieces[i]) <= 1
             /\ pieces[i] # <<>> <=> i \in I
             /\ i \in I => pieces[i][1] = s[i]
    <2>1. s[i] \in S
        BY <1>1
    <2>2. /\ <<s[i]>> \in Seq(S) /\ Len(<<s[i]>>) = 1 /\ <<s[i]>> # <<>> /\ <<s[i]>>[1] = s[i]
          /\ <<>> \in Seq(S) /\ Len(<<>>) = 0
        BY <2>1
    <2>3. CASE i \in I
        <3>1. pieces[i] = <<s[i]>>
            BY <2>3
        <3> HIDE DEF pieces
        <3> QED
            BY <2>2, <2>3, <3>1
    <2>4. CASE i \notin I
        <3>1. pieces[i] = <<>>
            BY <2>4
        <3> HIDE DEF pieces
        <3> QED
            BY <2>2, <2>4, <3>1
    <2> QED
        BY <2>3, <2>4
<1>3. DOMAIN pieces = 1..Len(s) /\ pieces \in Seq(Seq(S))
    BY <1>1, <1>2
<1>4. Len(pieces) = Len(s)
    BY <1>1
<1>5. Selected(s, I) = FlattenSeq(pieces)
    BY DEF Selected
<1> HIDE DEF pieces
<1>6. {i \in 1..Len(pieces) : pieces[i] # <<>>} = I
    BY <1>1, <1>2, <1>4
<1>7. PICK e : /\ Enumerates(e, Len(FlattenSeq(pieces)), {i \in 1..Len(pieces) : pieces[i] # <<>>})
               /\ \A i \in 1..Len(FlattenSeq(pieces)) : FlattenSeq(pieces)[i] = pieces[e[i]][1]
    <2>1. \A i \in 1..Len(pieces) : Len(pieces[i]) <= 1
        BY <1>1, <1>2, <1>4
    <2> QED
        BY <1>3, <2>1, FlattenEnumerates
<1>8. Enumerates(e, Len(Selected(s, I)), I)
    BY <1>5, <1>6, <1>7
<1>9. ASSUME NEW i \in 1..Len(Selected(s, I)) PROVE Selected(s, I)[i] = s[e[i]]
    <2>1. e[i] \in I /\ e[i] \in DOMAIN s
        BY <1>1, <1>8 DEF Enumerates
    <2> QED
        BY <1>2, <1>5, <1>7, <2>1
<1>10. Selected(s, I) \in Seq(S)
    BY <1>3, <1>5, FlattenType
<1> QED
    BY <1>8, <1>9, <1>10

-----------------------------------------------------------------------------
(* Bytes, the native redaction and the hits *)

Byte == Chars \X {1, 2}
Native == Placeholder("native")
Marks == {Placeholder(l) : l \in Labels}
Symbols == Byte \cup {Native} \cup Marks
NonEmpty == {v \in Seq(Byte) : v # <<>>}
AHit == [label : Labels, value : NonEmpty]

LEMMA ByteFacts == \A b \in Byte : b[2] # 0 /\ b \notin Marks /\ b # Native
BY DEF Byte, Marks, Native, Placeholder

LEMMA BytesType == ASSUME NEW t \in Texts PROVE Bytes(t) \in Seq(Byte)
<1>1. PICK n \in Nat : t \in [1..n -> Chars]
    BY BoundAssumption DEF Texts
<1> DEFINE pieces == [i \in DOMAIN t |-> IF t[i] \in Wide THEN << <<t[i], 1>>, <<t[i], 2>> >>
                                                          ELSE << <<t[i], 1>> >>]
<1>2. \A i \in 1..n : <<t[i], 1>> \in Byte /\ <<t[i], 2>> \in Byte
    BY <1>1 DEF Byte
<1>3. \A i \in 1..n : pieces[i] \in Seq(Byte)
    BY <1>1, <1>2
<1>4. pieces \in Seq(Seq(Byte))
    BY <1>1, <1>3
<1> HIDE DEF pieces
<1>5. FlattenSeq(pieces) \in Seq(Byte)
    BY <1>4, FlattenType
<1> QED
    BY <1>5 DEF Bytes, pieces

LEMMA NativeType ==
    ASSUME NEW bytes \in Seq(Byte) PROVE NativeRedacted(bytes) \in Seq(Byte \cup {Native})
<1> DEFINE Shown == Byte \cup {Native}
           pieces == [i \in DOMAIN bytes |->
                         IF ~IsNative(bytes[i]) THEN <<bytes[i]>>
                         ELSE IF bytes[i][2] = 1 THEN <<Placeholder("native")>> ELSE <<>>]
<1>1. Len(bytes) \in Nat /\ DOMAIN bytes = 1..Len(bytes)
    OBVIOUS
<1>2. ASSUME NEW i \in DOMAIN bytes PROVE pieces[i] \in Seq(Shown)
    <2>1. bytes[i] \in Shown /\ Placeholder("native") \in Shown
        BY DEF Native
    <2>2. <<bytes[i]>> \in Seq(Shown) /\ <<Placeholder("native")>> \in Seq(Shown) /\ <<>> \in Seq(Shown)
        BY <2>1
    <2> QED
        BY <2>2
<1>3. pieces \in Seq(Seq(Shown))
    BY <1>1, <1>2
<1> HIDE DEF pieces, Shown
<1>4. FlattenSeq(pieces) \in Seq(Shown)
    BY <1>3, FlattenType
<1> QED
    BY <1>4 DEF NativeRedacted, pieces, Shown

\* A byte of a native character after its first leaves nothing in the output.
Absorbed(b) == IsNative(b) /\ b[2] # 1

Shown(bytes) == {q \in 1..Len(bytes) : ~Absorbed(bytes[q])}

LEMMA NativeEnumerates ==
    ASSUME NEW bytes \in Seq(Byte)
    PROVE  LET r == NativeRedacted(bytes) IN
           \E pos : /\ Enumerates(pos, Len(r), Shown(bytes))
                    /\ \A i \in 1..Len(r) :
                           r[i] = IF IsNative(bytes[pos[i]]) THEN Native ELSE bytes[pos[i]]
<1> DEFINE r == NativeRedacted(bytes)
           pieces == [i \in DOMAIN bytes |->
                         IF ~IsNative(bytes[i]) THEN <<bytes[i]>>
                         ELSE IF bytes[i][2] = 1 THEN <<Placeholder("native")>> ELSE <<>>]
           S == Byte \cup {Native}
           what(b) == IF IsNative(b) THEN Native ELSE b
<1>1. DOMAIN bytes = 1..Len(bytes) /\ Len(bytes) \in Nat /\ \A i \in 1..Len(bytes) : bytes[i] \in Byte
    OBVIOUS
<1>2. ASSUME NEW i \in DOMAIN bytes
      PROVE  /\ pieces[i] \in Seq(S) /\ Len(pieces[i]) <= 1
             /\ pieces[i] # <<>> <=> ~Absorbed(bytes[i])
             /\ ~Absorbed(bytes[i]) => pieces[i][1] = what(bytes[i])
    <2> DEFINE x == what(bytes[i])
    <2>1. x \in S
        BY <1>1
    <2>2. Absorbed(bytes[i]) => pieces[i] = <<>>
        BY DEF Absorbed
    <2>3. ~Absorbed(bytes[i]) => pieces[i] = <<x>>
        BY DEF Absorbed, Native
    <2> HIDE DEF x, pieces, S
    <2>4. /\ <<x>> \in Seq(S) /\ Len(<<x>>) = 1 /\ <<x>> # <<>> /\ <<x>>[1] = x
          /\ <<>> \in Seq(S) /\ Len(<<>>) = 0
        BY <2>1
    <2>7. what(bytes[i]) = x
        BY DEF x
    <2> HIDE DEF what
    <2>5. CASE Absorbed(bytes[i])
        <3>1. pieces[i] = <<>>
            BY <2>2, <2>5
        <3>2. pieces[i] \in Seq(S) /\ Len(pieces[i]) <= 1
            BY <2>4, <3>1
        <3> QED
            BY <2>5, <3>1, <3>2
    <2>6. CASE ~Absorbed(bytes[i])
        <3>1. pieces[i] = <<x>>
            BY <2>3, <2>6
        <3>2. pieces[i] \in Seq(S) /\ Len(pieces[i]) <= 1
            BY <2>4, <3>1
        <3> QED
            BY <2>4, <2>6, <2>7, <3>1, <3>2
    <2> QED
        BY <2>5, <2>6
<1>3. DOMAIN pieces = 1..Len(bytes) /\ pieces \in Seq(Seq(S))
    BY <1>1, <1>2
<1>4. Len(pieces) = Len(bytes)
    BY <1>1
<1>5. r = FlattenSeq(pieces)
    BY DEF NativeRedacted
<1> HIDE DEF pieces, r
<1>6. {i \in 1..Len(pieces) : pieces[i] # <<>>} = Shown(bytes)
    BY <1>1, <1>2, <1>4 DEF Shown
<1>7. PICK pos : /\ Enumerates(pos, Len(FlattenSeq(pieces)), {i \in 1..Len(pieces) : pieces[i] # <<>>})
                 /\ \A i \in 1..Len(FlattenSeq(pieces)) : FlattenSeq(pieces)[i] = pieces[pos[i]][1]
    <2>1. \A i \in 1..Len(pieces) : Len(pieces[i]) <= 1
        BY <1>1, <1>2, <1>4
    <2> QED
        BY <1>3, <2>1, FlattenEnumerates
<1>8. Enumerates(pos, Len(r), Shown(bytes))
    BY <1>5, <1>6, <1>7
<1>9. ASSUME NEW i \in 1..Len(r) PROVE r[i] = what(bytes[pos[i]])
    <2>1. pos[i] \in Shown(bytes)
        BY <1>8 DEF Enumerates
    <2>2. pos[i] \in DOMAIN bytes /\ ~Absorbed(bytes[pos[i]])
        BY <1>1, <2>1 DEF Shown
    <2> QED
        BY <1>2, <1>5, <1>7, <2>2
<1> QED
    BY <1>8, <1>9 DEF r

\* The second byte of a character comes right after its first.
LEMMA SecondBytes ==
    ASSUME NEW t \in Texts
    PROVE  \A q \in 1..Len(Bytes(t)) : Bytes(t)[q][2] = 2 =>
               q - 1 \in 1..Len(Bytes(t)) /\ Bytes(t)[q - 1] = <<Bytes(t)[q][1], 1>>
<1>1. PICK n \in Nat : t \in [1..n -> Chars]
    BY BoundAssumption DEF Texts
<1> DEFINE pieces == [i \in DOMAIN t |-> IF t[i] \in Wide THEN << <<t[i], 1>>, <<t[i], 2>> >>
                                                          ELSE << <<t[i], 1>> >>]
           Paired(s) == \A q \in 1..Len(s) : s[q][2] = 2 =>
                            q - 1 \in 1..Len(s) /\ s[q - 1] = <<s[q][1], 1>>
<1>2. \A c \in Chars : <<c, 1>> \in Byte /\ <<c, 2>> \in Byte
    BY DEF Byte
<1>3. ASSUME NEW i \in 1..n PROVE pieces[i] \in Seq(Byte) /\ Paired(pieces[i])
    <2> DEFINE c == t[i]
    <2>1. c \in Chars /\ pieces[i] = IF c \in Wide THEN << <<c, 1>>, <<c, 2>> >> ELSE << <<c, 1>> >>
        BY <1>1
    <2> HIDE DEF c, pieces
    <2>2. << <<c, 1>>, <<c, 2>> >> \in Seq(Byte) /\ << <<c, 1>> >> \in Seq(Byte)
        BY <1>2, <2>1
    <2>3. Paired(<< <<c, 1>>, <<c, 2>> >>) /\ Paired(<< <<c, 1>> >>)
        OBVIOUS
    <2>4. pieces[i] = << <<c, 1>>, <<c, 2>> >> \/ pieces[i] = << <<c, 1>> >>
        BY <2>1
    <2> HIDE DEF Paired
    <2> QED
        BY <2>2, <2>3, <2>4
<1>4. pieces \in Seq(Seq(Byte)) /\ Len(pieces) = n
    <2>1. pieces = [i \in 1..n |-> pieces[i]]
        BY <1>1
    <2> HIDE DEF pieces, Paired
    <2> QED
        BY <1>3, <2>1
<1>5. Bytes(t) = FlattenSeq(pieces)
    BY DEF Bytes
<1> HIDE DEF pieces
<1>6. PICK g : Concatenates(g, pieces, Byte) /\ FlattenSeq(pieces) = g[Len(pieces)]
    BY <1>4, FlattenSteps
<1>7. \A i \in 1..n : Follows(g[i], g[i - 1], pieces[i], Byte)
    BY <1>4, <1>6, FlattenStep
<1>8. ASSUME NEW z, NEW x, NEW y, Follows(z, x, y, Byte), Paired(x), Paired(y) PROVE Paired(z)
    <2> SUFFICES ASSUME NEW q \in 1..Len(z), z[q][2] = 2
                 PROVE  q - 1 \in 1..Len(z) /\ z[q - 1] = <<z[q][1], 1>>
        OBVIOUS
    <2>1. /\ Len(x) \in Nat /\ Len(y) \in Nat /\ Len(z) = Len(x) + Len(y)
          /\ \A p \in 1..Len(x) : z[p] = x[p]
          /\ \A p \in 1..Len(y) : z[Len(x) + p] = y[p]
        BY <1>8 DEF Follows
    <2>2. CASE q \in 1..Len(x)
        <3>1. q - 1 \in 1..Len(x) /\ x[q - 1] = <<x[q][1], 1>>
            BY <1>8, <2>1, <2>2
        <3>2. z[q] = x[q] /\ z[q - 1] = x[q - 1]
            BY <2>1, <2>2, <3>1
        <3>3. q - 1 \in 1..Len(z)
            BY <2>1, <3>1
        <3> QED
            BY <3>1, <3>2, <3>3
    <2>3. CASE q \notin 1..Len(x)
        <3> DEFINE p == q - Len(x)
        <3>1. p \in 1..Len(y) /\ Len(x) + p = q /\ Len(x) + (p - 1) = q - 1
            BY <2>1, <2>3
        <3> HIDE DEF p
        <3>2. z[q] = y[p]
            BY <2>1, <3>1
        <3>3. p - 1 \in 1..Len(y) /\ y[p - 1] = <<y[p][1], 1>>
            BY <1>8, <3>1, <3>2
        <3>4. z[q - 1] = y[p - 1]
            BY <2>1, <3>1, <3>3
        <3>5. q - 1 \in 1..Len(z)
            BY <2>1, <3>1, <3>3
        <3> QED
            BY <3>2, <3>3, <3>4, <3>5
    <2> QED
        BY <2>2, <2>3
<1> DEFINE A == {k \in Nat : k <= n => Paired(g[k])}
<1>9. 0 \in A
    <2>1. g[0] = <<>>
        BY <1>6 DEF Concatenates
    <2>2. Paired(<<>>)
        OBVIOUS
    <2> QED
        BY <2>1, <2>2
<1> HIDE DEF Paired
<1>10. ASSUME NEW k \in Nat, k \in A PROVE k + 1 \in A
    <2> SUFFICES ASSUME k + 1 <= n PROVE Paired(g[k + 1])
        OBVIOUS
    <2>1. k + 1 \in 1..n /\ (k + 1) - 1 = k /\ Paired(g[k])
        BY <1>10
    <2>2. Follows(g[k + 1], g[k], pieces[k + 1], Byte)
        BY <1>7, <2>1
    <2> QED
        BY <1>3, <1>8, <2>1, <2>2
<1> HIDE DEF A
<1>11. n \in A
    BY <1>9, <1>10, Induction
<1>12. Paired(g[n])
    BY <1>11 DEF A
<1>13. Paired(Bytes(t))
    BY <1>4, <1>5, <1>6, <1>12
<1> QED
    BY <1>13 DEF Paired

LEMMA HitType ==
    ASSUME NEW t \in Texts, NEW e \in Entities(t), Usable(t, e) PROVE Hit(t, e) \in AHit
<1>1. Bytes(t) \in Seq(Byte)
    BY BytesType
<1>2. /\ e.label \in Labels /\ e.from \in Nat /\ e.to \in Nat
      /\ e.from < e.to /\ e.to <= Len(Bytes(t))
    <2>1. PICK n \in Nat : t \in [1..n -> Chars]
        BY BoundAssumption DEF Texts
    <2>2. Len(t) \in Nat
        BY <2>1
    <2> QED
        BY <2>2 DEF Entities, Usable
<1> DEFINE B == Bytes(t)
<1> HIDE DEF B
<1>3. B \in Seq(Byte) /\ e.to <= Len(B)
    BY <1>1, <1>2 DEF B
<1>4. SubSeq(B, e.from + 1, e.to) \in Seq(Byte) /\ Len(SubSeq(B, e.from + 1, e.to)) = e.to - e.from
    BY <1>2, <1>3
<1> DEFINE v == SubSeq(B, e.from + 1, e.to)
<1> HIDE DEF v
<1>5. v \in Seq(Byte) /\ v # <<>>
    <2>1. v \in Seq(Byte) /\ Len(v) = e.to - e.from
        BY <1>4 DEF v
    <2>2. Len(v) # 0
        BY <1>2, <2>1
    <2> QED
        BY <2>1, <2>2
<1>6. Value(t, e) \in NonEmpty
    BY <1>5 DEF Value, B, v, NonEmpty
<1> QED
    BY <1>2, <1>6 DEF Hit, AHit

LEMMA ContainsAppended ==
    ASSUME NEW S, NEW s \in Seq(S), NEW x \in S
    PROVE  /\ Append(s, x) \in Seq(S) /\ Contains(Append(s, x), x)
           /\ \A y : Contains(s, y) => Contains(Append(s, x), y)
<1>1. Len(Append(s, x)) = Len(s) + 1 /\ Append(s, x)[Len(s) + 1] = x
    OBVIOUS
<1>2. \A i \in 1..Len(s) : Append(s, x)[i] = s[i] /\ i \in 1..(Len(s) + 1)
    OBVIOUS
<1>3. Len(s) + 1 \in 1..(Len(s) + 1)
    OBVIOUS
<1> DEFINE r == Append(s, x)
<1> HIDE DEF r
<1>4. Contains(r, x)
    BY <1>1, <1>3 DEF Contains, r
<1>5. \A y : Contains(s, y) => Contains(r, y)
    BY <1>1, <1>2 DEF Contains, r
<1> QED
    BY <1>4, <1>5 DEF r

\* The hits hold every usable entity and nothing else.
Found(t, es) == {h \in AHit : \E i \in 1..Len(es) : Usable(t, es[i]) /\ h = Hit(t, es[i])}

LEMMA HitsType ==
    ASSUME NEW t \in Texts, NEW es \in Seq(Entities(t))
    PROVE  /\ Hits(t, es) \in Seq(Found(t, es))
           /\ \A i \in 1..Len(es) : Usable(t, es[i]) => Contains(Hits(t, es), Hit(t, es[i]))
<1> DEFINE n == Len(es)
           H == Found(t, es)
           Added(hs, e) == IF Usable(t, e) /\ ~Contains(hs, Hit(t, e)) THEN Append(hs, Hit(t, e)) ELSE hs
           upTo[k \in 0..n] ==
               IF k = 0 THEN <<>>
               ELSE IF Usable(t, es[k]) /\ ~Contains(upTo[k - 1], Hit(t, es[k]))
               THEN Append(upTo[k - 1], Hit(t, es[k]))
               ELSE upTo[k - 1]
           Equation(g) == g = [k \in 0..n |->
               IF k = 0 THEN <<>>
               ELSE IF Usable(t, es[k]) /\ ~Contains(g[k - 1], Hit(t, es[k]))
               THEN Append(g[k - 1], Hit(t, es[k]))
               ELSE g[k - 1]]
<1>1. n \in Nat /\ \A i \in 1..n : es[i] \in Entities(t)
    OBVIOUS
<1>2. Hits(t, es) = upTo[n]
    BY DEF Hits
<1>11. \A i \in 1..n : Usable(t, es[i]) => Hit(t, es[i]) \in H
    BY <1>1, HitType DEF Found
<1> HIDE DEF H
<1>3. ASSUME NEW hs \in Seq(H), NEW e, Usable(t, e) => Hit(t, e) \in H
      PROVE  /\ Added(hs, e) \in Seq(H)
             /\ Usable(t, e) => Contains(Added(hs, e), Hit(t, e))
             /\ \A y : Contains(hs, y) => Contains(Added(hs, e), y)
    <2>1. CASE Usable(t, e) /\ ~Contains(hs, Hit(t, e))
        <3>1. Added(hs, e) = Append(hs, Hit(t, e)) /\ Hit(t, e) \in H
            BY <1>3, <2>1
        <3> QED
            BY <3>1, ContainsAppended
    <2>2. CASE ~(Usable(t, e) /\ ~Contains(hs, Hit(t, e)))
        BY <2>2
    <2> QED
        BY <2>1, <2>2
<1>4. \E g : Equation(g)
    <2> DEFINE step == [p \in Nat \X Seq(H) |-> IF p[1] \in 1..n THEN Added(p[2], es[p[1]]) ELSE p[2]]
    <2>1. \A i \in Nat, hs \in Seq(H) : i \in 1..n => step[<<i, hs>>] = Added(hs, es[i])
        OBVIOUS
    <2>2. \A i \in Nat, hs \in Seq(H) : (IF i \in 1..n THEN Added(hs, es[i]) ELSE hs) \in Seq(H)
        BY <1>3, <1>11
    <2>3. step \in [Nat \X Seq(H) -> Seq(H)]
        BY <2>2
    <2>4. <<>> \in Seq(H)
        OBVIOUS
    <2> HIDE DEF step, n
    <2>5. PICK f : Iterates(f, Seq(H), <<>>, step, n)
        BY <1>1, <2>3, <2>4, Recursion
    <2>6. ASSUME NEW k \in 1..n PROVE f[k] = Added(f[k - 1], es[k])
        <3>1. k \in Nat /\ k - 1 \in 0..n
            BY <1>1
        <3>2. f[k - 1] \in Seq(H)
            BY <2>5, <3>1 DEF Iterates
        <3>3. step[<<k, f[k - 1]>>] = Added(f[k - 1], es[k])
            BY <2>1, <3>1, <3>2
        <3> QED
            BY <2>5, <3>3 DEF Iterates
    <2> DEFINE g == [k \in 0..n |-> f[k]]
    <2>7. g[0] = <<>>
        BY <1>1, <2>5 DEF Iterates
    <2>8. \A k \in 0..n : k # 0 => k \in 1..n /\ k - 1 \in 0..n
        BY <1>1
    <2>9. \A k \in 0..n : k # 0 => g[k] = Added(g[k - 1], es[k])
        BY <2>6, <2>8
    <2>10. g = [k \in 0..n |-> IF k = 0 THEN <<>> ELSE Added(g[k - 1], es[k])]
        BY <2>7, <2>9
    <2>11. Equation(g)
        BY <2>10
    <2> QED
        BY <2>11
<1>5. Equation(upTo)
    BY <1>4
<1> HIDE DEF upTo
<1>6. \A k \in 0..n : upTo[k] = IF k = 0 THEN <<>> ELSE Added(upTo[k - 1], es[k])
    BY <1>5
<1> DEFINE Kept(k) == /\ upTo[k] \in Seq(H)
                      /\ \A i \in 1..k : Usable(t, es[i]) => Contains(upTo[k], Hit(t, es[i]))
           T == {k \in Nat : k \in 0..n => Kept(k)}
<1> HIDE DEF Added
<1>7. 0 \in T
    <2>1. upTo[0] = <<>>
        BY <1>1, <1>6
    <2>2. <<>> \in Seq(H) /\ 1..0 = {}
        OBVIOUS
    <2> QED
        BY <2>1, <2>2
<1>8. ASSUME NEW k \in Nat, k \in T PROVE k + 1 \in T
    <2> SUFFICES ASSUME k + 1 \in 0..n PROVE Kept(k + 1)
        OBVIOUS
    <2>1. k \in 0..n /\ k + 1 \in 1..n /\ (k + 1) - 1 = k /\ k + 1 # 0
        BY <1>1
    <2>2. upTo[k + 1] = Added(upTo[(k + 1) - 1], es[k + 1])
        BY <1>6, <2>1
    <2>3. upTo[k + 1] = Added(upTo[k], es[k + 1])
        BY <2>1, <2>2
    <2>4. Kept(k) /\ (Usable(t, es[k + 1]) => Hit(t, es[k + 1]) \in H)
        BY <1>8, <1>11, <2>1
    <2>5. /\ upTo[k + 1] \in Seq(H)
          /\ Usable(t, es[k + 1]) => Contains(upTo[k + 1], Hit(t, es[k + 1]))
          /\ \A y : Contains(upTo[k], y) => Contains(upTo[k + 1], y)
        BY <1>3, <2>3, <2>4
    <2>6. \A i \in 1..(k + 1) : i \in 1..k \/ i = k + 1
        OBVIOUS
    <2> QED
        BY <2>4, <2>5, <2>6
<1> HIDE DEF T
<1>9. n \in T
    BY <1>1, <1>7, <1>8, Induction
<1>10. Kept(n)
    BY <1>1, <1>9 DEF T
<1> HIDE DEF n
<1> QED
    BY <1>2, <1>10 DEF n, H

-----------------------------------------------------------------------------
(* Replacing a value *)

\* The first occurrence of s in t is cut out, and r put in its place.
Replaced(t, k, s, x) == SubSeq(t, 1, k) \o <<x>> \o SubSeq(t, k + Len(s) + 1, Len(t))

LEMMA SubSeqsAre ==
    ASSUME NEW s, NEW t
    PROVE  s \in SubSeqs(t) <=> \E i, j \in 0..Len(t) : s = SubSeq(t, i + 1, j)
BY DEF SubSeqs

LEMMA ReplaceFirstCuts ==
    ASSUME NEW S, NEW s \in Seq(S), s # <<>>, NEW t \in Seq(S), Occurs(s, t), NEW x
    PROVE  \E k \in 0..(Len(t) - Len(s)) :
               /\ SubSeq(t, k + 1, k + Len(s)) = s
               /\ ReplaceFirstSubSeq(<<x>>, s, t) = Replaced(t, k, s, x)
<1> DEFINE Holds(i) == s \in SubSeqs(SubSeq(t, 1, i))
           First(i) == Holds(i) /\ \A j \in 0..i-1 : ~Holds(j)
           last == CHOOSE i \in 0..Len(t) : First(i)
           T == {i \in 0..Len(t) : Holds(i)}
<1>1. Len(t) \in Nat /\ Len(s) \in Nat /\ Len(s) # 0
    OBVIOUS
<1>2. Len(t) \in T
    <2>1. SubSeq(t, 1, Len(t)) = t
        OBVIOUS
    <2>2. Holds(Len(t))
        BY <2>1 DEF Occurs
    <2> QED
        BY <1>1, <2>2
<1>3. \E i \in 0..Len(t) : First(i)
    <2>1. T \in SUBSET Nat /\ T # {}
        BY <1>1, <1>2
    <2>2. PICK i \in T : \A j \in T : i <= j
        BY <2>1, Least
    <2>3. i \in 0..Len(t) /\ Holds(i)
        BY <2>2
    <2>4. ASSUME NEW j \in 0..i-1, Holds(j) PROVE FALSE
        <3>1. j \in 0..Len(t) /\ j < i
            BY <1>1, <2>3
        <3>2. j \in T
            BY <2>4, <3>1
        <3> QED
            BY <2>2, <3>1, <3>2
    <2> QED
        BY <2>3, <2>4
<1>4. last \in 0..Len(t) /\ First(last)
    BY <1>3
<1>5. IndexFirstSubSeq(s, t) = last - (Len(s) - 1)
    BY DEF IndexFirstSubSeq
<1> HIDE DEF last
<1>6. Len(SubSeq(t, 1, last)) = last /\ SubSeq(t, 1, last) \in Seq(S)
    BY <1>1, <1>4
<1>7. PICK a \in 0..last, b \in 0..last : s = SubSeq(SubSeq(t, 1, last), a + 1, b)
    <2>1. \E i, j \in 0..Len(SubSeq(t, 1, last)) : s = SubSeq(SubSeq(t, 1, last), i + 1, j)
        <3> DEFINE u == SubSeq(t, 1, last)
        <3>1. s \in SubSeqs(u)
            BY <1>4
        <3> HIDE DEF u
        <3>2. \E i, j \in 0..Len(u) : s = SubSeq(u, i + 1, j)
            BY <3>1, SubSeqsAre
        <3> QED
            BY <3>2 DEF u
    <2> QED
        BY <1>6, <2>1
<1>8. SubSeq(SubSeq(t, 1, last), a + 1, b) = SubSeq(t, a + 1, b)
    BY <1>1, <1>4, <1>6
<1>9. s = SubSeq(t, a + 1, b)
    BY <1>7, <1>8
<1>10. a < b /\ Len(s) = b - a
    BY <1>1, <1>4, <1>9
<1>11. Holds(b)
    <2>1. SubSeq(SubSeq(t, 1, b), a + 1, b) = SubSeq(t, a + 1, b) /\ Len(SubSeq(t, 1, b)) = b
        BY <1>1, <1>4, <1>10
    <2>2. a \in 0..Len(SubSeq(t, 1, b)) /\ b \in 0..Len(SubSeq(t, 1, b))
        BY <1>4, <1>10, <2>1
    <2> QED
        BY <1>9, <2>1, <2>2, SubSeqsAre
<1>12. b = last
    BY <1>4, <1>11
<1>13. IndexFirstSubSeq(s, t) = a + 1
    BY <1>4, <1>5, <1>10, <1>12
<1>14. ReplaceFirstSubSeq(<<x>>, s, t)
           = SubSeq(t, 1, (a + 1) - 1) \o <<x>> \o SubSeq(t, (a + 1) + Len(s), Len(t))
    BY <1>13 DEF ReplaceFirstSubSeq, ReplaceSubSeqAt, Occurs
<1>15. (a + 1) - 1 = a /\ (a + 1) + Len(s) = a + Len(s) + 1
    BY <1>1, <1>4
<1>16. a \in 0..(Len(t) - Len(s)) /\ a + Len(s) = b
    BY <1>1, <1>4, <1>10, <1>12
<1> QED
    BY <1>9, <1>14, <1>15, <1>16 DEF Replaced

LEMMA ReplacedAt ==
    ASSUME NEW S, NEW s \in Seq(S), NEW t \in Seq(S), NEW x \in S, NEW k \in 0..(Len(t) - Len(s))
    PROVE  LET r == Replaced(t, k, s, x) IN
           /\ r \in Seq(S) /\ Len(r) = (Len(t) - Len(s)) + 1
           /\ \A i \in 1..k : r[i] = t[i]
           /\ r[k + 1] = x
           /\ \A i \in (k + 2)..Len(r) : r[i] = t[(i + Len(s)) - 1]
<1> DEFINE P == SubSeq(t, 1, k)
           Q == SubSeq(t, k + Len(s) + 1, Len(t))
           r == P \o <<x>> \o Q
<1>1. Len(s) \in Nat /\ Len(t) \in Nat /\ k \in Nat /\ k + Len(s) <= Len(t)
    OBVIOUS
<1>2. P \in Seq(S) /\ Len(P) = k /\ \A i \in 1..k : P[i] = t[i]
    BY <1>1
<1>3. Q \in Seq(S) /\ Len(Q) = Len(t) - (k + Len(s))
    BY <1>1
<1>4. \A i \in 1..(Len(t) - (k + Len(s))) : Q[i] = t[k + Len(s) + i]
    BY <1>1
<1> HIDE DEF P, Q
<1> DEFINE m == Len(t) - (k + Len(s))
<1>5. m \in Nat /\ Len(Q) = m /\ (Len(t) - Len(s)) + 1 = k + 1 + m
    BY <1>1, <1>3
<1>6. \A i \in 1..m : Q[i] = t[k + Len(s) + i]
    BY <1>4
<1> HIDE DEF m
<1>7. P \o <<x>> \in Seq(S) /\ Len(P \o <<x>>) = k + 1
    BY <1>1, <1>2
<1>8. (\A i \in 1..k : (P \o <<x>>)[i] = P[i]) /\ (P \o <<x>>)[k + 1] = x
    BY <1>1, <1>2
<1> DEFINE H == P \o <<x>>
<1>9. H \in Seq(S) /\ Len(H) = k + 1 /\ (\A i \in 1..k : H[i] = t[i]) /\ H[k + 1] = x
    BY <1>2, <1>7, <1>8
<1> HIDE DEF H
<1>10. H \o Q \in Seq(S) /\ Len(H \o Q) = k + 1 + m
    <2>1. H \in Seq(S) /\ Q \in Seq(S)
        BY <1>3, <1>9
    <2>2. H \o Q \in Seq(S)
        BY <2>1
    <2>3. Len(H \o Q) = Len(H) + Len(Q)
        BY <2>1
    <2> QED
        BY <1>1, <1>5, <1>9, <2>2, <2>3
<1>11. \A i \in 1..(k + 1) : (H \o Q)[i] = H[i]
    BY <1>1, <1>3, <1>5, <1>9
<1>12. \A i \in 1..m : (H \o Q)[k + 1 + i] = Q[i]
    BY <1>1, <1>3, <1>5, <1>9
<1>13. ASSUME NEW i \in (k + 2)..(k + 1 + m) PROVE (H \o Q)[i] = t[(i + Len(s)) - 1]
    <2>1. i - (k + 1) \in 1..m /\ (k + 1) + (i - (k + 1)) = i
          /\ k + Len(s) + (i - (k + 1)) = (i + Len(s)) - 1
        BY <1>1, <1>5
    <2> QED
        BY <1>6, <1>12, <2>1
<1>14. Replaced(t, k, s, x) = H \o Q
    BY DEF Replaced, H, P, Q
<1>15. 1..k \subseteq 1..(k + 1) /\ k + 1 \in 1..(k + 1)
    BY <1>1
<1>16. \A i \in 1..k : (H \o Q)[i] = t[i]
    BY <1>9, <1>11, <1>15
<1>17. (H \o Q)[k + 1] = x
    BY <1>9, <1>11, <1>15
<1> QED
    BY <1>5, <1>10, <1>13, <1>14, <1>16, <1>17

\* new is t with x in the place of the n elements after the k-th.
Spliced(new, t, k, n, x) ==
    /\ Len(new) = (Len(t) - n) + 1
    /\ \A i \in 1..k : new[i] = t[i]
    /\ new[k + 1] = x
    /\ \A i \in (k + 2)..Len(new) : new[i] = t[(i + n) - 1]

LEMMA ReplacedSplice ==
    ASSUME NEW S, NEW s \in Seq(S), NEW t \in Seq(S), NEW x \in S, NEW k \in 0..(Len(t) - Len(s))
    PROVE  Replaced(t, k, s, x) \in Seq(S) /\ Spliced(Replaced(t, k, s, x), t, k, Len(s), x)
BY ReplacedAt DEF Spliced

\* A mark in the place of a value brings out no sequence of bytes.
LEMMA NothingBroughtOut ==
    ASSUME NEW S, NEW B \in SUBSET S, NEW v \in Seq(B), v # <<>>,
           NEW s \in Seq(S), NEW t \in Seq(S), NEW x \in S, x \notin B,
           NEW k \in 0..(Len(t) - Len(s)), s # <<>>,
           Occurs(v, Replaced(t, k, s, x))
    PROVE  Occurs(v, t)
<1> DEFINE r == Replaced(t, k, s, x)
<1>1. /\ r \in Seq(S) /\ Len(r) = (Len(t) - Len(s)) + 1
      /\ \A i \in 1..k : r[i] = t[i]
      /\ r[k + 1] = x
      /\ \A i \in (k + 2)..Len(r) : r[i] = t[(i + Len(s)) - 1]
    BY ReplacedAt
<1> HIDE DEF r
<1>2. Len(s) \in Nat /\ Len(t) \in Nat /\ k \in Nat /\ k + Len(s) <= Len(t) /\ Len(s) >= 1
    OBVIOUS
<1>3. \E i, j \in 0..Len(r) : v = SubSeq(r, i + 1, j)
    <2>1. v \in SubSeqs(r)
        BY DEF Occurs, r
    <2> QED
        BY <2>1, SubSeqsAre
<1>4. PICK a \in 0..Len(r), b \in 0..Len(r) : v = SubSeq(r, a + 1, b)
    BY <1>3
<1>5. a < b /\ Len(v) = b - a /\ Len(v) \in Nat
    BY <1>1, <1>4
<1>6. \A i \in 1..Len(v) : v[i] = r[a + i] /\ v[i] \in B
    BY <1>1, <1>4, <1>5
<1>7. ~(a < k + 1 /\ k + 1 <= b)
    <2> SUFFICES ASSUME a < k + 1, k + 1 <= b PROVE FALSE
        OBVIOUS
    <2>1. (k + 1) - a \in 1..Len(v) /\ a + ((k + 1) - a) = k + 1
        BY <1>2, <1>5
    <2> QED
        BY <1>1, <1>6, <2>1
<1>8. CASE b <= k
    <2>1. SubSeq(t, a + 1, b) \in Seq(S) /\ Len(SubSeq(t, a + 1, b)) = b - a
        BY <1>2, <1>5, <1>8
    <2>2. \A i \in 1..(b - a) : SubSeq(t, a + 1, b)[i] = t[a + i]
        BY <1>2, <1>5, <1>8
    <2>3. \A i \in 1..(b - a) : a + i \in 1..k
        BY <1>2, <1>5, <1>8
    <2>4. ASSUME NEW i \in 1..(b - a) PROVE v[i] = SubSeq(t, a + 1, b)[i]
        <3>1. v[i] = r[a + i]
            BY <1>5, <1>6
        <3>2. r[a + i] = t[a + i]
            BY <1>1, <2>3
        <3> QED
            BY <2>2, <3>1, <3>2
    <2>5. v = SubSeq(t, a + 1, b)
        BY <1>5, <2>1, <2>4
    <2>6. a \in 0..Len(t) /\ b \in 0..Len(t)
        BY <1>2, <1>5, <1>8
    <2>7. v \in SubSeqs(t)
        BY <2>5, <2>6, SubSeqsAre
    <2> QED
        BY <2>7 DEF Occurs
<1>9. CASE k + 1 <= a
    <2> DEFINE c == (a + Len(s)) - 1
               d == (b + Len(s)) - 1
    <2>1. c \in 0..Len(t) /\ d \in 0..Len(t) /\ c < d /\ d - c = b - a
        BY <1>1, <1>2, <1>5, <1>9
    <2>2. SubSeq(t, c + 1, d) \in Seq(S) /\ Len(SubSeq(t, c + 1, d)) = d - c
        BY <2>1, <1>2
    <2>3. \A i \in 1..(d - c) : SubSeq(t, c + 1, d)[i] = t[c + i]
        BY <2>1, <1>2
    <2>4. \A i \in 1..(b - a) : a + i \in (k + 2)..Len(r) /\ ((a + i) + Len(s)) - 1 = c + i
        BY <1>1, <1>2, <1>5, <1>9
    <2> HIDE DEF c, d
    <2>5. ASSUME NEW i \in 1..(b - a) PROVE v[i] = SubSeq(t, c + 1, d)[i]
        <3>1. v[i] = r[a + i]
            BY <1>5, <1>6
        <3>2. r[a + i] = t[((a + i) + Len(s)) - 1]
            BY <1>1, <2>4
        <3>3. i \in 1..(d - c)
            BY <2>1
        <3> QED
            BY <2>3, <2>4, <3>1, <3>2, <3>3
    <2>6. v = SubSeq(t, c + 1, d)
        BY <1>5, <2>1, <2>2, <2>5
    <2>7. v \in SubSeqs(t)
        BY <2>1, <2>6, SubSeqsAre
    <2> QED
        BY <2>7 DEF Occurs
<1> QED
    BY <1>2, <1>7, <1>8, <1>9

-----------------------------------------------------------------------------
(* The next hit *)

LEMMA LongestExists ==
    ASSUME hits \in Seq(AHit), hits # <<>>
    PROVE  /\ Longest \in 1..Len(hits)
           /\ \A j \in 1..Len(hits) : Len(hits[j].value) <= Len(hits[Longest].value)
<1> DEFINE Before(i, j) == \/ Len(hits[i].value) > Len(hits[j].value)
                           \/ Len(hits[i].value) = Len(hits[j].value) /\ i <= j
           T == {k \in Nat : k + 1 \in 1..Len(hits) =>
                    \E i \in 1..(k + 1) : \A j \in 1..(k + 1) : Before(i, j)}
<1>1. Len(hits) \in Nat /\ Len(hits) # 0
    OBVIOUS
<1>2. ASSUME NEW i \in 1..Len(hits) PROVE Len(hits[i].value) \in Nat
    <2>1. hits[i] \in AHit
        BY <1>1
    <2>2. hits[i].value \in Seq(Byte)
        BY <2>1 DEF AHit, NonEmpty
    <2> QED
        BY <2>2
<1>3. 0 \in T
    <2>1. \A j \in 1..(0 + 1) : j = 1
        OBVIOUS
    <2>2. 1 \in 1..(0 + 1) /\ Before(1, 1)
        BY <1>1, <1>2
    <2> QED
        BY <2>1, <2>2
<1>4. ASSUME NEW k \in Nat, k \in T PROVE k + 1 \in T
    <2> SUFFICES ASSUME (k + 1) + 1 \in 1..Len(hits)
                 PROVE  \E i \in 1..((k + 1) + 1) : \A j \in 1..((k + 1) + 1) : Before(i, j)
        OBVIOUS
    <2> DEFINE n == (k + 1) + 1
    <2>1. k + 1 \in 1..Len(hits)
        BY <1>1
    <2>2. PICK i \in 1..(k + 1) : \A j \in 1..(k + 1) : Before(i, j)
        BY <1>4, <2>1
    <2>3. i \in 1..n /\ n \in 1..n /\ i \in 1..Len(hits) /\ n \in 1..Len(hits) /\ i <= n
        BY <1>1
    <2>4. \A j \in 1..n : j \in 1..(k + 1) \/ j = n
        OBVIOUS
    <2>5. \A j \in 1..n : Len(hits[j].value) \in Nat
        BY <1>1, <1>2
    <2>6. CASE Len(hits[i].value) >= Len(hits[n].value)
        <3>1. Before(i, n)
            BY <2>3, <2>5, <2>6
        <3> QED
            BY <2>2, <2>3, <2>4, <3>1
    <2>7. CASE ~(Len(hits[i].value) >= Len(hits[n].value))
        <3>1. Before(n, n)
            BY <2>3, <2>5
        <3>2. ASSUME NEW j \in 1..(k + 1) PROVE Len(hits[n].value) > Len(hits[j].value)
            <4>1. j \in 1..n /\ Len(hits[i].value) >= Len(hits[j].value)
                BY <2>2, <2>3, <2>5
            <4> QED
                BY <2>3, <2>5, <2>7, <4>1
        <3> QED
            BY <2>3, <2>4, <3>1, <3>2
    <2> QED
        BY <2>6, <2>7
<1> HIDE DEF T
<1>5. Len(hits) - 1 \in T
    BY <1>1, <1>3, <1>4, Induction
<1>6. (Len(hits) - 1) + 1 = Len(hits) /\ Len(hits) \in 1..Len(hits)
    BY <1>1
<1>7. \E i \in 1..Len(hits) : \A j \in 1..Len(hits) : Before(i, j)
    BY <1>5, <1>6 DEF T
<1>8. DOMAIN hits = 1..Len(hits)
    OBVIOUS
<1>9. Longest \in 1..Len(hits) /\ \A j \in 1..Len(hits) : Before(Longest, j)
    BY <1>7, <1>8 DEF Longest
<1>10. ASSUME NEW j \in 1..Len(hits) PROVE Len(hits[j].value) <= Len(hits[Longest].value)
    <2>1. Len(hits[j].value) \in Nat /\ Len(hits[Longest].value) \in Nat
        BY <1>2, <1>9
    <2>2. Before(Longest, j)
        BY <1>9
    <2> QED
        BY <2>1, <2>2
<1> QED
    BY <1>9, <1>10

\* Only the hit at i leaves.
LEMMA OthersStay ==
    ASSUME NEW S, NEW s \in Seq(S), NEW i \in 1..Len(s)
    PROVE  /\ RemoveAt(s, i) \in Seq(S)
           /\ \A j \in 1..Len(s) : j = i \/ \E k \in 1..Len(RemoveAt(s, i)) : RemoveAt(s, i)[k] = s[j]
<1> DEFINE P == SubSeq(s, 1, i - 1)
           Q == SubSeq(s, i + 1, Len(s))
<1>1. Len(s) \in Nat /\ i \in Nat /\ i >= 1 /\ i <= Len(s)
    OBVIOUS
<1>2. P \in Seq(S) /\ Len(P) = i - 1
    BY <1>1
<1>3. \A j \in 1..(i - 1) : P[j] = s[j]
    BY <1>1
<1>4. Q \in Seq(S) /\ Len(Q) = Len(s) - i
    BY <1>1
<1>5. \A j \in 1..(Len(s) - i) : Q[j] = s[i + j]
    BY <1>1
<1>6. RemoveAt(s, i) = P \o Q
    BY DEF RemoveAt
<1> HIDE DEF P, Q
<1>7. P \o Q \in Seq(S) /\ Len(P \o Q) = Len(P) + Len(Q)
    BY <1>2, <1>4
<1>8. \A j \in 1..Len(P) : (P \o Q)[j] = P[j]
    BY <1>2, <1>4
<1>9. \A j \in 1..Len(Q) : (P \o Q)[Len(P) + j] = Q[j]
    BY <1>2, <1>4
<1>10. ASSUME NEW j \in 1..Len(s), j < i PROVE j \in 1..Len(P \o Q) /\ (P \o Q)[j] = s[j]
    <2>1. j \in 1..(i - 1) /\ j \in 1..Len(P) /\ j \in 1..Len(P \o Q)
        BY <1>1, <1>2, <1>4, <1>7, <1>10
    <2> QED
        BY <1>3, <1>8, <2>1
<1>11. ASSUME NEW j \in 1..Len(s), j > i PROVE j - 1 \in 1..Len(P \o Q) /\ (P \o Q)[j - 1] = s[j]
    <2>1. j - i \in 1..(Len(s) - i) /\ j - i \in 1..Len(Q) /\ j - 1 \in 1..Len(P \o Q)
          /\ Len(P) + (j - i) = j - 1 /\ i + (j - i) = j
        BY <1>1, <1>2, <1>4, <1>7, <1>11
    <2> QED
        BY <1>5, <1>9, <2>1
<1>12. \A j \in 1..Len(s) : j = i \/ j < i \/ j > i
    BY <1>1
<1> QED
    BY <1>6, <1>7, <1>10, <1>11, <1>12

-----------------------------------------------------------------------------
(* Where the output comes from *)

\* Every place of the output comes from a place of the text, in order, and a byte
\* that is still there is followed by what came from the next byte.
Placed(out, bytes, pos) ==
    /\ pos \in [1..Len(out) -> 1..Len(bytes)]
    /\ \A i, j \in 1..Len(out) : i < j => pos[i] < pos[j]
    /\ \A i \in 1..Len(out) : out[i] \in Byte => out[i] = bytes[pos[i]] /\ ~IsNative(out[i])
    /\ \A i \in 1..Len(out) : out[i] \in Byte /\ i < Len(out) => pos[i + 1] = pos[i] + 1

Kept(out, bytes, pos) ==
    {q \in 1..Len(bytes) : \E i \in 1..Len(out) : out[i] \in Byte /\ pos[i] = q}

\* What is kept of the text without a gap occurs in the output.
LEMMA KeptRun ==
    ASSUME NEW bytes \in Seq(Byte), NEW out \in Seq(Symbols), NEW pos, Placed(out, bytes, pos),
           NEW a \in 1..Len(bytes), NEW b \in 1..Len(bytes), a <= b,
           a..b \subseteq Kept(out, bytes, pos)
    PROVE  Occurs(SubSeq(bytes, a, b), out)
<1>1. Len(bytes) \in Nat /\ Len(out) \in Nat /\ a \in Nat /\ b \in Nat
    OBVIOUS
<1>2. \A i \in 1..Len(out) : pos[i] \in Nat
    BY <1>1 DEF Placed
<1>3. PICK s \in 1..Len(out) : out[s] \in Byte /\ pos[s] = a
    <2>1. a \in a..b
        BY <1>1
    <2> QED
        BY <2>1 DEF Kept
<1> DEFINE Here(j) == s + j \in 1..Len(out) /\ out[s + j] \in Byte /\ pos[s + j] = a + j
           A == {j \in Nat : a + j <= b => Here(j)}
<1>4. 0 \in A
    <2>1. s + 0 = s /\ a + 0 = a
        BY <1>1
    <2> QED
        BY <1>3, <2>1
<1>5. ASSUME NEW j \in Nat, j \in A PROVE j + 1 \in A
    <2> SUFFICES ASSUME a + (j + 1) <= b PROVE Here(j + 1)
        OBVIOUS
    <2>1. Here(j)
        BY <1>1, <1>5
    <2> DEFINE l == s + j
               c == a + j
    <2>2. l \in 1..Len(out) /\ out[l] \in Byte /\ pos[l] = c
        BY <2>1
    <2>3. s + (j + 1) = l + 1 /\ a + (j + 1) = c + 1 /\ c + 1 \in a..b /\ c \in Nat
        BY <1>1
    <2> HIDE DEF l, c
    <2>4. PICK i \in 1..Len(out) : out[i] \in Byte /\ pos[i] = c + 1
        BY <2>3 DEF Kept
    <2>5. ~(i < l) /\ i # l
        BY <2>2, <2>3, <2>4 DEF Placed
    <2>6. l < Len(out) /\ l + 1 \in 1..Len(out)
        BY <1>1, <2>2, <2>5
    <2>7. pos[l + 1] = c + 1
        BY <2>2, <2>6 DEF Placed
    <2>8. ~(l + 1 < i)
        BY <2>3, <2>4, <2>6, <2>7 DEF Placed
    <2>9. i = l + 1
        BY <1>1, <2>2, <2>5, <2>8
    <2> QED
        BY <2>3, <2>4, <2>9
<1> HIDE DEF A
<1>6. \A j \in Nat : a + j <= b => Here(j)
    <2>1. \A j \in Nat : j \in A
        BY <1>4, <1>5, Induction
    <2> QED
        BY <2>1 DEF A
<1> DEFINE n == (b - a) + 1
           e == (s + n) - 1
<1>7. n \in Nat /\ n >= 1 /\ s \in Nat /\ s >= 1 /\ e \in 0..Len(out) /\ s - 1 \in 0..Len(out)
      /\ (s - 1) + 1 = s /\ (e - s) + 1 = n /\ s <= e
    <2>1. b - a \in Nat /\ a + (b - a) <= b
        BY <1>1
    <2>2. s + (b - a) \in 1..Len(out)
        BY <1>6, <2>1
    <2> QED
        BY <1>1, <2>1, <2>2
<1>8. SubSeq(bytes, a, b) \in Seq(Byte) /\ Len(SubSeq(bytes, a, b)) = n
    BY <1>1
<1>9. \A i \in 1..n : SubSeq(bytes, a, b)[i] = bytes[(a + i) - 1]
    BY <1>1
<1> HIDE DEF n, e
<1>10. SubSeq(out, s, e) \in Seq(Symbols) /\ Len(SubSeq(out, s, e)) = n
    BY <1>1, <1>7
<1>11. \A i \in 1..n : SubSeq(out, s, e)[i] = out[(s + i) - 1]
    BY <1>1, <1>7
<1>12. ASSUME NEW i \in 1..n PROVE bytes[(a + i) - 1] = out[(s + i) - 1]
    <2>1. i - 1 \in Nat /\ a + (i - 1) <= b /\ a + (i - 1) = (a + i) - 1 /\ s + (i - 1) = (s + i) - 1
        BY <1>1, <1>7 DEF n
    <2>2. Here(i - 1)
        BY <1>6, <2>1
    <2> DEFINE l == (s + i) - 1
               c == (a + i) - 1
    <2>3. l \in 1..Len(out) /\ out[l] \in Byte /\ pos[l] = c
        BY <2>1, <2>2
    <2> HIDE DEF l, c
    <2>4. out[l] = bytes[c]
        BY <2>3 DEF Placed
    <2> QED
        BY <2>4 DEF l, c
<1> DEFINE v == SubSeq(bytes, a, b)
           w == SubSeq(out, s, e)
<1>13. v \in Seq(Byte) /\ w \in Seq(Symbols) /\ Len(v) = n /\ Len(w) = n /\ \A i \in 1..n : v[i] = w[i]
    BY <1>8, <1>9, <1>10, <1>11, <1>12
<1> HIDE DEF v, w
<1>14. v = w
    BY <1>13
<1>15. v = SubSeq(out, (s - 1) + 1, e)
    BY <1>7, <1>14 DEF w
<1>16. v \in SubSeqs(out)
    BY <1>7, <1>15, SubSeqsAre
<1> QED
    BY <1>16 DEF v, Occurs

BytesAfter(out, k, n) == \A i \in 1..n : out[k + i] \in Byte

PlacesAfter(pos, k, n) == \A i \in 1..n : pos[k + i] = (pos[k + 1] + i) - 1

\* Bytes that stand together in the output come from bytes that stand together.
LEMMA RunOfBytes ==
    ASSUME NEW bytes \in Seq(Byte), NEW out \in Seq(Symbols), NEW pos, Placed(out, bytes, pos),
           NEW k \in Nat, NEW n \in Nat, n >= 1, k + n <= Len(out),
           BytesAfter(out, k, n)
    PROVE  PlacesAfter(pos, k, n)
<1>1. Len(bytes) \in Nat /\ Len(out) \in Nat
    OBVIOUS
<1>2. \A i \in 1..Len(out) : pos[i] \in Nat
    BY <1>1 DEF Placed
<1> DEFINE a == pos[k + 1]
           A == {j \in Nat : j + 1 <= n => pos[k + (j + 1)] = a + j}
<1>3. a \in Nat
    BY <1>1, <1>2
<1>4. 0 \in A
    <2>1. k + (0 + 1) = k + 1
        OBVIOUS
    <2>2. pos[k + (0 + 1)] = a
        BY <2>1
    <2> HIDE DEF a
    <2> QED
        BY <1>3, <2>2
<1>5. ASSUME NEW j \in Nat, j \in A PROVE j + 1 \in A
    <2> SUFFICES ASSUME (j + 1) + 1 <= n PROVE pos[k + ((j + 1) + 1)] = a + (j + 1)
        OBVIOUS
    <2> DEFINE l == k + (j + 1)
    <2>1. l \in 1..Len(out) /\ l < Len(out) /\ k + ((j + 1) + 1) = l + 1 /\ j + 1 \in 1..n
        BY <1>1
    <2>2. out[l] \in Byte
        BY <2>1 DEF BytesAfter
    <2>3. pos[l] = a + j
        BY <1>5
    <2> HIDE DEF l, a
    <2>4. pos[l + 1] = pos[l] + 1
        BY <2>1, <2>2 DEF Placed
    <2> QED
        BY <1>3, <2>1, <2>3, <2>4
<1> HIDE DEF A
<1>6. \A j \in Nat : j \in A
    BY <1>4, <1>5, Induction
<1> SUFFICES ASSUME NEW i \in 1..n PROVE pos[k + i] = (pos[k + 1] + i) - 1
    BY DEF PlacesAfter
<1>7. i - 1 \in Nat /\ (i - 1) + 1 = i
    OBVIOUS
<1>8. pos[k + i] = a + (i - 1)
    BY <1>6, <1>7 DEF A
<1> HIDE DEF a
<1>9. pos[k + i] = (a + i) - 1
    BY <1>3, <1>8
<1> QED
    BY <1>9 DEF a

StandsAt(v, out, k) == \A i \in 1..Len(v) : out[k + i] = v[i]

\* new is the output out without the value v between the bytes a and b.
CutOut(bytes, out, pos, v, new, a, b) ==
    /\ a \in 1..Len(bytes) /\ b \in 1..Len(bytes) /\ a <= b /\ (b - a) + 1 = Len(v)
    /\ SubSeq(bytes, a, b) = v
    /\ \E after : /\ Placed(new, bytes, after)
                  /\ Kept(new, bytes, after) = Kept(out, bytes, pos) \ (a..b)

\* A replacement cuts an occurrence out of the text and moves nothing else.
LEMMA ReplacedPlaced ==
    ASSUME NEW bytes \in Seq(Byte), NEW out \in Seq(Symbols), NEW pos, Placed(out, bytes, pos),
           NEW v \in Seq(Byte), v # <<>>, NEW mark \in Symbols, mark \notin Byte,
           NEW k \in 0..(Len(out) - Len(v)), StandsAt(v, out, k)
    PROVE  CutOut(bytes, out, pos, v, Replaced(out, k, v, mark),
                  pos[k + 1], (pos[k + 1] + Len(v)) - 1)
<1> DEFINE new == Replaced(out, k, v, mark)
           n == Len(v)
           a == pos[k + 1]
           b == (a + n) - 1
<1>1. n \in Nat /\ n >= 1 /\ k \in Nat /\ Len(out) \in Nat /\ Len(bytes) \in Nat /\ k + n <= Len(out)
    OBVIOUS
<1>15. /\ \A i \in 1..Len(out) : pos[i] \in 1..Len(bytes) /\ pos[i] \in Nat
       /\ \A i, j \in 1..Len(out) : i < j => pos[i] < pos[j]
    <2>1. \A i \in 1..Len(out) : pos[i] \in 1..Len(bytes)
        BY DEF Placed
    <2>2. \A x \in 1..Len(bytes) : x \in Nat
        OBVIOUS
    <2> QED
        BY <2>1, <2>2 DEF Placed
<1>2. /\ new \in Seq(Symbols) /\ Len(new) = (Len(out) - n) + 1
      /\ \A i \in 1..k : new[i] = out[i]
      /\ new[k + 1] = mark
      /\ \A i \in (k + 2)..Len(new) : new[i] = out[(i + n) - 1]
    <2>1. v \in Seq(Symbols)
        BY DEF Symbols
    <2> HIDE DEF new, n
    <2>2. Replaced(out, k, v, mark) \in Seq(Symbols)
          /\ Spliced(Replaced(out, k, v, mark), out, k, Len(v), mark)
        BY <2>1, ReplacedSplice
    <2>3. new \in Seq(Symbols) /\ Spliced(new, out, k, n, mark)
        BY <2>2 DEF new, n
    <2> QED
        BY <2>3 DEF Spliced
<1>3. \A i \in 1..n : out[k + i] = v[i] /\ v[i] \in Byte
    <2>1. \A i \in 1..n : v[i] \in Byte
        OBVIOUS
    <2> QED
        BY <2>1 DEF StandsAt
<1> HIDE DEF new, n
<1>4. \A i \in 1..n : pos[k + i] = (a + i) - 1
    <2>1. BytesAfter(out, k, n)
        BY <1>3 DEF BytesAfter
    <2>2. PlacesAfter(pos, k, n)
        BY <1>1, <2>1, RunOfBytes
    <2> QED
        BY <2>2 DEF PlacesAfter
<1>5. \A i \in 1..Len(out) : pos[i] \in 1..Len(bytes) /\ pos[i] \in Nat
    BY <1>15
<1>6. \A i, j \in 1..Len(out) : i < j => pos[i] < pos[j]
    BY <1>15
<1>7. a \in 1..Len(bytes) /\ pos[k + n] = b /\ b \in 1..Len(bytes) /\ a \in Nat /\ b \in Nat
    <2>1. k + 1 \in 1..Len(out) /\ k + n \in 1..Len(out) /\ n \in 1..n
        BY <1>1
    <2> QED
        BY <1>4, <1>5, <2>1
<1>8. a <= b /\ (b - a) + 1 = n
    <2> HIDE DEF a
    <2> QED
        BY <1>1, <1>7
<1>9. SubSeq(bytes, a, b) = v
    <2> HIDE DEF a, b
    <2>1. SubSeq(bytes, a, b) \in Seq(Byte) /\ Len(SubSeq(bytes, a, b)) = n
        BY <1>1, <1>7, <1>8
    <2>2. \A i \in 1..n : SubSeq(bytes, a, b)[i] = bytes[(a + i) - 1]
        BY <1>1, <1>7, <1>8
    <2>3. ASSUME NEW i \in 1..n PROVE bytes[(a + i) - 1] = v[i]
        <3>4. k + i \in 1..Len(out)
            BY <1>1
        <3>1. k + i \in 1..Len(out) /\ out[k + i] \in Byte
            <4>1. out[k + i] = v[i] /\ v[i] \in Byte
                BY <1>3
            <4> QED
                BY <3>4, <4>1
        <3>2. out[k + i] = bytes[pos[k + i]]
            BY <3>1 DEF Placed
        <3>3. pos[k + i] = (a + i) - 1
            BY <1>4 DEF a
        <3> QED
            BY <1>3, <3>2, <3>3
    <2> DEFINE w == SubSeq(bytes, a, b)
    <2>4. w \in Seq(Byte) /\ Len(w) = n /\ \A i \in 1..n : w[i] = v[i]
        BY <2>1, <2>2, <2>3
    <2> HIDE DEF w
    <2>5. w = v
        BY <2>4 DEF n
    <2> QED
        BY <2>5 DEF w
<1> DEFINE from(i) == IF i <= k + 1 THEN i ELSE (i + n) - 1
           after == [i \in 1..Len(new) |-> pos[from(i)]]
<1>10. ASSUME NEW i \in 1..Len(new)
       PROVE  /\ from(i) \in 1..Len(out) /\ after[i] = pos[from(i)] /\ after[i] \in 1..Len(bytes)
              /\ i # k + 1 => new[i] = out[from(i)] /\ from(i) \notin (k + 1)..(k + n)
    <2>1. from(i) \in 1..Len(out)
        BY <1>1, <1>2
    <2>2. after[i] = pos[from(i)] /\ after[i] \in 1..Len(bytes)
        BY <1>5, <2>1
    <2>3. ASSUME i # k + 1 PROVE new[i] = out[from(i)] /\ from(i) \notin (k + 1)..(k + n)
        <3>1. CASE i \in 1..k
            BY <1>1, <1>2, <3>1
        <3>2. CASE i \in (k + 2)..Len(new)
            BY <1>1, <1>2, <3>2
        <3> QED
            BY <1>1, <1>2, <2>3, <3>1, <3>2
    <2> QED
        BY <2>1, <2>2, <2>3
<1>11. Placed(new, bytes, after)
    <2>1. after \in [1..Len(new) -> 1..Len(bytes)]
        BY <1>10
    <2>2. ASSUME NEW i \in 1..Len(new), NEW j \in 1..Len(new), i < j PROVE after[i] < after[j]
        <3>1. from(i) < from(j)
            BY <1>1, <1>2, <2>2
        <3> HIDE DEF from, after
        <3> QED
            BY <1>6, <1>10, <3>1
    <2>3. ASSUME NEW i \in 1..Len(new), new[i] \in Byte
          PROVE  /\ new[i] = bytes[after[i]] /\ ~IsNative(new[i])
                 /\ i < Len(new) => after[i + 1] = after[i] + 1
        <3>1. i # k + 1
            BY <1>2, <2>3
        <3>2. new[i] = out[from(i)] /\ from(i) \in 1..Len(out) /\ after[i] = pos[from(i)]
            BY <1>10, <3>1
        <3>3. ASSUME i < Len(new)
              PROVE  from(i) < Len(out) /\ i + 1 \in 1..Len(new) /\ from(i + 1) = from(i) + 1
            BY <1>1, <1>2, <3>1, <3>3
        <3> HIDE DEF from, after
        <3>4. out[from(i)] = bytes[pos[from(i)]] /\ ~IsNative(out[from(i)])
            BY <2>3, <3>2 DEF Placed
        <3>5. ASSUME i < Len(new) PROVE after[i + 1] = after[i] + 1
            <4>1. pos[from(i) + 1] = pos[from(i)] + 1
                BY <2>3, <3>2, <3>3, <3>5 DEF Placed
            <4>2. after[i + 1] = pos[from(i + 1)]
                BY <1>10, <3>3, <3>5
            <4> QED
                BY <3>2, <3>3, <3>5, <4>1, <4>2
        <3> QED
            BY <3>2, <3>4, <3>5
    <2> HIDE DEF after
    <2> QED
        BY <2>1, <2>2, <2>3 DEF Placed
<1>12. ASSUME NEW q \in 1..Len(bytes)
       PROVE  q \in Kept(new, bytes, after) <=> q \in Kept(out, bytes, pos) /\ q \notin a..b
    <2>1. ASSUME NEW i \in 1..Len(new), new[i] \in Byte, after[i] = q
          PROVE  q \in Kept(out, bytes, pos) /\ q \notin a..b
        <3>1. i # k + 1
            BY <1>2, <2>1
        <3> DEFINE l == from(i)
        <3>2. l \in 1..Len(out) /\ pos[l] = q /\ out[l] \in Byte /\ l \notin (k + 1)..(k + n)
            BY <1>10, <2>1, <3>1
        <3> HIDE DEF l
        <3>3. q \in Kept(out, bytes, pos)
            BY <3>2 DEF Kept
        <3>4. l < k + 1 \/ k + n < l
            BY <1>1, <3>2
        <3>5. k + 1 \in 1..Len(out) /\ k + n \in 1..Len(out)
            BY <1>1
        <3>6. q < a \/ b < q
            BY <1>6, <1>7, <3>2, <3>4, <3>5
        <3> HIDE DEF a, b
        <3> QED
            BY <1>7, <3>3, <3>6
    <2>2. ASSUME NEW l \in 1..Len(out), out[l] \in Byte, pos[l] = q, q \notin a..b
          PROVE  \E i \in 1..Len(new) : new[i] \in Byte /\ after[i] = q
        <3>1. l \notin (k + 1)..(k + n)
            <4> SUFFICES ASSUME l \in (k + 1)..(k + n) PROVE FALSE
                OBVIOUS
            <4>1. l - k \in 1..n /\ k + (l - k) = l
                BY <1>1
            <4>2. pos[l] = (a + (l - k)) - 1
                BY <1>4, <4>1
            <4> HIDE DEF a
            <4> QED
                BY <1>1, <1>7, <2>2, <4>1, <4>2
        <3> DEFINE i == IF l <= k THEN l ELSE (l - n) + 1
        <3>2. i \in 1..Len(new) /\ i # k + 1 /\ from(i) = l
            BY <1>1, <1>2, <3>1
        <3> HIDE DEF i, from, after
        <3> QED
            BY <1>10, <2>2, <3>2
    <2> HIDE DEF after, a, b
    <2> QED
        BY <2>1, <2>2 DEF Kept
<1>13. Kept(new, bytes, after) = Kept(out, bytes, pos) \ (a..b)
    <2> HIDE DEF after, a, b
    <2> QED
        BY <1>12 DEF Kept
<1> HIDE DEF after
<1> QED
    BY <1>7, <1>8, <1>9, <1>11, <1>13 DEF new, n, CutOut

-----------------------------------------------------------------------------
(* The overlay *)

Types ==
    /\ text \in Texts
    /\ entities \in Seq(Entities(text))
    /\ redacted \in Seq(Symbols)
    /\ hits \in Seq(AHit)
    /\ flags \subseteq Labels

\* A value still in the output is still to be replaced.
Pending ==
    \A e \in UsableEntities :
        Occurs(Value(text, e), redacted) => \E i \in 1..Len(hits) : hits[i].value = Value(text, e)

OverlayInv == Types /\ Pending

LEMMA UsableValues ==
    ASSUME Types, NEW e \in UsableEntities
    PROVE  Value(text, e) \in Seq(Byte) /\ Value(text, e) # <<>>
<1>1. e \in Entities(text) /\ Usable(text, e)
    BY DEF UsableEntities, Types, ToSet
<1>2. Hit(text, e) \in AHit
    BY <1>1, HitType DEF Types
<1> QED
    BY <1>2 DEF Hit, AHit, NonEmpty

LEMMA InitOverlay == Init => OverlayInv
<1> SUFFICES ASSUME Init PROVE OverlayInv
    OBVIOUS
<1>1. text \in Texts /\ hits = Hits(text, entities) /\ flags = {}
      /\ redacted = NativeRedacted(Bytes(text))
    BY DEF Init
<1>2. entities \in Seq(Entities(text))
    <2>1. PICK n \in 0..MaxEntities : entities \in [1..n -> Entities(text)]
        BY DEF Init
    <2>2. n \in Nat
        BY BoundAssumption
    <2> QED
        BY <2>1, <2>2
<1>3. redacted \in Seq(Byte \cup {Native})
    BY <1>1, BytesType, NativeType
<1>9. /\ hits \in Seq(Found(text, entities))
      /\ \A i \in 1..Len(entities) : Usable(text, entities[i]) => Contains(hits, Hit(text, entities[i]))
    BY <1>1, <1>2, HitsType
<1>4. /\ hits \in Seq(AHit)
      /\ \A i \in 1..Len(entities) : Usable(text, entities[i]) => Contains(hits, Hit(text, entities[i]))
    <2>1. Found(text, entities) \subseteq AHit
        BY DEF Found
    <2> QED
        BY <1>9, <2>1
<1>5. redacted \in Seq(Symbols)
    <2>1. Byte \cup {Native} \subseteq Symbols
        BY DEF Symbols
    <2> QED
        BY <1>3, <2>1
<1>6. Types
    BY <1>1, <1>2, <1>4, <1>5 DEF Types
<1>7. Pending
    <2> SUFFICES ASSUME NEW e \in UsableEntities
                 PROVE  \E i \in 1..Len(hits) : hits[i].value = Value(text, e)
        BY DEF Pending
    <2>1. PICK n \in 1..Len(entities) : e = entities[n] /\ Usable(text, e)
        BY <1>2 DEF UsableEntities, ToSet
    <2>2. Contains(hits, Hit(text, e))
        BY <1>4, <2>1
    <2> QED
        BY <2>2 DEF Contains, Hit
<1> QED
    BY <1>6, <1>7 DEF OverlayInv

LEMMA ReplaceKeeps == ASSUME OverlayInv, Replace PROVE OverlayInv'
<1> DEFINE h == hits[Longest]
           v == h.value
           mark == Placeholder(h.label)
<1>1. /\ Occurs(v, redacted)
      /\ redacted' = ReplaceFirstSubSeq(<<mark>>, v, redacted)
      /\ flags' = flags \cup {h.label}
      /\ UNCHANGED <<text, entities, hits>>
    BY DEF Replace
<1>2. h \in AHit
    BY LongestExists DEF Replace, OverlayInv, Types
<1> HIDE DEF h
<1>3. h.label \in Labels /\ v \in Seq(Byte) /\ v # <<>>
    BY <1>2 DEF AHit, NonEmpty
<1>4. mark \in Symbols /\ mark \notin Byte
    BY <1>3, ByteFacts DEF Symbols, Marks
<1>5. Byte \in SUBSET Symbols
    BY DEF Symbols
<1>6. v \in Seq(Symbols) /\ redacted \in Seq(Symbols)
    BY <1>3, <1>5 DEF OverlayInv, Types
<1> HIDE DEF mark, v
<1>7. PICK k \in 0..(Len(redacted) - Len(v)) :
          /\ SubSeq(redacted, k + 1, k + Len(v)) = v
          /\ redacted' = Replaced(redacted, k, v, mark)
    BY <1>1, <1>3, <1>6, ReplaceFirstCuts
<1>8. redacted' \in Seq(Symbols)
    BY <1>4, <1>6, <1>7, ReplacedAt
<1>9. Types'
    BY <1>1, <1>3, <1>8 DEF OverlayInv, Types
<1>10. Pending'
    <2>1. UsableEntities' = UsableEntities
        BY <1>1 DEF UsableEntities
    <2> SUFFICES ASSUME NEW e \in UsableEntities, Occurs(Value(text, e), redacted')
                 PROVE  \E i \in 1..Len(hits) : hits[i].value = Value(text, e)
        BY <1>1, <2>1 DEF Pending
    <2> DEFINE u == Value(text, e)
    <2>2. u \in Seq(Byte) /\ u # <<>>
        BY UsableValues DEF OverlayInv
    <2> HIDE DEF u
    <2>3. Occurs(u, Replaced(redacted, k, v, mark))
        BY <1>7 DEF u
    <2>4. Occurs(u, redacted)
        BY <1>3, <1>4, <1>5, <1>6, <2>2, <2>3, NothingBroughtOut
    <2> QED
        BY <2>4 DEF u, OverlayInv, Pending
<1> QED
    BY <1>9, <1>10 DEF OverlayInv

LEMMA NextHitKeeps == ASSUME OverlayInv, NextHit PROVE OverlayInv'
<1>1. /\ hits # <<>> /\ ~Occurs(hits[Longest].value, redacted)
      /\ hits' = RemoveAt(hits, Longest)
      /\ UNCHANGED <<text, entities, redacted, flags>>
    BY DEF NextHit
<1>2. hits \in Seq(AHit)
    BY DEF OverlayInv, Types
<1>3. Longest \in 1..Len(hits)
    BY <1>1, <1>2, LongestExists
<1> DEFINE n == Longest
<1> HIDE DEF n
<1>4. n \in 1..Len(hits) /\ hits' = RemoveAt(hits, n) /\ ~Occurs(hits[n].value, redacted)
    BY <1>1, <1>3 DEF n
<1>5. /\ hits' \in Seq(AHit)
      /\ \A j \in 1..Len(hits) : j = n \/ \E k \in 1..Len(hits') : hits'[k] = hits[j]
    BY <1>2, <1>4, OthersStay
<1>6. Types'
    BY <1>1, <1>5 DEF OverlayInv, Types
<1>7. Pending'
    <2>1. UsableEntities' = UsableEntities
        BY <1>1 DEF UsableEntities
    <2> SUFFICES ASSUME NEW e \in UsableEntities, Occurs(Value(text, e), redacted)
                 PROVE  \E k \in 1..Len(hits') : hits'[k].value = Value(text, e)
        BY <1>1, <2>1 DEF Pending
    <2>2. PICK j \in 1..Len(hits) : hits[j].value = Value(text, e)
        BY DEF OverlayInv, Pending
    <2>3. j # n
        BY <1>4, <2>2
    <2> QED
        BY <1>5, <2>2, <2>3
<1> QED
    BY <1>6, <1>7 DEF OverlayInv

LEMMA OverlayInductive == OverlayInv /\ [Next]_vars => OverlayInv'
<1> SUFFICES ASSUME OverlayInv, [Next]_vars PROVE OverlayInv'
    OBVIOUS
<1>1. CASE Replace
    BY <1>1, ReplaceKeeps
<1>2. CASE NextHit
    BY <1>2, NextHitKeeps
<1>3. CASE UNCHANGED vars
    BY <1>3 DEF vars, OverlayInv, Types, Pending, UsableEntities
<1> QED
    BY <1>1, <1>2, <1>3 DEF Next

(***************************************************************************)
(* When RedactPII returns, no value cut out for a usable entity is left in *)
(* the output (detector_presidio.go RedactPII), for any text, any answer   *)
(* and any order of the hits: each value is replaced until it is gone, and *)
(* a placeholder in its place brings out no other value.  It is so where   *)
(* no value matches in the text of a placeholder: a placeholder is one     *)
(* symbol that is no byte.                                                 *)
(***************************************************************************)
THEOREM NoValueIsLeft == Spec => []NoValueLeft
<1>1. OverlayInv => NoValueLeft
    <2> SUFFICES ASSUME OverlayInv, Done, NEW e \in UsableEntities, Occurs(Value(text, e), redacted)
                 PROVE  FALSE
        BY DEF NoValueLeft
    <2>1. PICK i \in 1..Len(hits) : hits[i].value = Value(text, e)
        BY DEF OverlayInv, Pending
    <2>2. Len(hits) = 0
        BY DEF Done
    <2> QED
        BY <2>1, <2>2
<1> QED
    BY <1>1, InitOverlay, OverlayInductive, PTL DEF Spec

-----------------------------------------------------------------------------
(* Nested values *)

Avoids(p, K) == \A q \in K : q \notin p[1]..p[2]

\* The bytes that are gone are native or in a replaced occurrence, and no value
\* that is still to be replaced is longer than one of those.
Accounted(K, R) ==
    /\ \A p \in R : Avoids(p, K)
    /\ \A q \in 1..Len(Bytes(text)) :
           q \in K \/ IsNative(Bytes(text)[q]) \/ \E p \in R : q \in p[1]..p[2]
    /\ \A p \in R, i \in 1..Len(hits) : Len(hits[i].value) <= (p[2] - p[1]) + 1

\* Only an occurrence of a value still to be replaced has a byte in the output.
Settled(K) ==
    \A p \in Occurrences :
        Avoids(p, K) \/ \E i \in 1..Len(hits) : hits[i].value = SubSeq(Bytes(text), p[1], p[2])

Laid(pos, R) ==
    /\ R \subseteq Occurrences
    /\ Placed(redacted, Bytes(text), pos)
    /\ Accounted(Kept(redacted, Bytes(text), pos), R)
    /\ Nested => Settled(Kept(redacted, Bytes(text), pos))

LayInv ==
    /\ OverlayInv
    /\ hits \in Seq(Found(text, entities))
    /\ \E pos, R : Laid(pos, R)

\* What the occurrences are.
LEMMA OccurrencesAre ==
    ASSUME OverlayInv, NEW p \in Occurrences
    PROVE  /\ p[1] \in 1..Len(Bytes(text)) /\ p[2] \in 1..Len(Bytes(text)) /\ p[1] <= p[2]
           /\ p = <<p[1], p[2]>>
           /\ \E e \in UsableEntities : SubSeq(Bytes(text), p[1], p[2]) = Value(text, e)
BY DEF Occurrences

LEMMA InitLaid == Init => LayInv
<1> SUFFICES ASSUME Init PROVE LayInv
    OBVIOUS
<1>1. OverlayInv
    BY InitOverlay
<1>2. text \in Texts /\ entities \in Seq(Entities(text)) /\ hits = Hits(text, entities)
    BY <1>1 DEF Init, OverlayInv, Types
<1>3. /\ hits \in Seq(Found(text, entities))
      /\ \A i \in 1..Len(entities) : Usable(text, entities[i]) => Contains(hits, Hit(text, entities[i]))
    BY <1>2, HitsType
<1> DEFINE bytes == Bytes(text)
           out == redacted
<1>4. bytes \in Seq(Byte) /\ Len(bytes) \in Nat /\ \A q \in 1..Len(bytes) : bytes[q] \in Byte
    BY <1>2, BytesType
<1>5. PICK pos : /\ Enumerates(pos, Len(out), Shown(bytes))
                 /\ \A i \in 1..Len(out) :
                        out[i] = IF IsNative(bytes[pos[i]]) THEN Native ELSE bytes[pos[i]]
    <2>1. out = NativeRedacted(bytes)
        BY DEF Init
    <2> HIDE DEF bytes, out
    <2> QED
        BY <1>4, <2>1, NativeEnumerates
<1>6. \A q \in 1..Len(bytes) : bytes[q][2] = 2 =>
          q - 1 \in 1..Len(bytes) /\ bytes[q - 1] = <<bytes[q][1], 1>>
    BY <1>2, SecondBytes
<1>7. Len(out) \in Nat
    BY <1>1 DEF OverlayInv, Types
<1> HIDE DEF bytes, out
<1>8. /\ pos \in [1..Len(out) -> 1..Len(bytes)]
      /\ \A i \in 1..Len(out) : pos[i] \in Shown(bytes) /\ pos[i] \in 1..Len(bytes)
      /\ \A i, j \in 1..Len(out) : i < j => pos[i] < pos[j]
    BY <1>5 DEF Enumerates, Shown
<1>9. ASSUME NEW i \in 1..Len(out), out[i] \in Byte
      PROVE  out[i] = bytes[pos[i]] /\ ~IsNative(bytes[pos[i]])
    BY <1>5, <1>9, ByteFacts
<1>10. ASSUME NEW i \in 1..Len(out), out[i] \in Byte, i < Len(out) PROVE pos[i + 1] = pos[i] + 1
    <2> DEFINE q == pos[i]
               z == pos[i + 1]
    <2>1. i + 1 \in 1..Len(out) /\ i \in Nat
        BY <1>7, <1>10
    <2>2. q \in 1..Len(bytes) /\ z \in 1..Len(bytes) /\ q < z
        BY <1>8, <2>1
    <2>3. ~IsNative(bytes[q])
        BY <1>9, <1>10
    <2> HIDE DEF q, z
    <2>4. q + 1 \in 1..Len(bytes) /\ q \in Nat /\ z \in Nat
        BY <1>4, <2>2
    <2>5. q + 1 \in Shown(bytes)
        <3> SUFFICES ASSUME Absorbed(bytes[q + 1]) PROVE FALSE
            BY <2>4 DEF Shown
        <3>1. bytes[q + 1] \in Byte
            BY <1>4, <2>4
        <3>2. bytes[q + 1][2] = 2 /\ IsNative(bytes[q + 1])
            BY <3>1 DEF Absorbed, Byte
        <3>3. (q + 1) - 1 = q
            BY <2>4
        <3>4. bytes[q] = <<bytes[q + 1][1], 1>>
            BY <1>6, <2>4, <3>2, <3>3
        <3> QED
            BY <2>3, <3>2, <3>4 DEF IsNative
    <2>6. PICK j \in 1..Len(out) : pos[j] = q + 1
        BY <1>5, <2>5 DEF Enumerates
    <2>7. ~(j < i) /\ j # i
        <3>1. pos[i] = q
            BY DEF q
        <3>2. ~(pos[j] < q) /\ pos[j] # q
            BY <2>4, <2>6
        <3> QED
            BY <1>8, <3>1, <3>2
    <2>8. ~(i + 1 < j)
        <3>1. pos[i + 1] = z
            BY DEF z
        <3>2. ~(z < pos[j])
            BY <2>2, <2>4, <2>6
        <3> QED
            BY <1>8, <2>1, <3>1, <3>2
    <2>9. j = i + 1
        BY <1>7, <2>1, <2>7, <2>8
    <2> QED
        BY <2>6, <2>9 DEF q
<1>11. Placed(out, bytes, pos)
    BY <1>8, <1>9, <1>10 DEF Placed
<1>12. Accounted(Kept(redacted, Bytes(text), pos), {})
    <2> DEFINE K == Kept(out, bytes, pos)
    <2>1. ASSUME NEW q \in 1..Len(bytes), ~IsNative(bytes[q]) PROVE q \in K
        <3>1. q \in Shown(bytes)
            BY <2>1 DEF Shown, Absorbed
        <3>2. PICK i \in 1..Len(out) : pos[i] = q
            BY <1>5, <3>1 DEF Enumerates
        <3>3. out[i] = bytes[q] /\ bytes[q] \in Byte
            BY <1>4, <1>5, <2>1, <3>2
        <3> QED
            BY <3>2, <3>3 DEF Kept
    <2> HIDE DEF K
    <2>2. Accounted(K, {})
        BY <2>1 DEF Accounted, bytes
    <2> QED
        BY <2>2 DEF K, out, bytes
<1>13. Settled(Kept(redacted, Bytes(text), pos))
    <2> SUFFICES ASSUME NEW p \in Occurrences
                 PROVE  \E i \in 1..Len(hits) : hits[i].value = SubSeq(Bytes(text), p[1], p[2])
        BY DEF Settled
    <2>1. PICK e \in UsableEntities : SubSeq(Bytes(text), p[1], p[2]) = Value(text, e)
        BY <1>1, OccurrencesAre
    <2>2. PICK n \in 1..Len(entities) : e = entities[n] /\ Usable(text, e)
        BY <1>2 DEF UsableEntities, ToSet
    <2>3. Contains(hits, Hit(text, e))
        BY <1>3, <2>2
    <2>4. PICK i \in 1..Len(hits) : hits[i] = Hit(text, e)
        BY <2>3 DEF Contains
    <2> QED
        BY <2>1, <2>4 DEF Hit
<1>14. Laid(pos, {})
    BY <1>11, <1>12, <1>13 DEF Laid, out, bytes
<1> QED
    BY <1>1, <1>3, <1>14 DEF LayInv

LEMMA ReplaceLays == ASSUME LayInv, Replace PROVE LayInv'
<1>1. OverlayInv'
    BY ReplaceKeeps DEF LayInv
<1>2. OverlayInv /\ hits \in Seq(AHit) /\ redacted \in Seq(Symbols) /\ hits \in Seq(Found(text, entities))
      /\ text \in Texts /\ entities \in Seq(Entities(text))
    BY DEF LayInv, OverlayInv, Types
<1> DEFINE h == hits[Longest]
           v == h.value
           mark == Placeholder(h.label)
           bytes == Bytes(text)
           out == redacted
<1>3. /\ Occurs(v, out) /\ redacted' = ReplaceFirstSubSeq(<<mark>>, v, out)
      /\ UNCHANGED <<text, entities, hits>> /\ hits # <<>>
    BY DEF Replace
<1>4. /\ Longest \in 1..Len(hits)
      /\ \A j \in 1..Len(hits) : Len(hits[j].value) <= Len(v)
    BY <1>2, <1>3, LongestExists
<1>5. h \in Found(text, entities)
    BY <1>2, <1>4
<1>6. h.label \in Labels /\ v \in Seq(Byte) /\ v # <<>> /\ \E e \in UsableEntities : v = Value(text, e)
    <2> HIDE DEF h
    <2>1. h \in AHit
        BY <1>5 DEF Found
    <2>2. PICK i \in 1..Len(entities) : Usable(text, entities[i]) /\ h = Hit(text, entities[i])
        BY <1>5 DEF Found
    <2>3. entities[i] \in UsableEntities
        BY <1>2, <2>2 DEF UsableEntities, ToSet
    <2>4. v = Value(text, entities[i])
        BY <2>2 DEF Hit
    <2> QED
        BY <2>1, <2>3, <2>4 DEF AHit, NonEmpty
<1>7. mark \in Symbols /\ mark \notin Byte
    BY <1>6, ByteFacts DEF Symbols, Marks
<1>8. bytes \in Seq(Byte)
    BY <1>2, BytesType
<1>9. v \in Seq(Symbols) /\ out \in Seq(Symbols)
    BY <1>2, <1>6 DEF Symbols
<1> HIDE DEF h, v, mark, bytes, out
<1>10. PICK k \in 0..(Len(out) - Len(v)) :
           /\ SubSeq(out, k + 1, k + Len(v)) = v
           /\ redacted' = Replaced(out, k, v, mark)
    BY <1>3, <1>6, <1>9, ReplaceFirstCuts
<1>11. \A i \in 1..Len(v) : out[k + i] = v[i]
    <2>1. \A i \in 1..Len(v) : SubSeq(out, k + 1, k + Len(v))[i] = out[k + i]
        BY <1>9
    <2> QED
        BY <1>10, <2>1
<1>12. PICK pos, R : Laid(pos, R)
    BY DEF LayInv
<1>13. /\ R \subseteq Occurrences /\ Placed(out, bytes, pos)
       /\ Accounted(Kept(out, bytes, pos), R) /\ (Nested => Settled(Kept(out, bytes, pos)))
    BY <1>12 DEF Laid, out, bytes
<1> DEFINE new == Replaced(out, k, v, mark)
           a == pos[k + 1]
           b == (pos[k + 1] + Len(v)) - 1
<1>29. CutOut(bytes, out, pos, v, new, a, b)
    <2>1. StandsAt(v, out, k)
        BY <1>11 DEF StandsAt
    <2> QED
        BY <1>6, <1>7, <1>8, <1>9, <1>13, <2>1, ReplacedPlaced
<1> HIDE DEF new, a, b
<1>14. /\ a \in 1..Len(bytes) /\ b \in 1..Len(bytes) /\ a <= b /\ (b - a) + 1 = Len(v)
       /\ SubSeq(bytes, a, b) = v
       /\ \E after : /\ Placed(new, bytes, after)
                     /\ Kept(new, bytes, after) = Kept(out, bytes, pos) \ (a..b)
    BY <1>29 DEF CutOut
<1>15. PICK after : Placed(new, bytes, after) /\ Kept(new, bytes, after) = Kept(out, bytes, pos) \ (a..b)
    BY <1>14
<1> DEFINE r == <<a, b>>
           K == Kept(out, bytes, pos)
           L == Kept(new, bytes, after)
<1>16. r[1] = a /\ r[2] = b /\ L = K \ (a..b)
    BY <1>15
<1>17. r \in Occurrences
    BY <1>6, <1>14 DEF Occurrences, bytes
<1> HIDE DEF r, K, L
<1>18. \A p : Avoids(p, K) => Avoids(p, L)
    BY <1>16 DEF Avoids
<1>19. Avoids(r, L)
    BY <1>16 DEF Avoids
<1>20. Accounted(K, R) /\ (Nested => Settled(K))
    BY <1>13 DEF K
<1>21. Accounted(L, R \cup {r})
    <2>1. \A p \in R \cup {r} : Avoids(p, L)
        BY <1>18, <1>19, <1>20 DEF Accounted
    <2>2. ASSUME NEW q \in 1..Len(Bytes(text)), q \notin L, ~IsNative(Bytes(text)[q])
          PROVE  \E p \in R \cup {r} : q \in p[1]..p[2]
        <3>1. q \notin K \/ q \in r[1]..r[2]
            BY <1>16, <2>2
        <3>2. CASE q \in r[1]..r[2]
            BY <3>2
        <3>3. CASE q \notin K
            <4>1. \E p \in R : q \in p[1]..p[2]
                BY <1>20, <2>2, <3>3 DEF Accounted
            <4> QED
                BY <4>1
        <3> QED
            BY <3>1, <3>2, <3>3
    <2>3. ASSUME NEW p \in R \cup {r}, NEW i \in 1..Len(hits)
          PROVE  Len(hits[i].value) <= (p[2] - p[1]) + 1
        <3>1. CASE p \in R
            BY <1>20, <3>1 DEF Accounted
        <3>2. CASE p = r
            <4>1. (p[2] - p[1]) + 1 = Len(v)
                BY <1>14, <1>16, <3>2
            <4> QED
                BY <1>4, <4>1
        <3> QED
            BY <3>1, <3>2
    <2> QED
        BY <2>1, <2>2, <2>3 DEF Accounted
<1>22. Nested => Settled(L)
    BY <1>18, <1>20 DEF Settled
<1>23. UNCHANGED <<text, entities, hits>> /\ redacted' = new
    BY <1>3, <1>10 DEF new
<1>24. UNCHANGED <<UsableEntities, Occurrences, Nested>>
    BY <1>23 DEF UsableEntities, Occurrences, Nested
<1>25. R \cup {r} \subseteq Occurrences /\ Placed(new, bytes, after)
       /\ Accounted(Kept(new, bytes, after), R \cup {r}) /\ (Nested => Settled(Kept(new, bytes, after)))
    BY <1>13, <1>15, <1>17, <1>21, <1>22 DEF L
<1>26. PICK x, y : /\ y \subseteq Occurrences /\ Placed(new, bytes, x)
                   /\ Accounted(Kept(new, bytes, x), y) /\ (Nested => Settled(Kept(new, bytes, x)))
    BY <1>25
<1>27. Laid(x, y)'
    BY <1>23, <1>24, <1>26 DEF Laid, Accounted, Settled, bytes
<1>28. (hits \in Seq(Found(text, entities)))'
    BY <1>2, <1>23
<1> QED
    BY <1>1, <1>27, <1>28 DEF LayInv

LEMMA NextHitLays == ASSUME LayInv, NextHit PROVE LayInv'
<1>1. OverlayInv'
    BY NextHitKeeps DEF LayInv
<1>2. OverlayInv /\ hits \in Seq(AHit) /\ redacted \in Seq(Symbols) /\ hits \in Seq(Found(text, entities))
      /\ text \in Texts /\ entities \in Seq(Entities(text))
    BY DEF LayInv, OverlayInv, Types
<1> DEFINE n == Longest
           v == hits[n].value
           bytes == Bytes(text)
           out == redacted
<1>3. /\ ~Occurs(v, out) /\ hits' = RemoveAt(hits, n) /\ hits # <<>>
      /\ UNCHANGED <<text, entities, redacted>>
    BY DEF NextHit
<1>4. n \in 1..Len(hits)
    BY <1>2, <1>3, LongestExists
<1>5. bytes \in Seq(Byte) /\ Len(bytes) \in Nat
    BY <1>2, BytesType
<1> HIDE DEF n, bytes, out
<1>6. \A j \in 1..Len(hits) : j = n \/ \E i \in 1..Len(hits') : hits'[i] = hits[j]
    BY <1>2, <1>3, <1>4, OthersStay
<1>7. hits' \in Seq(Found(text, entities))
    BY <1>2, <1>3, <1>4, OthersStay
<1>8. \A i \in 1..Len(hits') : \E j \in 1..Len(hits) : hits'[i] = hits[j]
    <2> DEFINE S == {hits[j] : j \in 1..Len(hits)}
    <2>1. hits \in Seq(S)
        BY <1>2
    <2> HIDE DEF S
    <2>2. hits' \in Seq(S)
        BY <1>3, <1>4, <2>1, OthersStay
    <2>3. \A i \in 1..Len(hits') : hits'[i] \in S
        BY <2>2
    <2> QED
        BY <2>3 DEF S
<1>9. PICK pos, R : Laid(pos, R)
    BY DEF LayInv
<1> DEFINE K == Kept(out, bytes, pos)
<1>10. R \subseteq Occurrences /\ Placed(out, bytes, pos) /\ Accounted(K, R) /\ (Nested => Settled(K))
    BY <1>9 DEF Laid, out, bytes
<1>11. \A p \in R : Avoids(p, K)
    BY <1>10 DEF Accounted
<1>12. \A q \in 1..Len(bytes) : q \in K \/ IsNative(bytes[q]) \/ \E p \in R : q \in p[1]..p[2]
    BY <1>10 DEF Accounted, bytes
<1>13. \A p \in R : Len(v) <= (p[2] - p[1]) + 1
    BY <1>4, <1>10 DEF Accounted
<1>14. ASSUME Nested, NEW p \in Occurrences, SubSeq(bytes, p[1], p[2]) = v PROVE Avoids(p, K)
    <2> SUFFICES ASSUME NEW q0 \in K, q0 \in p[1]..p[2] PROVE FALSE
        BY DEF Avoids
    <2> DEFINE a == p[1]
               b == p[2]
    <2>1. a \in 1..Len(bytes) /\ b \in 1..Len(bytes) /\ a <= b /\ p = <<a, b>>
        BY <1>2, OccurrencesAre DEF bytes
    <2>2. PICK e \in UsableEntities : v = Value(text, e)
        BY <1>2, <1>14, OccurrencesAre DEF bytes
    <2>3. \A i \in DOMAIN v : ~IsNative(v[i])
        BY <1>14, <2>2 DEF Nested
    <2>4. SubSeq(bytes, a, b) = v /\ q0 \in a..b
        BY <1>14
    <2>10. ASSUME NEW r \in R
           PROVE  /\ r[1] \in Nat /\ r[2] \in Nat /\ r[1] <= r[2] /\ r = <<r[1], r[2]>>
                  /\ \/ b < r[1] \/ r[2] < a
                     \/ a <= r[1] /\ r[2] <= b
                     \/ r[1] <= a /\ b <= r[2]
        <3>1. r \in Occurrences
            BY <1>10
        <3>2. r[1] \in 1..Len(bytes) /\ r[2] \in 1..Len(bytes) /\ r[1] <= r[2] /\ r = <<r[1], r[2]>>
            BY <1>2, <3>1, OccurrencesAre DEF bytes
        <3>3. \/ b < r[1] \/ r[2] < a
              \/ a <= r[1] /\ r[2] <= b
              \/ r[1] <= a /\ b <= r[2]
            BY <1>14, <3>1 DEF Nested
        <3>4. \A x \in 1..Len(bytes) : x \in Nat
            BY <1>5
        <3> QED
            BY <3>2, <3>3, <3>4
    <2> HIDE DEF a, b, v, K
    <2>5. Len(v) = (b - a) + 1 /\ \A q \in a..b : v[(q - a) + 1] = bytes[q] /\ (q - a) + 1 \in DOMAIN v
        <3> DEFINE w == SubSeq(bytes, a, b)
        <3>1. Len(w) = (b - a) + 1 /\ DOMAIN w = 1..((b - a) + 1)
            BY <1>5, <2>1
        <3>2. \A i \in 1..((b - a) + 1) : w[i] = bytes[(a + i) - 1]
            BY <1>5, <2>1
        <3>3. ASSUME NEW q \in a..b PROVE (q - a) + 1 \in 1..((b - a) + 1) /\ (a + ((q - a) + 1)) - 1 = q
            BY <1>5, <2>1
        <3>4. w = v
            BY <2>4
        <3> HIDE DEF w
        <3>5. ASSUME NEW q \in a..b PROVE w[(q - a) + 1] = bytes[q] /\ (q - a) + 1 \in DOMAIN w
            <4>1. w[(q - a) + 1] = bytes[(a + ((q - a) + 1)) - 1]
                BY <3>2, <3>3
            <4> QED
                BY <3>1, <3>3, <4>1
        <3> QED
            BY <3>1, <3>4, <3>5
    <2>6. ASSUME NEW r \in R PROVE b < r[1] \/ r[2] < a
        <3>1. Len(v) <= (r[2] - r[1]) + 1
            BY <1>13
        <3>2. ~(r[1] <= a /\ b <= r[2])
            <4> SUFFICES ASSUME r[1] <= a, b <= r[2] PROVE FALSE
                OBVIOUS
            <4>1. q0 \in r[1]..r[2]
                BY <1>5, <2>1, <2>4, <2>10
            <4> QED
                BY <1>11, <4>1 DEF Avoids
        <3>3. ~(a <= r[1] /\ r[2] <= b)
            BY <1>5, <2>1, <2>5, <2>10, <3>1, <3>2
        <3> QED
            BY <2>10, <3>2, <3>3
    <2>7. ASSUME NEW q \in a..b PROVE q \in K
        <3>1. q \in 1..Len(bytes)
            BY <1>5, <2>1
        <3>2. ~IsNative(bytes[q])
            BY <2>3, <2>5
        <3>3. ASSUME NEW r \in R PROVE q \notin r[1]..r[2]
            <4>1. (b < r[1] \/ r[2] < a) /\ r[1] \in Nat /\ r[2] \in Nat
                BY <2>6, <2>10
            <4> QED
                BY <1>5, <2>1, <4>1
        <3> QED
            BY <1>12, <3>1, <3>2, <3>3
    <2>8. Occurs(SubSeq(bytes, a, b), out)
        <3>1. a..b \subseteq Kept(out, bytes, pos)
            BY <2>7 DEF K
        <3>2. out \in Seq(Symbols)
            BY <1>2 DEF out
        <3> QED
            BY <1>5, <1>10, <2>1, <3>1, <3>2, KeptRun
    <2> QED
        BY <1>3, <2>4, <2>8 DEF v
<1>15. Nested => \A p \in Occurrences :
           Avoids(p, K) \/ \E i \in 1..Len(hits') : hits'[i].value = SubSeq(bytes, p[1], p[2])
    <2> SUFFICES ASSUME Nested, NEW p \in Occurrences, ~Avoids(p, K)
                 PROVE  \E i \in 1..Len(hits') : hits'[i].value = SubSeq(bytes, p[1], p[2])
        OBVIOUS
    <2>1. PICK j \in 1..Len(hits) : hits[j].value = SubSeq(bytes, p[1], p[2])
        BY <1>10 DEF Settled, bytes
    <2>2. j # n
        BY <1>14, <2>1
    <2> QED
        BY <1>6, <2>1, <2>2
<1>16. \A p \in R, i \in 1..Len(hits') : Len(hits'[i].value) <= (p[2] - p[1]) + 1
    <2>1. \A p \in R, j \in 1..Len(hits) : Len(hits[j].value) <= (p[2] - p[1]) + 1
        BY <1>10 DEF Accounted
    <2> QED
        BY <1>8, <2>1
<1>17. UNCHANGED <<UsableEntities, Occurrences, Nested>>
    BY <1>3 DEF UsableEntities, Occurrences, Nested
<1>18. PICK x, y : /\ y \subseteq Occurrences /\ Placed(out, bytes, x)
                   /\ \A p \in y : Avoids(p, Kept(out, bytes, x))
                   /\ \A q \in 1..Len(bytes) :
                          q \in Kept(out, bytes, x) \/ IsNative(bytes[q]) \/ \E p \in y : q \in p[1]..p[2]
                   /\ \A p \in y, i \in 1..Len(hits') : Len(hits'[i].value) <= (p[2] - p[1]) + 1
                   /\ Nested => \A p \in Occurrences :
                          \/ Avoids(p, Kept(out, bytes, x))
                          \/ \E i \in 1..Len(hits') : hits'[i].value = SubSeq(bytes, p[1], p[2])
    BY <1>10, <1>11, <1>12, <1>15, <1>16 DEF K
<1>19. Laid(x, y)'
    BY <1>3, <1>17, <1>18 DEF Laid, Accounted, Settled, out, bytes
<1>20. (hits \in Seq(Found(text, entities)))'
    BY <1>3, <1>7
<1> QED
    BY <1>1, <1>19, <1>20 DEF LayInv

LEMMA LayInductive == LayInv /\ [Next]_vars => LayInv'
<1> SUFFICES ASSUME LayInv, [Next]_vars PROVE LayInv'
    OBVIOUS
<1>1. CASE Replace
    BY <1>1, ReplaceLays
<1>2. CASE NextHit
    BY <1>2, NextHitLays
<1>3. CASE UNCHANGED vars
    <2>1. OverlayInv'
        BY <1>3, OverlayInductive DEF LayInv
    <2>2. UNCHANGED <<text, entities, redacted, hits>>
        BY <1>3 DEF vars
    <2>3. PICK pos, R : Laid(pos, R)
        BY DEF LayInv
    <2>4. UNCHANGED <<UsableEntities, Occurrences, Nested>>
        BY <2>2 DEF UsableEntities, Occurrences, Nested
    <2>5. Laid(pos, R)'
        BY <2>2, <2>3, <2>4 DEF Laid, Accounted, Settled
    <2>6. (hits \in Seq(Found(text, entities)))'
        BY <2>2 DEF LayInv
    <2> QED
        BY <2>1, <2>5, <2>6 DEF LayInv
<1> QED
    BY <1>1, <1>2, <1>3 DEF Next

\* When no hit is left, the bytes still in the output are those outside every value.
LEMMA WhatIsKept ==
    ASSUME LayInv, Done, Nested
    PROVE  \E pos : /\ Placed(redacted, Bytes(text), pos)
                    /\ Kept(redacted, Bytes(text), pos) = Clear
<1> DEFINE bytes == Bytes(text)
<1>1. OverlayInv /\ Len(hits) = 0 /\ bytes \in Seq(Byte) /\ DOMAIN bytes = 1..Len(bytes)
    BY BytesType DEF LayInv, OverlayInv, Types, Done
<1>2. PICK pos, R : Laid(pos, R)
    BY DEF LayInv
<1> DEFINE K == Kept(redacted, bytes, pos)
<1>3. R \subseteq Occurrences /\ Placed(redacted, bytes, pos) /\ Accounted(K, R) /\ Settled(K)
    BY <1>2 DEF Laid
<1>4. \A p \in Occurrences : Avoids(p, K)
    BY <1>1, <1>3 DEF Settled
<1>5. ASSUME NEW q \in 1..Len(bytes), q \in K PROVE q \in Clear
    <2>1. PICK i \in 1..Len(redacted) : redacted[i] \in Byte /\ pos[i] = q
        BY <1>5 DEF Kept
    <2>2. ~IsNative(bytes[q])
        BY <1>3, <2>1 DEF Placed
    <2>3. \A p \in Occurrences : q \notin p[1]..p[2]
        BY <1>4, <1>5 DEF Avoids
    <2> QED
        BY <1>1, <2>2, <2>3 DEF Clear
<1>6. ASSUME NEW q \in Clear PROVE q \in K
    <2>1. q \in 1..Len(bytes) /\ ~IsNative(bytes[q]) /\ \A p \in Occurrences : q \notin p[1]..p[2]
        BY <1>1 DEF Clear
    <2>2. \A p \in R : q \notin p[1]..p[2]
        BY <1>3, <2>1
    <2> QED
        BY <1>3, <2>1, <2>2 DEF Accounted
<1>7. \A q \in K : q \in 1..Len(bytes)
    BY DEF Kept
<1>8. K = Clear
    BY <1>5, <1>6, <1>7
<1> QED
    BY <1>3, <1>8

(***************************************************************************)
(* Values without native PII that are nested or apart are covered as a     *)
(* whole, and no other byte of the text is lost or moved                   *)
(* (detector_presidio.go RedactPII, "longest-first"): for texts and        *)
(* answers of any length, what is replaced never breaks up a longer value  *)
(* that is still to come.  Here too a placeholder is no byte.              *)
(***************************************************************************)
THEOREM NestedValuesAreCovered == Spec => []NestedValuesCovered
<1>1. LayInv => NestedValuesCovered
    <2> SUFFICES ASSUME LayInv, Done, Nested
                 PROVE  Selected(redacted, {i \in DOMAIN redacted : redacted[i][2] # 0})
                            = Selected(Bytes(text), Clear)
        BY DEF NestedValuesCovered
    <2> DEFINE bytes == Bytes(text)
               out == redacted
               left == {i \in DOMAIN out : out[i][2] # 0}
    <2>1. PICK pos : Placed(out, bytes, pos) /\ Kept(out, bytes, pos) = Clear
        BY WhatIsKept
    <2>2. bytes \in Seq(Byte) /\ out \in Seq(Symbols) /\ DOMAIN out = 1..Len(out)
          /\ DOMAIN bytes = 1..Len(bytes)
        BY BytesType DEF LayInv, OverlayInv, Types
    <2>3. \A i \in DOMAIN out : i \in left <=> out[i] \in Byte
        <3>1. \A b \in Symbols : b[2] # 0 <=> b \in Byte
            BY ByteFacts DEF Symbols, Marks, Native, Placeholder
        <3>2. \A i \in DOMAIN out : out[i] \in Symbols
            BY <2>2
        <3> QED
            BY <3>1, <3>2
    <2>4. left \in SUBSET (1..Len(out)) /\ Clear \in SUBSET (1..Len(bytes)) /\ Clear \in SUBSET Nat
        BY <2>2 DEF Clear
    <2> HIDE DEF bytes, out, left
    <2> DEFINE u == Selected(out, left)
               w == Selected(bytes, Clear)
    <2>5. PICK f : /\ Enumerates(f, Len(u), left)
                   /\ \A i \in 1..Len(u) : u[i] = out[f[i]]
        BY <2>2, <2>4, SelectedEnumerates
    <2>6. PICK g : /\ Enumerates(g, Len(w), Clear)
                   /\ \A i \in 1..Len(w) : w[i] = bytes[g[i]]
        BY <2>2, <2>4, SelectedEnumerates
    <2>7. u \in Seq(Symbols) /\ w \in Seq(Byte)
        BY <2>2, <2>4, SelectedEnumerates
    <2> HIDE DEF u, w
    <2>8. Len(u) \in Nat /\ Len(w) \in Nat
        BY <2>7
    <2> DEFINE h == [i \in 1..Len(u) |-> pos[f[i]]]
    <2>9. ASSUME NEW i \in 1..Len(u)
          PROVE  f[i] \in 1..Len(out) /\ out[f[i]] \in Byte /\ h[i] = pos[f[i]] /\ h[i] \in Clear
        <3>1. f[i] \in left
            BY <2>5 DEF Enumerates
        <3>2. f[i] \in 1..Len(out) /\ out[f[i]] \in Byte
            BY <2>2, <2>3, <2>4, <3>1
        <3>3. pos[f[i]] \in 1..Len(bytes)
            BY <2>1, <3>2 DEF Placed
        <3>4. pos[f[i]] \in Kept(out, bytes, pos)
            BY <3>2, <3>3 DEF Kept
        <3> QED
            BY <2>1, <3>2, <3>4
    <2>10. Enumerates(h, Len(u), Clear)
        <3>1. h \in [1..Len(u) -> Clear]
            BY <2>9
        <3>2. ASSUME NEW i \in 1..Len(u), NEW j \in 1..Len(u), i < j PROVE h[i] < h[j]
            <4>1. f[i] < f[j]
                BY <2>5, <3>2 DEF Enumerates
            <4> HIDE DEF h
            <4> QED
                BY <2>1, <2>9, <4>1 DEF Placed
        <3>3. ASSUME NEW q \in Clear PROVE \E i \in 1..Len(u) : h[i] = q
            <4>1. PICK l \in 1..Len(out) : out[l] \in Byte /\ pos[l] = q
                BY <2>1 DEF Kept
            <4>2. l \in left
                BY <2>2, <2>3, <4>1
            <4>3. PICK i \in 1..Len(u) : f[i] = l
                BY <2>5, <4>2 DEF Enumerates
            <4> QED
                BY <4>1, <4>3
        <3> HIDE DEF h
        <3> QED
            BY <3>1, <3>2, <3>3 DEF Enumerates
    <2> HIDE DEF h
    <2>11. Len(u) = Len(w) /\ \A i \in 1..Len(u) : h[i] = g[i]
        <3> DEFINE m == Len(u)
                   n == Len(w)
        <3>1. m \in Nat /\ n \in Nat /\ Enumerates(h, m, Clear) /\ Enumerates(g, n, Clear)
            BY <2>6, <2>8, <2>10
        <3> HIDE DEF m, n
        <3>2. SameList(h, m, g, n)
            BY <2>4, <3>1, SameEnumeration
        <3> QED
            BY <3>2 DEF SameList, m, n
    <2>12. ASSUME NEW i \in 1..Len(u) PROVE u[i] = w[i]
        <3>1. u[i] = bytes[h[i]]
            BY <2>1, <2>5, <2>9 DEF Placed
        <3> QED
            BY <2>6, <2>11, <3>1
    <2>13. u = w
        BY <2>7, <2>11, <2>12
    <2> QED
        BY <2>13 DEF u, w, out, bytes, left
<1> QED
    BY <1>1, InitLaid, LayInductive, PTL DEF Spec

=============================================================================

------------------------- MODULE MCWriteInspectors -------------------------
(***************************************************************************)
(* A small instance of WriteInspectors: "ab" and "a" nearly repeat each    *)
(* other, and nothing repeats the empty content.                           *)
(***************************************************************************)
EXTENDS WriteInspectors, TLC

MCContents == {{"a", "b"}, {"a"}, {}}
MCWrites   == [tokens : MCContents, human : {FALSE}]
                \cup {[tokens |-> {"a", "b"}, human |-> TRUE]}
MCSizeOf   == [c \in MCContents |-> IF c = {} THEN 0 ELSE IF c = {"a", "b"} THEN 4 ELSE 1]

Symmetry == Permutations(Writers) \cup Permutations(Keys)
=============================================================================

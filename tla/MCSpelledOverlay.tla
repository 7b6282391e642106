-------------------------- MODULE MCSpelledOverlay --------------------------
(***************************************************************************)
(* The placeholders of the small instance: the native one holds a letter   *)
(* that a text may have, as "<US_SSN>" holds "US".                         *)
(***************************************************************************)
EXTENDS SpelledOverlay

MCLetters == [l \in Labels \cup {"native"} |->
    IF l = "native" THEN <<"<", "u", ">">> ELSE <<"<", l, ">">>]
=============================================================================

-------------------------- MODULE WriteInspectors --------------------------
(***************************************************************************)
(* Both behavioral inspectors behind the WriteInspector seam, combined as  *)
(* main.go buildWriteInspector does: each write passes through             *)
(* SelfReinforcement and then SizeAnomaly, each under its own lock, so     *)
(* that concurrent writes may take the two locks in different orders.      *)
(***************************************************************************)
EXTENDS SelfReinforcement

CONSTANTS ConfigWindow, ConfigSigma, ConfigMinSamples,   \* of SizeAnomaly
          SizeOf                                         \* content -> its length

ASSUME SizeAssumption ==
    /\ SizeOf \in [Contents -> Nat]
    /\ ConfigWindow \in Nat /\ ConfigSigma \in Nat /\ ConfigMinSamples \in Nat

VARIABLES
    buffers,     \* of SizeAnomaly
    outlier,     \* its verdict on the call of each writer, None before it
    \* History, not in the code:
    sizes,       \* key -> all sizes, in the order of SizeAnomaly's critical sections
    place        \* of each writer: the place of its size there, 0 before its verdict

sizeVars == <<buffers, outlier, sizes, place>>
vars == <<selfVars, sizeVars>>

Size == INSTANCE SizeAnomaly

TypeOK ==
    /\ SelfTypeOK
    /\ \A k \in Keys : /\ buffers[k] \in Seq(Nat) /\ Len(buffers[k]) <= Size!WindowSize
                       /\ sizes[k] \in Seq(Nat)
    /\ outlier \in [Writers -> BOOLEAN \cup {None}]

Init ==
    /\ SelfInit /\ Size!Init
    /\ outlier = [w \in Writers |-> None]
    /\ sizes = [k \in Keys |-> <<>>]
    /\ place = [w \in Writers |-> 0]

-----------------------------------------------------------------------------
\* The second inspector of the list, on the same content and key.
Measure(w) ==
    /\ flagged[w] # None /\ outlier[w] = None
    /\ LET k    == call[w].key
           size == SizeOf[call[w].tokens]
       IN  /\ \E flag \in BOOLEAN : /\ Size!Inspect(k, size, flag)
                                    /\ outlier' = [outlier EXCEPT ![w] = flag]
           /\ sizes' = [sizes EXCEPT ![k] = Append(@, size)]
           /\ place' = [place EXCEPT ![w] = Len(sizes[k]) + 1]
    /\ UNCHANGED selfVars

\* The union of the flags goes back to the guard.
ReturnUnion(w) ==
    /\ outlier[w] # None
    /\ Return(w)
    /\ outlier' = [outlier EXCEPT ![w] = None] /\ place' = [place EXCEPT ![w] = 0]
    /\ UNCHANGED <<buffers, sizes>>

\* Every write has been inspected.
Quiescent ==
    /\ arrivals = MaxWrites /\ now = MaxTime /\ \A w \in Writers : call[w] = None
    /\ UNCHANGED vars

Next ==
    \/ Tick /\ UNCHANGED sizeVars
    \/ \E w \in Writers : (Arrive(w) \/ Skip(w) \/ Inspect(w)) /\ UNCHANGED sizeVars
    \/ \E w \in Writers : Measure(w) \/ ReturnUnion(w)
    \/ Quiescent

Spec == Init /\ [][Next]_vars

-----------------------------------------------------------------------------
(***************************************************************************)
(* A write is flagged for its size exactly when it is an outlier against   *)
(* the latest WindowSize sizes measured before it under its own key,       *)
(* itself excluded and writes by humans included, and there are MinSamples *)
(* of them; after equal sizes any other size is (detector_size.go Inspect, *)
(* meanStddev).                                                            *)
(***************************************************************************)
OutlierOfItsWindow ==
    \A w \in Writers : outlier[w] # None =>
        outlier[w] = Size!Deserved(SubSeq(sizes[call[w].key], 1, place[w]))
=============================================================================

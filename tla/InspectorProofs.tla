--------------------------- MODULE InspectorProofs ---------------------------
(***************************************************************************)
(* Theorems about the two behavioral inspectors (self_reinforcement.go,    *)
(* detector_size.go) for every value of the constants.                     *)
(***************************************************************************)
EXTENDS WriteInspectors, FiniteSetTheorems, WellFoundedInduction, TLAPS

(***************************************************************************)
(* Counting: a bound on one set by a map into another, and the cap of a    *)
(* history.                                                                *)
(***************************************************************************)
LEMMA OneToOne ==
  ASSUME NEW S, NEW T, IsFiniteSet(T), NEW f \in [S -> T],
         \A a, b \in S : f[a] = f[b] => a = b
  PROVE  IsFiniteSet(S) /\ Cardinality(S) <= Cardinality(T)
  <1>1. f \in Injection(S, T)
    BY DEF Injection, IsInjective
  <1> QED BY <1>1, FS_Injection

NatOrder == {ss \in Nat \X Nat : ss[1] < ss[2]}

LEMMA NatOrderWellFounded == IsWellFoundedOn(NatOrder, Nat)
  BY NatLessThanWellFounded, SMT DEF OpToRel, NatOrder

LEMMA Least ==
  ASSUME NEW T \in SUBSET Nat, T # {}
  PROVE  \E x \in T : \A y \in T : x <= y
  <1>1. PICK x \in T : \A y \in T : <<y, x>> \notin NatOrder
    BY WFMin, NatOrderWellFounded
  <1>2. \A y \in T : ~(y < x)
    BY <1>1 DEF NatOrder
  <1> QED BY <1>2

\* The records kept are the newest, and no more than the cap.
LEMMA CapHolds ==
  ASSUME NEW S, IsFiniteSet(S), \A r \in S : r.nth \in Nat
  PROVE  /\ Trimmed(S) \subseteq S /\ IsFiniteSet(Trimmed(S))
         /\ Cardinality(Trimmed(S)) <= MaxHistory
  <1>1. Trimmed(S) \in SUBSET S
    BY DEF Trimmed
  <1>2. IsFiniteSet(Trimmed(S))
    BY <1>1, FS_Subset
  <1>3. CASE Trimmed(S) = {}
    BY <1>1, <1>2, <1>3, FS_EmptySet, DetectorAssumption
  <1>4. CASE Trimmed(S) # {}
    <2> DEFINE places == {r.nth : r \in Trimmed(S)}
    <2>1. places \in SUBSET Nat /\ places # {}
      BY <1>1, <1>4
    <2>2. PICK x \in places : \A y \in places : x <= y
      BY <2>1, Least
    <2>3. PICK r \in Trimmed(S) : x = r.nth
      BY <2>2
    <2>4. Trimmed(S) \in SUBSET SinceRecord(S, r)
      BY <1>1, <2>2, <2>3 DEF SinceRecord
    <2>5. SinceRecord(S, r) \in SUBSET S
      BY DEF SinceRecord
    <2>6. IsFiniteSet(SinceRecord(S, r))
      BY <2>5, FS_Subset
    <2>7. Cardinality(Trimmed(S)) <= Cardinality(SinceRecord(S, r))
      BY <2>4, <2>6, FS_Subset
    <2>8. Cardinality(SinceRecord(S, r)) <= MaxHistory
      BY DEF Trimmed
    <2>9. /\ Cardinality(Trimmed(S)) \in Nat /\ Cardinality(SinceRecord(S, r)) \in Nat
          /\ MaxHistory \in Nat
      BY <1>2, <2>6, FS_CardinalityType, DetectorAssumption
    <2> QED BY <1>1, <1>2, <2>7, <2>8, <2>9
  <1> QED BY <1>3, <1>4

-----------------------------------------------------------------------------
(***************************************************************************)
(* FlagIsDeserved and RepetitionIsNoticed compare a verdict with the log   *)
(* of all recorded writes.  They hold because a history is the log, minus  *)
(* what has aged out and minus what MaxHistory later writes of the same    *)
(* subject have pushed out.                                                *)
(***************************************************************************)
FrameOK ==
    /\ history \in [Keys -> SUBSET Record]
    /\ \A k \in Keys : IsFiniteSet(history[k])
    /\ log \in Seq(Call)
    /\ before \in [Writers -> [arrival : Nat, verdict : Nat, clock : Nat]]
    /\ buffers \in [Keys -> Seq(Nat)] /\ sizes \in [Keys -> Seq(Nat)]

\* A call read the clock before now; so did every recorded one.
ClocksArePast ==
    /\ \A w \in Writers : call[w] # None => call[w].at <= now
    /\ \A n \in DOMAIN log : log[n].at <= now

Recalls(r, n) == r.nth = n /\ r.tokens = log[n].tokens /\ r.at = log[n].at

HistoryIsLogged ==
    \A k \in Keys : \A r \in history[k] :
        r.nth \in DOMAIN log /\ log[r.nth].key = k /\ Recalls(r, r.nth)

Since(l, k, n) == {m \in n..Len(l) : l[m].key = k}

LogIsRemembered ==
    \A n \in DOMAIN log :
        \/ \E r \in history[log[n].key] : r.nth = n
        \/ now - log[n].at >= Cooldown
        \/ Cardinality(Since(log, log[n].key, n)) > MaxHistory

VerdictsArePast ==
    \A w \in Writers : /\ call[w] = None => flagged[w] = None
                       /\ before[w].arrival <= Len(log) /\ before[w].verdict <= Len(log)

\* The two sets the properties count.
Supporters(w) == {n \in 1..before[w].verdict :
                    Repeats(w, n) /\ call[w].at - log[n].at < Cooldown}
Repeaters(w)  == {n \in 1..before[w].arrival :
                    /\ Repeats(w, n) /\ before[w].clock - log[n].at < Cooldown
                    /\ Cardinality(LaterOfSubject(w, n)) <= MaxHistory}

Deserves(w) == flagged[w] = TRUE => MaxSelfWrites <= Cardinality(Supporters(w))
Notices(w)  == flagged[w] = FALSE /\ ~call[w].human => MaxSelfWrites > Cardinality(Repeaters(w))

HistoryInv ==
    /\ TypeOK /\ FrameOK
    /\ ClocksArePast /\ HistoryIsLogged /\ LogIsRemembered /\ VerdictsArePast
    /\ \A w \in Writers : Deserves(w) /\ Notices(w)

LEMMA PropertiesOfHistory ==
  HistoryInv => TypeOK /\ FlagIsDeserved /\ RepetitionIsNoticed
  BY DEF HistoryInv, FlagIsDeserved, RepetitionIsNoticed, Deserves, Notices, Supporters, Repeaters

LEMMA InitHistory == Init => HistoryInv
  <1> SUFFICES ASSUME Init PROVE HistoryInv
    OBVIOUS
  <1>1. IsFiniteSet({}) /\ Cardinality({}) = 0
    BY FS_EmptySet
  <1>2. TypeOK /\ FrameOK
    BY <1>1, DetectorAssumption, SizeAssumption
    DEF Init, SelfInit, Size!Init, Unset, TypeOK, SelfTypeOK, FrameOK, Size!WindowSize
  <1>3. ClocksArePast /\ HistoryIsLogged /\ LogIsRemembered /\ VerdictsArePast
    BY DEF Init, SelfInit, Unset, ClocksArePast, HistoryIsLogged, LogIsRemembered, VerdictsArePast
  <1>4. \A w \in Writers : Deserves(w) /\ Notices(w)
    BY NoneAssumption DEF Init, SelfInit, Deserves, Notices
  <1> QED BY <1>2, <1>3, <1>4 DEF HistoryInv

\* What an inspection leaves behind.
Recent(w)    == Pruned(history[call[w].key], call[w].at)
NewRecord(w) == [nth |-> Len(log) + 1, tokens |-> call[w].tokens, at |-> call[w].at]

LEMMA InspectEffect ==
  ASSUME HistoryInv, NEW w \in Writers, Inspect(w)
  PROVE  /\ call[w] \in Call /\ ~call[w].human /\ UNCHANGED <<now, call>>
         /\ Recent(w) \subseteq history[call[w].key]
         /\ IsFiniteSet(Recent(w)) /\ NewRecord(w) \in Record
         /\ history' = [history EXCEPT ![call[w].key] = Trimmed(Recent(w) \cup {NewRecord(w)})]
         /\ log' = Append(log, call[w])
  <1>1. call[w] \in Call
    BY DEF Inspect, HistoryInv, TypeOK, SelfTypeOK
  <1>2. history[call[w].key] \in SUBSET Record /\ IsFiniteSet(history[call[w].key])
    BY <1>1 DEF Call, HistoryInv, FrameOK
  <1>3. Recent(w) \in SUBSET history[call[w].key]
    BY DEF Recent, Pruned
  <1>4. IsFiniteSet(Recent(w))
    BY <1>2, <1>3, FS_Subset
  <1>5. Len(log) \in Nat
    BY DEF HistoryInv, FrameOK
  <1>6. NewRecord(w) \in Record
    BY <1>1, <1>5 DEF NewRecord, Record, Call
  <1> QED BY <1>1, <1>3, <1>4, <1>6 DEF Inspect, Recent, NewRecord

LEMMA InspectVerdict ==
  ASSUME HistoryInv, NEW w \in Writers, Inspect(w)
  PROVE  /\ flagged' \in [Writers -> BOOLEAN \cup {None}]
         /\ \A v \in Writers \ {w} : flagged'[v] = flagged[v] /\ before'[v] = before[v]
         /\ flagged'[w] = (Cardinality(Similar(Recent(w), call[w].tokens)) >= MaxSelfWrites)
         /\ before' \in [Writers -> [arrival : Nat, verdict : Nat, clock : Nat]]
         /\ before'[w].arrival = before[w].arrival /\ before'[w].verdict = Len(log)
         /\ before'[w].clock = now
  <1>1. flagged' = [flagged EXCEPT ![w] =
          (Cardinality(Similar(Recent(w), call[w].tokens)) >= MaxSelfWrites)]
    BY DEF Inspect, Recent
  <1>2. before' = [before EXCEPT ![w] =
          [arrival |-> before[w].arrival, verdict |-> Len(log), clock |-> now]]
    BY DEF Inspect
  <1>3. Len(log) \in Nat /\ now \in Nat
    BY DEF HistoryInv, FrameOK, TypeOK, SelfTypeOK
  <1> QED BY <1>1, <1>2, <1>3 DEF HistoryInv, FrameOK, TypeOK, SelfTypeOK

LEMMA InspectTypes ==
  ASSUME HistoryInv, NEW w \in Writers, Inspect(w), UNCHANGED sizeVars
  PROVE  TypeOK' /\ FrameOK'
  <1> DEFINE k == call[w].key
             all == Recent(w) \cup {NewRecord(w)}
  <1>1. k \in Keys /\ all \subseteq Record /\ IsFiniteSet(all)
    <2>1. history[k] \subseteq Record /\ k \in Keys
      BY InspectEffect DEF Call, HistoryInv, FrameOK
    <2> QED BY <2>1, InspectEffect, FS_AddElement
  <1>2. /\ Trimmed(all) \subseteq Record /\ IsFiniteSet(Trimmed(all))
        /\ Cardinality(Trimmed(all)) <= MaxHistory
    BY <1>1, CapHolds DEF Record
  <1>3. \A j \in Keys : history'[j] = IF j = k THEN Trimmed(all) ELSE history[j]
    BY <1>1, InspectEffect DEF HistoryInv, FrameOK
  <1>5. TypeOK'
    BY <1>2, <1>3, InspectEffect, InspectVerdict DEF HistoryInv, TypeOK, SelfTypeOK, sizeVars
  <1>6. /\ history' = [history EXCEPT ![k] = Trimmed(all)]
        /\ call[w] \in Call /\ log' = Append(log, call[w])
        /\ before' \in [Writers -> [arrival : Nat, verdict : Nat, clock : Nat]]
    BY InspectEffect, InspectVerdict
  <1> HIDE DEF k, all
  <1>7. history' \in [Keys -> SUBSET Record] /\ log' \in Seq(Call)
    BY <1>1, <1>2, <1>6 DEF HistoryInv, FrameOK
  <1>8. FrameOK'
    BY <1>2, <1>3, <1>6, <1>7 DEF HistoryInv, FrameOK, sizeVars
  <1> QED BY <1>5, <1>8

\* The log grows at its end.
LEMMA LogGrows ==
  ASSUME HistoryInv, NEW w \in Writers, Inspect(w)
  PROVE  /\ Len(log) \in Nat /\ Len(log') = Len(log) + 1
         /\ DOMAIN log = 1..Len(log) /\ DOMAIN log' = 1..Len(log')
         /\ \A n \in 1..Len(log) : log'[n] = log[n]
         /\ log'[Len(log) + 1] = call[w]
  <1>1. call[w] \in Call /\ log' = Append(log, call[w])
    BY InspectEffect
  <1>2. log \in Seq(Call)
    BY DEF HistoryInv, FrameOK
  <1> QED BY <1>1, <1>2

\* What is counted for a verdict stands as the log grows.
LEMMA SetsStand ==
  ASSUME HistoryInv, NEW v \in Writers, call'[v] = call[v], before'[v] = before[v],
         \A n \in 1..Len(log) : log'[n] = log[n]
  PROVE  Supporters(v)' = Supporters(v) /\ Repeaters(v)' = Repeaters(v)
  <1>1. /\ before[v].arrival \in Nat /\ before[v].verdict \in Nat /\ Len(log) \in Nat
        /\ before[v].arrival <= Len(log) /\ before[v].verdict <= Len(log)
    BY DEF HistoryInv, FrameOK, VerdictsArePast
  <1>2. Supporters(v)' = Supporters(v)
    BY <1>1 DEF Supporters, Repeats, SameSubject
  <1>3. ASSUME NEW n \in 1..before[v].arrival
        PROVE  LaterOfSubject(v, n)' = LaterOfSubject(v, n)
    BY <1>1 DEF LaterOfSubject, SameSubject
  <1>4. ASSUME NEW n \in 1..before[v].arrival
        PROVE  Repeats(v, n)' <=> Repeats(v, n)
    BY <1>1 DEF Repeats, SameSubject
  <1>5. Repeaters(v)' = Repeaters(v)
    BY <1>1, <1>3, <1>4 DEF Repeaters
  <1> QED BY <1>2, <1>5

LEMMA VerdictStands ==
  ASSUME HistoryInv, NEW v \in Writers, call'[v] = call[v], before'[v] = before[v],
         flagged'[v] = flagged[v], \A n \in 1..Len(log) : log'[n] = log[n]
  PROVE  Deserves(v)' /\ Notices(v)'
  <1>1. Supporters(v)' = Supporters(v) /\ Repeaters(v)' = Repeaters(v)
    BY SetsStand
  <1>2. Deserves(v) /\ Notices(v)
    BY DEF HistoryInv
  <1> QED BY <1>1, <1>2 DEF Deserves, Notices

-----------------------------------------------------------------------------
\* One step at a time: the inspection.
LEMMA InspectLogs ==
  ASSUME HistoryInv, NEW w \in Writers, Inspect(w)
  PROVE  ClocksArePast' /\ HistoryIsLogged'
  <1>1. /\ call[w] \in Call /\ UNCHANGED <<now, call>> /\ now \in Nat
        /\ call[w].at <= now /\ \A v \in Writers : call[v] # None => call[v].at <= now
        /\ \A n \in DOMAIN log : log[n].at <= now
    <2>1. call[w] \in Call /\ UNCHANGED <<now, call>> /\ call[w] # None
      BY InspectEffect, NoneAssumption
    <2> QED BY <2>1 DEF HistoryInv, ClocksArePast, TypeOK, SelfTypeOK
  <1>2. ClocksArePast'
    BY <1>1, LogGrows DEF ClocksArePast
  <1>3. ASSUME NEW k \in Keys, NEW r \in history'[k]
        PROVE  r \in history[k] \/ (r = NewRecord(w) /\ k = call[w].key)
    <2>1. history' = [history EXCEPT ![call[w].key] = Trimmed(Recent(w) \cup {NewRecord(w)})]
      BY InspectEffect
    <2>2. Trimmed(Recent(w) \cup {NewRecord(w)}) \subseteq Recent(w) \cup {NewRecord(w)}
      BY DEF Trimmed
    <2>3. Recent(w) \subseteq history[call[w].key]
      BY InspectEffect
    <2>4. history \in [Keys -> SUBSET Record]
      BY DEF HistoryInv, FrameOK
    <2> QED BY <1>3, <2>1, <2>2, <2>3, <2>4
  <1>4. \A k \in Keys : \A r \in history[k] :
          r.nth \in DOMAIN log /\ log[r.nth].key = k /\ Recalls(r, r.nth)
    BY DEF HistoryInv, HistoryIsLogged
  <1>5. HistoryIsLogged'
    <2> SUFFICES ASSUME NEW k \in Keys, NEW r \in history'[k]
                 PROVE  /\ r.nth \in DOMAIN log' /\ log'[r.nth].key = k
                        /\ r.tokens = log'[r.nth].tokens /\ r.at = log'[r.nth].at
      BY DEF HistoryIsLogged, Recalls
    <2>1. CASE r \in history[k]
      BY <1>4, <2>1, LogGrows DEF Recalls
    <2>2. CASE r = NewRecord(w) /\ k = call[w].key
      BY <2>2, LogGrows DEF NewRecord
    <2> QED BY <1>3, <2>1, <2>2
  <1> QED BY <1>2, <1>5

\* What an inspection evicts has aged out, or was pushed out by newer writes.
LEMMA InspectRemembers ==
  ASSUME HistoryInv, NEW w \in Writers, Inspect(w)
  PROVE  LogIsRemembered'
  <1> DEFINE k   == call[w].key
             all == Recent(w) \cup {NewRecord(w)}
  <1>1. /\ call[w] \in Call /\ now' = now /\ now \in Nat /\ call[w].at <= now
        /\ history' = [history EXCEPT ![k] = Trimmed(all)]
        /\ history \in [Keys -> SUBSET Record] /\ k \in Keys
    <2>1. call[w] \in Call /\ UNCHANGED <<now, call>> /\ call[w] # None
      BY InspectEffect, NoneAssumption
    <2>2. history' = [history EXCEPT ![k] = Trimmed(all)]
      BY InspectEffect
    <2> QED BY <2>1, <2>2 DEF HistoryInv, ClocksArePast, TypeOK, SelfTypeOK, FrameOK, Call
  <1>2. IsFiniteSet(all)
    BY InspectEffect, FS_AddElement
  <1>3. ASSUME NEW r \in all
        PROVE  /\ r.nth \in 1..Len(log') /\ log'[r.nth].key = k
               /\ r.tokens = log'[r.nth].tokens /\ r.at = log'[r.nth].at
    <2>1. CASE r \in Recent(w)
      <3>1. r \in history[k]
        BY <2>1, InspectEffect
      <3>2. r.nth \in DOMAIN log /\ log[r.nth].key = k /\ Recalls(r, r.nth)
        BY <1>1, <3>1 DEF HistoryInv, HistoryIsLogged
      <3> QED BY <3>2, LogGrows DEF Recalls
    <2>2. CASE r = NewRecord(w)
      BY <2>2, LogGrows DEF NewRecord
    <2> QED BY <2>1, <2>2
  <1>4. ASSUME NEW n \in Nat
        PROVE  IsFiniteSet(Since(log', k, n))
    <2>1. Since(log', k, n) \in SUBSET (n..Len(log'))
      BY DEF Since
    <2>2. n \in Int /\ Len(log') \in Int
      BY LogGrows
    <2>3. IsFiniteSet(n..Len(log'))
      BY <2>2, FS_Interval
    <2> QED BY <2>1, <2>3, FS_Subset
  <1>5. ASSUME NEW r \in all, r \notin Trimmed(all)
        PROVE  Cardinality(Since(log', k, r.nth)) > MaxHistory
    <2> DEFINE f == [s \in SinceRecord(all, r) |-> s.nth]
    <2>1. f \in [SinceRecord(all, r) -> Since(log', k, r.nth)]
      BY <1>1, <1>3 DEF SinceRecord, Since
    <2>2. all \subseteq Record
      BY <1>1, InspectEffect
    <2>3. ASSUME NEW a \in SinceRecord(all, r), NEW b \in SinceRecord(all, r), f[a] = f[b]
          PROVE  a = b
      <3>1. a \in all /\ b \in all /\ a.nth = b.nth
        BY <2>3 DEF SinceRecord
      <3>2. a.tokens = b.tokens /\ a.at = b.at
        BY <1>3, <3>1
      <3> QED BY <2>2, <3>1, <3>2 DEF Record
    <2>4. r.nth \in Nat
      BY <2>2 DEF Record
    <2>5. IsFiniteSet(Since(log', k, r.nth))
      BY <1>4, <2>4
    <2> HIDE DEF f
    <2>6. Cardinality(SinceRecord(all, r)) <= Cardinality(Since(log', k, r.nth))
      BY <2>1, <2>3, <2>5, OneToOne
    <2>7. SinceRecord(all, r) \in SUBSET all
      BY DEF SinceRecord
    <2>8. /\ Cardinality(SinceRecord(all, r)) \in Nat /\ Cardinality(Since(log', k, r.nth)) \in Nat
          /\ MaxHistory \in Nat
      BY <1>2, <2>5, <2>7, FS_Subset, FS_CardinalityType, DetectorAssumption
    <2>9. ~(Cardinality(SinceRecord(all, r)) <= MaxHistory)
      BY <1>5 DEF Trimmed
    <2> QED BY <2>6, <2>8, <2>9
  <1>6. ASSUME NEW n \in DOMAIN log', log'[n].key = k, NEW r \in all, r.nth = n
        PROVE  (\E s \in history'[k] : s.nth = n) \/ Cardinality(Since(log', k, n)) > MaxHistory
    BY <1>1, <1>5, <1>6
  <1>7. ASSUME NEW n \in DOMAIN log, Cardinality(Since(log, log[n].key, n)) > MaxHistory
        PROVE  Cardinality(Since(log', log[n].key, n)) > MaxHistory
    <2> DEFINE j == log[n].key
    <2>1. Since(log, j, n) \in SUBSET Since(log', j, n) /\ n \in Nat
      BY LogGrows DEF Since
    <2>2. Since(log', j, n) \in SUBSET (n..Len(log')) /\ Len(log') \in Int
      BY LogGrows DEF Since
    <2>3. IsFiniteSet(Since(log', j, n))
      <3>1. n \in Int /\ Len(log') \in Int
        BY <2>1, <2>2
      <3>2. IsFiniteSet(n..Len(log'))
        BY <3>1, FS_Interval
      <3> QED BY <2>2, <3>2, FS_Subset
    <2>4. /\ Cardinality(Since(log, j, n)) <= Cardinality(Since(log', j, n))
          /\ Cardinality(Since(log, j, n)) \in Nat /\ Cardinality(Since(log', j, n)) \in Nat
      BY <2>1, <2>3, FS_Subset, FS_CardinalityType
    <2> QED BY <1>7, <2>4, DetectorAssumption
  <1> SUFFICES ASSUME NEW n \in DOMAIN log'
               PROVE  \/ \E r \in history'[log'[n].key] : r.nth = n
                      \/ now - log'[n].at >= Cooldown
                      \/ Cardinality(Since(log', log'[n].key, n)) > MaxHistory
    BY <1>1 DEF LogIsRemembered
  <1>8. CASE n = Len(log) + 1
    <2>1. log'[n].key = k /\ NewRecord(w) \in all /\ NewRecord(w).nth = n
      BY <1>8, LogGrows DEF NewRecord
    <2> QED BY <1>6, <2>1
  <1>9. CASE n \in DOMAIN log
    <2>1. log'[n] = log[n]
      BY <1>9, LogGrows
    <2>2. \/ \E r \in history[log[n].key] : r.nth = n
          \/ now - log[n].at >= Cooldown
          \/ Cardinality(Since(log, log[n].key, n)) > MaxHistory
      BY <1>9 DEF HistoryInv, LogIsRemembered
    <2>3. CASE \E r \in history[log[n].key] : r.nth = n
      <3>1. PICK r \in history[log[n].key] : r.nth = n
        BY <2>3
      <3>2. log[n] \in Call
        BY <1>9, LogGrows DEF HistoryInv, FrameOK
      <3>3. r.at = log[n].at
        BY <3>1, <3>2 DEF HistoryInv, HistoryIsLogged, Recalls, Call
      <3>4. CASE log[n].key # k
        BY <1>1, <2>1, <3>1, <3>2, <3>4 DEF Call
      <3>5. CASE log[n].key = k /\ r \in Recent(w)
        BY <1>6, <2>1, <3>1, <3>5
      <3>6. CASE log[n].key = k /\ r \notin Recent(w)
        <4>1. ~(call[w].at - r.at < Cooldown)
          BY <3>1, <3>6 DEF Recent, Pruned
        <4> QED BY <1>1, <2>1, <3>2, <3>3, <4>1, DetectorAssumption DEF Call
      <3> QED BY <3>4, <3>5, <3>6
    <2> QED BY <1>7, <1>9, <2>1, <2>2, <2>3
  <1> QED BY <1>8, <1>9, LogGrows

\* The verdict: the similar records are supporters, and every repeater is one of them.
LEMMA InspectJudges ==
  ASSUME HistoryInv, NEW w \in Writers, Inspect(w)
  PROVE  Deserves(w)' /\ Notices(w)'
  <1> DEFINE k == call[w].key
             S == Similar(Recent(w), call[w].tokens)
             Recalled(n) == [nth |-> n, tokens |-> log[n].tokens, at |-> log[n].at]
  <1>1. /\ call[w] \in Call /\ UNCHANGED <<now, call>> /\ now \in Nat
        /\ call[w].at <= now /\ k \in Keys
    <2>1. call[w] \in Call /\ UNCHANGED <<now, call>> /\ call[w] # None
      BY InspectEffect, NoneAssumption
    <2> QED BY <2>1 DEF HistoryInv, ClocksArePast, TypeOK, SelfTypeOK, Call
  <1>2. /\ flagged'[w] = (Cardinality(S) >= MaxSelfWrites)
        /\ before'[w].arrival = before[w].arrival /\ before'[w].verdict = Len(log)
        /\ before'[w].clock = now
    BY InspectVerdict
  <1>3. /\ before[w].arrival \in Nat /\ before[w].arrival <= Len(log) /\ Len(log) \in Nat
        /\ DOMAIN log = 1..Len(log) /\ \A n \in 1..Len(log) : log'[n] = log[n] /\ log[n] \in Call
    <2>1. \A n \in 1..Len(log) : log'[n] = log[n]
      BY LogGrows
    <2> QED BY <2>1 DEF HistoryInv, FrameOK, VerdictsArePast
  <1>4. IsFiniteSet(S) /\ Cardinality(S) \in Nat
    <2>1. IsFiniteSet(Recent(w))
      BY InspectEffect
    <2>2. S \in SUBSET Recent(w)
      BY DEF Similar
    <2>3. IsFiniteSet(S)
      BY <2>1, <2>2, FS_Subset
    <2> QED BY <2>3, FS_CardinalityType
  <1>5. /\ IsFiniteSet(Supporters(w)') /\ Cardinality(Supporters(w)') \in Nat
        /\ IsFiniteSet(Repeaters(w)') /\ Cardinality(Repeaters(w)') \in Nat
    <2>1. Supporters(w)' \in SUBSET (1..Len(log)) /\ Repeaters(w)' \in SUBSET (1..Len(log))
      BY <1>2, <1>3 DEF Supporters, Repeaters
    <2>2. IsFiniteSet(1..Len(log))
      BY <1>3, FS_Interval
    <2>3. IsFiniteSet(Supporters(w)') /\ IsFiniteSet(Repeaters(w)')
      BY <2>1, <2>2, FS_Subset
    <2> QED BY <2>3, FS_CardinalityType
  <1>6. ASSUME NEW r \in S
        PROVE  /\ r.nth \in 1..Len(log) /\ log[r.nth].key = k /\ r = Recalled(r.nth)
               /\ NearDuplicate(call[w].tokens, r.tokens) /\ call[w].at - r.at < Cooldown
    <2>1. r \in Recent(w) /\ NearDuplicate(call[w].tokens, r.tokens)
      BY DEF Similar
    <2>2. call[w].at - r.at < Cooldown
      BY <2>1 DEF Recent, Pruned
    <2>3. r \in history[k] /\ history[k] \subseteq Record
      BY <1>1, <2>1, InspectEffect DEF HistoryInv, FrameOK
    <2>4. r.nth \in DOMAIN log /\ log[r.nth].key = k /\ Recalls(r, r.nth)
      BY <1>1, <2>3 DEF HistoryInv, HistoryIsLogged
    <2> QED BY <1>3, <2>1, <2>2, <2>3, <2>4 DEF Recalls, Record
  <1>7. Cardinality(S) <= Cardinality(Supporters(w)')
    <2> DEFINE f == [r \in S |-> r.nth]
    <2>1. ASSUME NEW r \in S PROVE r.nth \in Supporters(w)'
      <3>1. Repeats(w, r.nth)'
        BY <1>1, <1>3, <1>6 DEF Repeats, SameSubject
      <3>2. call'[w].at - log'[r.nth].at < Cooldown
        BY <1>1, <1>3, <1>6
      <3> QED BY <1>2, <1>6, <3>1, <3>2 DEF Supporters
    <2>2. f \in [S -> Supporters(w)']
      BY <2>1
    <2>3. ASSUME NEW a \in S, NEW b \in S, f[a] = f[b] PROVE a = b
      BY <1>6, <2>3
    <2> HIDE DEF f
    <2> QED BY <1>5, <2>2, <2>3, OneToOne
  <1>8. Cardinality(Repeaters(w)') <= Cardinality(S)
    <2> DEFINE g == [n \in Repeaters(w)' |-> Recalled(n)]
    <2>1. ASSUME NEW n \in Repeaters(w)' PROVE Recalled(n) \in S
      <3>1. /\ n \in 1..Len(log) /\ log[n].key = k
            /\ NearDuplicate(call[w].tokens, log[n].tokens)
            /\ now - log[n].at < Cooldown
        BY <1>1, <1>2, <1>3 DEF Repeaters, Repeats, SameSubject
      <3>2. LaterOfSubject(w, n)' = Since(log, k, n)
        BY <1>1, <1>2, <1>3, <3>1 DEF LaterOfSubject, SameSubject, Since
      <3>3. Cardinality(LaterOfSubject(w, n)') <= MaxHistory
        BY DEF Repeaters
      <3>4. /\ IsFiniteSet(Since(log, k, n)) /\ Cardinality(Since(log, k, n)) \in Nat
        <4>1. Since(log, k, n) \in SUBSET (1..Len(log))
          BY <1>3, <3>1 DEF Since
        <4>2. IsFiniteSet(1..Len(log))
          BY <1>3, FS_Interval
        <4>3. IsFiniteSet(Since(log, k, n))
          BY <4>1, <4>2, FS_Subset
        <4> QED BY <4>3, FS_CardinalityType
      <3>5. ~(Cardinality(Since(log, k, n)) > MaxHistory)
        BY <3>2, <3>3, <3>4, DetectorAssumption
      <3>6. ~(now - log[n].at >= Cooldown)
        BY <1>1, <1>3, <3>1, DetectorAssumption DEF Call
      <3>7. PICK r \in history[k] : r.nth = n
        BY <1>3, <3>1, <3>5, <3>6 DEF HistoryInv, LogIsRemembered
      <3>8. r \in Record /\ Recalls(r, n)
        BY <1>1, <3>7 DEF HistoryInv, FrameOK, HistoryIsLogged
      <3>9. r = Recalled(n)
        BY <3>8 DEF Record, Recalls
      <3>10. call[w].at - r.at < Cooldown
        BY <1>1, <1>3, <3>1, <3>9, DetectorAssumption DEF Call
      <3>11. r \in Recent(w)
        BY <3>7, <3>10 DEF Recent, Pruned
      <3> QED BY <3>1, <3>9, <3>11 DEF Similar
    <2>2. g \in [Repeaters(w)' -> S]
      BY <2>1
    <2>3. ASSUME NEW a \in Repeaters(w)', NEW b \in Repeaters(w)', g[a] = g[b] PROVE a = b
      BY <2>3
    <2> HIDE DEF g
    <2> QED BY <1>4, <2>2, <2>3, OneToOne
  <1> HIDE DEF S
  <1>9. Deserves(w)'
    <2> SUFFICES ASSUME flagged'[w] = TRUE PROVE MaxSelfWrites <= Cardinality(Supporters(w)')
      BY DEF Deserves
    <2>1. Cardinality(S) >= MaxSelfWrites
      BY <1>2, Zenon
    <2> QED BY <1>4, <1>5, <1>7, <2>1, DetectorAssumption
  <1>10. Notices(w)'
    <2> SUFFICES ASSUME flagged'[w] = FALSE PROVE MaxSelfWrites > Cardinality(Repeaters(w)')
      BY DEF Notices
    <2>1. ~(Cardinality(S) >= MaxSelfWrites)
      BY <1>2, Zenon
    <2> QED BY <1>4, <1>5, <1>8, <2>1, DetectorAssumption
  <1> QED BY <1>9, <1>10

LEMMA InspectHistory ==
  ASSUME HistoryInv, NEW w \in Writers, Inspect(w), UNCHANGED sizeVars
  PROVE  HistoryInv'
  <1>1. /\ \A n \in 1..Len(log) : log'[n] = log[n]
        /\ Len(log) \in Nat /\ Len(log') = Len(log) + 1
    BY LogGrows
  <1>2. ASSUME NEW v \in Writers PROVE Deserves(v)' /\ Notices(v)'
    <2>1. CASE v = w
      BY <2>1, InspectJudges
    <2>2. CASE v # w
      <3>1. call'[v] = call[v] /\ flagged'[v] = flagged[v] /\ before'[v] = before[v]
        BY <2>2, InspectEffect, InspectVerdict
      <3> QED BY <1>1, <3>1, VerdictStands
    <2> QED BY <2>1, <2>2
  <1>3. ASSUME NEW v \in Writers
        PROVE  /\ call'[v] = None => flagged'[v] = None
               /\ before'[v].arrival <= Len(log') /\ before'[v].verdict <= Len(log')
    <2>1. /\ call[v] = None => flagged[v] = None
          /\ before[v].arrival <= Len(log) /\ before[v].verdict <= Len(log)
          /\ before[v].arrival \in Nat /\ before[v].verdict \in Nat
      BY DEF HistoryInv, VerdictsArePast, FrameOK
    <2>2. call' = call /\ call[w] # None
      BY InspectEffect, NoneAssumption
    <2>3. CASE v = w
      <3>1. before'[v].arrival = before[v].arrival /\ before'[v].verdict = Len(log)
        BY <2>3, InspectVerdict
      <3> QED BY <1>1, <2>1, <2>2, <2>3, <3>1
    <2>4. CASE v # w
      <3>1. flagged'[v] = flagged[v] /\ before'[v] = before[v]
        BY <2>4, InspectVerdict
      <3> QED BY <1>1, <2>1, <2>2, <3>1
    <2> QED BY <2>3, <2>4
  <1>4. VerdictsArePast'
    BY <1>3 DEF VerdictsArePast
  <1> QED BY <1>2, <1>4, InspectTypes, InspectLogs, InspectRemembers DEF HistoryInv

-----------------------------------------------------------------------------
\* The steps that record nothing.
LEMMA LogTyped ==
  ASSUME HistoryInv
  PROVE  \A n \in DOMAIN log : log[n] \in Call
  <1>1. log \in Seq(Call)
    BY DEF HistoryInv, FrameOK
  <1> QED BY <1>1

LEMMA NothingRecorded ==
  ASSUME HistoryInv, UNCHANGED <<history, log>>, now' \in Nat, now <= now'
  PROVE  HistoryIsLogged' /\ LogIsRemembered'
  <1>1. HistoryIsLogged'
    BY DEF HistoryInv, HistoryIsLogged, Recalls
  <1>2. \A n \in DOMAIN log : log[n].at \in Int
    BY LogTyped DEF Call
  <1>3. LogIsRemembered'
    BY <1>2, DetectorAssumption DEF HistoryInv, LogIsRemembered, TypeOK, SelfTypeOK
  <1> QED BY <1>1, <1>3

LEMMA TickHistory ==
  ASSUME HistoryInv, Tick, UNCHANGED sizeVars
  PROVE  HistoryInv'
  <1>1. now \in Nat /\ now' = now + 1 /\ UNCHANGED <<call, history, flagged, log, before>>
    BY DEF Tick, HistoryInv, TypeOK, SelfTypeOK
  <1>2. TypeOK' /\ FrameOK'
    BY <1>1 DEF HistoryInv, TypeOK, SelfTypeOK, FrameOK, sizeVars
  <1>3. ClocksArePast' /\ VerdictsArePast'
    <2>1. \A w \in Writers : call[w] # None => call[w].at \in Int
      BY DEF HistoryInv, TypeOK, SelfTypeOK, Call
    <2>2. \A n \in DOMAIN log : log[n].at \in Int
      BY LogTyped DEF Call
    <2> QED BY <1>1, <2>1, <2>2 DEF HistoryInv, ClocksArePast, VerdictsArePast
  <1>4. \A w \in Writers : Deserves(w)' /\ Notices(w)'
    BY <1>1, VerdictStands
  <1> QED BY <1>1, <1>2, <1>3, <1>4, NothingRecorded DEF HistoryInv

LEMMA ArriveHistory ==
  ASSUME HistoryInv, NEW w \in Writers, Arrive(w), UNCHANGED sizeVars
  PROVE  HistoryInv'
  <1>1. /\ call[w] = None /\ flagged[w] = None /\ UNCHANGED <<now, history, flagged, log>>
        /\ Len(log) \in Nat /\ now \in Nat
    BY DEF Arrive, HistoryInv, VerdictsArePast, FrameOK, TypeOK, SelfTypeOK
  <1>2. PICK c \in Call : c.at = now /\ call' = [call EXCEPT ![w] = c]
    <2>1. PICK k \in Keys, i \in Writes : call' = [call EXCEPT ![w] =
            [key |-> k, tokens |-> i.tokens, human |-> i.human, at |-> now]]
      BY DEF Arrive
    <2>2. [key |-> k, tokens |-> i.tokens, human |-> i.human, at |-> now] \in Call
      BY <1>1, DetectorAssumption DEF Call
    <2> QED BY <2>1, <2>2
  <1>3. /\ before' \in [Writers -> [arrival : Nat, verdict : Nat, clock : Nat]]
        /\ before'[w].arrival = Len(log) /\ before'[w].verdict = before[w].verdict
        /\ \A v \in Writers \ {w} : before'[v] = before[v]
    BY <1>1 DEF Arrive, HistoryInv, FrameOK
  <1>4. TypeOK' /\ FrameOK'
    BY <1>1, <1>2, <1>3 DEF HistoryInv, TypeOK, SelfTypeOK, FrameOK, sizeVars
  <1>5. ClocksArePast'
    BY <1>1, <1>2 DEF HistoryInv, ClocksArePast, TypeOK, SelfTypeOK
  <1>6. VerdictsArePast'
    <2> SUFFICES ASSUME NEW v \in Writers
                 PROVE  /\ call'[v] = None => flagged'[v] = None
                        /\ before'[v].arrival <= Len(log) /\ before'[v].verdict <= Len(log)
      BY <1>1 DEF VerdictsArePast
    <2>1. /\ call[v] = None => flagged[v] = None
          /\ before[v].arrival <= Len(log) /\ before[v].verdict <= Len(log)
      BY DEF HistoryInv, VerdictsArePast
    <2>2. CASE v = w
      BY <1>1, <1>3, <2>1, <2>2
    <2>3. CASE v # w
      <3>1. before'[v] = before[v]
        BY <1>3, <2>3
      <3>2. call'[v] = call[v]
        BY <1>2, <2>3 DEF HistoryInv, TypeOK, SelfTypeOK
      <3> QED BY <1>1, <2>1, <3>1, <3>2
    <2> QED BY <2>2, <2>3
  <1>7. ASSUME NEW v \in Writers PROVE Deserves(v)' /\ Notices(v)'
    <2>1. CASE v = w
      BY <1>1, <2>1, NoneAssumption DEF Deserves, Notices
    <2>2. CASE v # w
      <3>1. call'[v] = call[v] /\ before'[v] = before[v] /\ flagged'[v] = flagged[v]
        BY <1>1, <1>2, <1>3, <2>2 DEF HistoryInv, TypeOK, SelfTypeOK
      <3> QED BY <1>1, <3>1, VerdictStands
    <2> QED BY <2>1, <2>2
  <1> QED BY <1>1, <1>4, <1>5, <1>6, <1>7, NothingRecorded DEF HistoryInv

LEMMA SkipHistory ==
  ASSUME HistoryInv, NEW w \in Writers, Skip(w), UNCHANGED sizeVars
  PROVE  HistoryInv'
  <1>1. /\ call[w] # None /\ call[w].human
        /\ flagged' = [flagged EXCEPT ![w] = FALSE]
        /\ UNCHANGED <<now, call, history, log, before>> /\ now \in Nat
    BY DEF Skip, HistoryInv, TypeOK, SelfTypeOK
  <1>2. TypeOK' /\ FrameOK'
    BY <1>1 DEF HistoryInv, TypeOK, SelfTypeOK, FrameOK, sizeVars
  <1>3. ClocksArePast' /\ VerdictsArePast'
    BY <1>1 DEF HistoryInv, ClocksArePast, VerdictsArePast, TypeOK, SelfTypeOK
  <1>4. ASSUME NEW v \in Writers PROVE Deserves(v)' /\ Notices(v)'
    <2>1. CASE v = w
      <3>1. flagged'[v] = FALSE /\ call'[v].human
        BY <1>1, <2>1 DEF HistoryInv, TypeOK, SelfTypeOK
      <3> QED BY <3>1 DEF Deserves, Notices
    <2>2. CASE v # w
      <3>1. flagged'[v] = flagged[v]
        BY <1>1, <2>2 DEF HistoryInv, TypeOK, SelfTypeOK
      <3> QED BY <1>1, <3>1, VerdictStands
    <2> QED BY <2>1, <2>2
  <1> QED BY <1>1, <1>2, <1>3, <1>4, NothingRecorded DEF HistoryInv

\* The second inspector touches nothing of the first; its window is cut to size.
LEMMA MeasureHistory ==
  ASSUME HistoryInv, NEW w \in Writers, Measure(w)
  PROVE  HistoryInv'
  <1>1. UNCHANGED <<now, call, history, flagged, arrivals, log, before>>
    BY DEF Measure, selfVars
  <1>2. call[w] \in Call /\ call[w].key \in Keys /\ SizeOf[call[w].tokens] \in Nat
    <2>1. call[w] \in Call
      BY NoneAssumption DEF Measure, HistoryInv, VerdictsArePast, TypeOK, SelfTypeOK
    <2> QED BY <2>1, SizeAssumption DEF Call
  <1>3. PICK flag \in BOOLEAN : /\ Size!Inspect(call[w].key, SizeOf[call[w].tokens], flag)
                                /\ outlier' = [outlier EXCEPT ![w] = flag]
    BY DEF Measure
  <1>4. outlier' \in [Writers -> BOOLEAN \cup {None}]
    BY <1>3 DEF HistoryInv, TypeOK
  <1>5. sizes' \in [Keys -> Seq(Nat)]
    BY <1>2 DEF Measure, HistoryInv, FrameOK
  <1> DEFINE k == call[w].key
             longer == Append(buffers[k], SizeOf[call[w].tokens])
  <1>6. longer \in Seq(Nat)
    BY <1>2 DEF HistoryInv, FrameOK
  <1> HIDE DEF longer
  <1>7. Size!Latest(longer) \in Seq(Nat) /\ Len(Size!Latest(longer)) <= Size!WindowSize
    BY <1>6, SizeAssumption DEF Size!Latest, Size!WindowSize
  <1>8. buffers' = [buffers EXCEPT ![k] = Size!Latest(longer)]
    BY <1>3 DEF Size!Inspect, longer
  <1>9. /\ buffers' \in [Keys -> Seq(Nat)]
        /\ \A j \in Keys : Len(buffers'[j]) <= Size!WindowSize
    BY <1>2, <1>7, <1>8 DEF HistoryInv, FrameOK, TypeOK
  <1>10. TypeOK' /\ FrameOK'
    BY <1>1, <1>4, <1>5, <1>9 DEF HistoryInv, TypeOK, SelfTypeOK, FrameOK, Size!WindowSize
  <1>11. /\ now \in Nat /\ \A v \in Writers : Deserves(v)' /\ Notices(v)'
    BY <1>1, VerdictStands DEF HistoryInv, TypeOK, SelfTypeOK
  <1>12. ClocksArePast' /\ VerdictsArePast'
    BY <1>1 DEF HistoryInv, ClocksArePast, VerdictsArePast
  <1> QED BY <1>1, <1>10, <1>11, <1>12, NothingRecorded DEF HistoryInv

LEMMA ReturnHistory ==
  ASSUME HistoryInv, NEW w \in Writers, ReturnUnion(w)
  PROVE  HistoryInv'
  <1>1. /\ call' = [call EXCEPT ![w] = None] /\ flagged' = [flagged EXCEPT ![w] = None]
        /\ before' = [before EXCEPT ![w] = Unset] /\ outlier' = [outlier EXCEPT ![w] = None]
        /\ UNCHANGED <<now, history, log, buffers, sizes>> /\ now \in Nat /\ Len(log) \in Nat
    BY DEF ReturnUnion, Return, HistoryInv, TypeOK, SelfTypeOK, FrameOK
  <1>2. Unset \in [arrival : Nat, verdict : Nat, clock : Nat] /\ Unset.arrival = 0 /\ Unset.verdict = 0
    BY DEF Unset
  <1>3. TypeOK' /\ FrameOK'
    BY <1>1, <1>2 DEF HistoryInv, TypeOK, SelfTypeOK, FrameOK, Size!WindowSize
  <1>4. ASSUME NEW v \in Writers
        PROVE  \/ call'[v] = None /\ flagged'[v] = None /\ before'[v] = Unset
               \/ call'[v] = call[v] /\ flagged'[v] = flagged[v] /\ before'[v] = before[v]
    BY <1>1 DEF HistoryInv, TypeOK, SelfTypeOK, FrameOK
  <1>5. ClocksArePast'
    BY <1>1, <1>4 DEF HistoryInv, ClocksArePast
  <1>6. VerdictsArePast'
    BY <1>1, <1>2, <1>4 DEF HistoryInv, VerdictsArePast
  <1>7. ASSUME NEW v \in Writers PROVE Deserves(v)' /\ Notices(v)'
    <2>1. CASE flagged'[v] = None
      BY <2>1, NoneAssumption DEF Deserves, Notices
    <2>2. CASE call'[v] = call[v] /\ flagged'[v] = flagged[v] /\ before'[v] = before[v]
      BY <1>1, <2>2, VerdictStands
    <2> QED BY <1>4, <2>1, <2>2
  <1> QED BY <1>1, <1>3, <1>5, <1>6, <1>7, NothingRecorded DEF HistoryInv

LEMMA StutterHistory ==
  ASSUME HistoryInv, UNCHANGED vars
  PROVE  HistoryInv'
  <1>1. UNCHANGED <<now, call, history, flagged, log, before, buffers, sizes, outlier>> /\ now \in Nat
    BY DEF vars, selfVars, sizeVars, HistoryInv, TypeOK, SelfTypeOK
  <1>2. TypeOK' /\ FrameOK' /\ ClocksArePast' /\ VerdictsArePast'
    BY <1>1 DEF HistoryInv, TypeOK, SelfTypeOK, FrameOK, ClocksArePast, VerdictsArePast,
                Size!WindowSize
  <1>3. \A v \in Writers : Deserves(v)' /\ Notices(v)'
    BY <1>1, VerdictStands
  <1> QED BY <1>1, <1>2, <1>3, NothingRecorded DEF HistoryInv

-----------------------------------------------------------------------------
LEMMA NextHistory == HistoryInv /\ [Next]_vars => HistoryInv'
  <1> SUFFICES ASSUME HistoryInv, [Next]_vars PROVE HistoryInv'
    OBVIOUS
  <1>1. CASE Tick /\ UNCHANGED sizeVars
    BY <1>1, TickHistory
  <1>2. ASSUME NEW w \in Writers, Arrive(w), UNCHANGED sizeVars PROVE HistoryInv'
    BY <1>2, ArriveHistory
  <1>3. ASSUME NEW w \in Writers, Skip(w), UNCHANGED sizeVars PROVE HistoryInv'
    BY <1>3, SkipHistory
  <1>4. ASSUME NEW w \in Writers, Inspect(w), UNCHANGED sizeVars PROVE HistoryInv'
    BY <1>4, InspectHistory
  <1>5. ASSUME NEW w \in Writers, Measure(w) PROVE HistoryInv'
    BY <1>5, MeasureHistory
  <1>6. ASSUME NEW w \in Writers, ReturnUnion(w) PROVE HistoryInv'
    BY <1>6, ReturnHistory
  <1>7. CASE Quiescent \/ UNCHANGED vars
    BY <1>7, StutterHistory DEF Quiescent
  <1> QED BY <1>1, <1>2, <1>3, <1>4, <1>5, <1>6, <1>7 DEF Next

LEMMA HistoryIsKept == Spec => []HistoryInv
  BY InitHistory, NextHistory, PTL DEF Spec

-----------------------------------------------------------------------------
(***************************************************************************)
(* The second inspector: its ring of a key is the end of all the sizes of  *)
(* that key, whatever order concurrent writes took the two locks in.       *)
(***************************************************************************)
LEMMA PrefixStands ==
  ASSUME NEW s \in Seq(Nat), NEW x \in Nat, NEW p \in 1..Len(s)
  PROVE  SubSeq(Append(s, x), 1, p) = SubSeq(s, 1, p)
  <1>1. Append(s, x) \in Seq(Nat) /\ Len(Append(s, x)) = Len(s) + 1
    OBVIOUS
  <1>2. \A i \in 1..p : Append(s, x)[i] = s[i]
    OBVIOUS
  <1> QED BY <1>1, <1>2

LEMMA WholePrefix ==
  ASSUME NEW s \in Seq(Nat)
  PROVE  SubSeq(s, 1, Len(s)) = s
  OBVIOUS

LEMMA RingKeepsTheEnd ==
  ASSUME NEW s \in Seq(Nat), NEW x \in Nat
  PROVE  Size!Latest(Append(Size!Latest(s), x)) = Size!Latest(Append(s, x))
  <1> DEFINE W == Size!WindowSize
  <1>1. W \in Nat \ {0}
    BY SizeAssumption DEF Size!WindowSize
  <1> HIDE DEF W
  <1>2. CASE Len(s) <= W
    BY <1>1, <1>2 DEF Size!Latest, W
  <1>3. CASE Len(s) > W
    <2> DEFINE end   == SubSeq(s, Len(s) - W + 1, Len(s))
               left  == SubSeq(Append(end, x), 2, W + 1)
               right == SubSeq(Append(s, x), Len(s) - W + 2, Len(s) + 1)
    <2>1. end \in Seq(Nat) /\ Len(end) = W /\ \A i \in 1..W : end[i] = s[Len(s) - W + i]
      BY <1>1, <1>3
    <2>2. Size!Latest(s) = end
      BY <1>3 DEF Size!Latest, W
    <2> HIDE DEF end
    <2>3. Size!Latest(Append(end, x)) = left
      <3>1. Len(Append(end, x)) = W + 1 /\ W + 1 > W /\ (W + 1) - W + 1 = 2
        BY <1>1, <2>1
      <3> QED BY <3>1 DEF Size!Latest, W
    <2>4. Size!Latest(Append(s, x)) = right
      <3>1. /\ Len(Append(s, x)) = Len(s) + 1 /\ Len(s) + 1 > W
            /\ (Len(s) + 1) - W + 1 = Len(s) - W + 2
        BY <1>1, <1>3
      <3> QED BY <3>1 DEF Size!Latest, W
    <2>5. /\ left \in Seq(Nat) /\ Len(left) = W
          /\ \A i \in 1..W : left[i] = IF i = W THEN x ELSE s[Len(s) - W + 1 + i]
      BY <1>1, <1>3, <2>1
    <2>6. /\ right \in Seq(Nat) /\ Len(right) = W
          /\ \A i \in 1..W : right[i] = IF i = W THEN x ELSE s[Len(s) - W + 1 + i]
      BY <1>1, <1>3
    <2> HIDE DEF left, right
    <2>7. left = right
      BY <1>1, <2>5, <2>6
    <2> QED BY <2>2, <2>3, <2>4, <2>7
  <1> QED BY <1>1, <1>2, <1>3

LEMMA BeforeTheLast ==
  ASSUME NEW s \in Seq(Nat), NEW x \in Nat
  PROVE  Size!Before(Append(s, x)) = Size!Latest(s) /\ Size!Last(Append(s, x)) = x
  <1>1. Size!Front(Append(s, x)) = s
    BY DEF Size!Front
  <1>2. Size!WindowSize \in Nat \ {0}
    BY SizeAssumption DEF Size!WindowSize
  <1>3. Size!Before(Append(s, x)) = Size!Latest(s)
    BY <1>1, <1>2, WholePrefix DEF Size!Before, Size!Latest
  <1>4. Size!Last(Append(s, x)) = x
    BY DEF Size!Last
  <1> QED BY <1>3, <1>4

Measured(w) == SubSeq(sizes[call[w].key], 1, place[w])

\* What a verdict is measured against: the latest WindowSize sizes before its own.
JudgedByWindow(w) ==
    LET xs == Measured(w) IN
    /\ Size!Last(xs) = SizeOf[call[w].tokens]
    /\ outlier[w] = (/\ Len(Size!Before(xs)) >= Size!MinSamples
                     /\ Size!Deviates(Size!Last(xs), Size!Before(xs)))

VerdictOfItsWindow == \A w \in Writers : outlier[w] # None => JudgedByWindow(w)

RingInv ==
    /\ HistoryInv
    /\ place \in [Writers -> Nat]
    /\ \A k \in Keys : buffers[k] = Size!Latest(sizes[k])
    /\ \A w \in Writers : outlier[w] # None =>
          /\ flagged[w] # None /\ call[w] # None
          /\ place[w] \in 1..Len(sizes[call[w].key])
    /\ VerdictOfItsWindow

\* A verdict stands while its call and the sizes up to it do.
LEMMA MeasuredStands ==
  ASSUME NEW w \in Writers, call'[w] = call[w], outlier'[w] = outlier[w],
         Measured(w)' = Measured(w), JudgedByWindow(w)
  PROVE  JudgedByWindow(w)'
  BY DEF JudgedByWindow, Size!Before, Size!Deviates, Size!MinSamples, Size!WindowSize

LEMMA InitRing == Init => RingInv
  <1> SUFFICES ASSUME Init PROVE RingInv
    OBVIOUS
  <1>1. \A k \in Keys : Size!Latest(<<>>) = <<>>
    BY SizeAssumption DEF Size!Latest, Size!WindowSize
  <1> QED BY <1>1, InitHistory DEF Init, Size!Init, RingInv, VerdictOfItsWindow

\* A step of the first inspector, of the clock, or of nobody.
LEMMA OtherStepsRing ==
  ASSUME RingInv, HistoryInv', UNCHANGED sizeVars,
         \A w \in Writers : flagged[w] # None => flagged'[w] # None /\ call'[w] = call[w]
  PROVE  RingInv'
  <1>1. place' = place /\ sizes' = sizes /\ buffers' = buffers /\ outlier' = outlier
    BY DEF sizeVars
  <1>2. \A k \in Keys : buffers'[k] = Size!Latest(sizes'[k])
    BY <1>1 DEF RingInv
  <1>3. ASSUME NEW w \in Writers, outlier'[w] # None
        PROVE  /\ flagged'[w] # None /\ call'[w] # None
               /\ place'[w] \in 1..Len(sizes'[call'[w].key]) /\ JudgedByWindow(w)'
    <2>1. /\ flagged[w] # None /\ call[w] # None /\ JudgedByWindow(w)
          /\ place[w] \in 1..Len(sizes[call[w].key])
      BY <1>1, <1>3 DEF RingInv, VerdictOfItsWindow
    <2>2. call'[w] = call[w] /\ flagged'[w] # None
      BY <2>1
    <2>3. Measured(w)' = Measured(w)
      BY <1>1, <2>2 DEF Measured
    <2> QED BY <1>1, <2>1, <2>2, <2>3, MeasuredStands
  <1>4. VerdictOfItsWindow'
    BY <1>3 DEF VerdictOfItsWindow
  <1> QED BY <1>1, <1>2, <1>3, <1>4 DEF RingInv

LEMMA MeasureRing ==
  ASSUME RingInv, HistoryInv', NEW w \in Writers, Measure(w)
  PROVE  RingInv'
  <1> DEFINE k == call[w].key
             size == SizeOf[call[w].tokens]
  <1>1. /\ UNCHANGED <<call, flagged>> /\ flagged[w] # None /\ outlier[w] = None
        /\ sizes' = [sizes EXCEPT ![k] = Append(sizes[k], size)]
        /\ place' = [place EXCEPT ![w] = Len(sizes[k]) + 1]
    BY DEF Measure, selfVars
  <1>2. call[w] # None /\ k \in Keys /\ size \in Nat
    <2>1. call[w] # None /\ call[w] \in Call
      BY <1>1 DEF RingInv, HistoryInv, VerdictsArePast, TypeOK, SelfTypeOK
    <2> QED BY <2>1, SizeAssumption DEF Call
  <1>3. PICK flag \in BOOLEAN : Size!Inspect(k, size, flag) /\ outlier' = [outlier EXCEPT ![w] = flag]
    BY DEF Measure
  <1>4. /\ sizes \in [Keys -> Seq(Nat)] /\ buffers \in [Keys -> Seq(Nat)]
        /\ place \in [Writers -> Nat] /\ outlier \in [Writers -> BOOLEAN \cup {None}]
    BY DEF RingInv, HistoryInv, FrameOK, TypeOK
  <1>5. /\ buffers[k] = Size!Latest(sizes[k]) /\ sizes[k] \in Seq(Nat)
        /\ buffers' = [buffers EXCEPT ![k] = Size!Latest(Append(buffers[k], size))]
        /\ flag = (/\ Len(buffers[k]) >= Size!MinSamples
                   /\ Size!Deviates(size, buffers[k]))
    BY <1>2, <1>3, <1>4 DEF RingInv, Size!Inspect
  <1> HIDE DEF k, size
  <1>6. ASSUME NEW j \in Keys PROVE buffers'[j] = Size!Latest(sizes'[j])
    <2>1. CASE j = k
      <3>1. buffers'[j] = Size!Latest(Append(Size!Latest(sizes[k]), size))
        BY <1>2, <1>4, <1>5, <2>1
      <3>2. sizes'[j] = Append(sizes[k], size)
        BY <1>1, <1>2, <1>4, <2>1
      <3> QED BY <1>2, <1>5, <3>1, <3>2, RingKeepsTheEnd
    <2>2. CASE j # k
      BY <1>1, <1>4, <1>5, <2>2 DEF RingInv
    <2> QED BY <2>1, <2>2
  <1>7. place' \in [Writers -> Nat]
    BY <1>1, <1>4, <1>5
  <1>8. /\ place'[w] = Len(sizes[k]) + 1 /\ sizes'[k] = Append(sizes[k], size)
        /\ outlier'[w] = flag /\ Len(sizes'[k]) = Len(sizes[k]) + 1
    BY <1>1, <1>2, <1>3, <1>4, <1>5
  <1>9. JudgedByWindow(w)'
    <2>1. Append(sizes[k], size) \in Seq(Nat)
      BY <1>2, <1>5
    <2>2. SubSeq(Append(sizes[k], size), 1, Len(sizes[k]) + 1) = Append(sizes[k], size)
      BY <1>8, <2>1, WholePrefix
    <2>3. Measured(w)' = Append(sizes[k], size)
      BY <1>1, <1>8, <2>2 DEF Measured, k
    <2>4. /\ Size!Before(Measured(w)') = buffers[k] /\ Size!Last(Measured(w)') = size
      BY <1>2, <1>5, <2>3, BeforeTheLast
    <2>5. size = SizeOf[call'[w].tokens]
      BY <1>1 DEF size
    <2> QED BY <1>5, <1>8, <2>4, <2>5
        DEF JudgedByWindow, Size!Before, Size!Deviates, Size!MinSamples, Size!WindowSize
  <1>10. ASSUME NEW v \in Writers, outlier'[v] # None, v # w
         PROVE  /\ flagged'[v] # None /\ call'[v] # None
                /\ place'[v] \in 1..Len(sizes'[call'[v].key]) /\ JudgedByWindow(v)'
    <2> DEFINE j == call[v].key
               p == place[v]
    <2>1. outlier'[v] = outlier[v] /\ place'[v] = place[v] /\ call'[v] = call[v]
      BY <1>1, <1>3, <1>4, <1>10
    <2>2. flagged[v] # None /\ call[v] # None /\ JudgedByWindow(v) /\ p \in 1..Len(sizes[j])
      BY <1>10, <2>1 DEF RingInv, VerdictOfItsWindow
    <2>3. j \in Keys
      BY <2>2 DEF RingInv, HistoryInv, TypeOK, SelfTypeOK, Call
    <2>4. /\ SubSeq(sizes'[j], 1, p) = SubSeq(sizes[j], 1, p)
          /\ p \in 1..Len(sizes'[j])
      <3>1. CASE j = k
        BY <1>2, <1>5, <1>8, <2>2, <3>1, PrefixStands
      <3>2. CASE j # k
        BY <1>1, <1>4, <2>2, <2>3, <3>2
      <3> QED BY <3>1, <3>2
    <2>5. Measured(v)' = Measured(v)
      BY <2>1, <2>4 DEF Measured
    <2> QED BY <1>1, <2>1, <2>2, <2>4, <2>5, MeasuredStands
  <1>11. ASSUME NEW v \in Writers, outlier'[v] # None
         PROVE  /\ flagged'[v] # None /\ call'[v] # None
                /\ place'[v] \in 1..Len(sizes'[call'[v].key]) /\ JudgedByWindow(v)'
    <2>1. CASE v = w
      <3>1. place'[w] \in 1..Len(sizes'[k])
        BY <1>5, <1>8
      <3> QED BY <1>1, <1>2, <1>9, <2>1, <3>1 DEF k
    <2> QED BY <1>10, <1>11, <2>1
  <1>12. VerdictOfItsWindow'
    BY <1>11 DEF VerdictOfItsWindow
  <1> QED BY <1>6, <1>7, <1>11, <1>12 DEF RingInv

LEMMA ReturnRing ==
  ASSUME RingInv, HistoryInv', NEW w \in Writers, ReturnUnion(w)
  PROVE  RingInv'
  <1>1. /\ call' = [call EXCEPT ![w] = None] /\ flagged' = [flagged EXCEPT ![w] = None]
        /\ outlier' = [outlier EXCEPT ![w] = None] /\ place' = [place EXCEPT ![w] = 0]
        /\ UNCHANGED <<buffers, sizes>>
    BY DEF ReturnUnion, Return
  <1>2. /\ call \in [Writers -> Call \cup {None}] /\ flagged \in [Writers -> BOOLEAN \cup {None}]
        /\ outlier \in [Writers -> BOOLEAN \cup {None}] /\ place \in [Writers -> Nat]
    BY DEF RingInv, HistoryInv, TypeOK, SelfTypeOK
  <1>3. place' \in [Writers -> Nat] /\ \A k \in Keys : buffers'[k] = Size!Latest(sizes'[k])
    BY <1>1, <1>2 DEF RingInv
  <1>4. ASSUME NEW v \in Writers, outlier'[v] # None
        PROVE  /\ flagged'[v] # None /\ call'[v] # None
               /\ place'[v] \in 1..Len(sizes'[call'[v].key]) /\ JudgedByWindow(v)'
    <2>1. v # w
      BY <1>1, <1>2, <1>4
    <2>2. /\ call'[v] = call[v] /\ flagged'[v] = flagged[v] /\ outlier'[v] = outlier[v]
          /\ place'[v] = place[v]
      BY <1>1, <1>2, <2>1
    <2>3. /\ flagged[v] # None /\ call[v] # None /\ JudgedByWindow(v)
          /\ place[v] \in 1..Len(sizes[call[v].key])
      BY <1>4, <2>2 DEF RingInv, VerdictOfItsWindow
    <2>4. Measured(v)' = Measured(v)
      BY <1>1, <2>2 DEF Measured
    <2> QED BY <1>1, <2>2, <2>3, <2>4, MeasuredStands
  <1>5. VerdictOfItsWindow'
    BY <1>4 DEF VerdictOfItsWindow
  <1> QED BY <1>3, <1>4, <1>5 DEF RingInv

LEMMA NextRing == RingInv /\ [Next]_vars => RingInv'
  <1> SUFFICES ASSUME RingInv, [Next]_vars PROVE RingInv'
    OBVIOUS
  <1>1. HistoryInv'
    BY NextHistory DEF RingInv
  <1>2. /\ call \in [Writers -> Call \cup {None}] /\ flagged \in [Writers -> BOOLEAN \cup {None}]
        /\ \A w \in Writers : call[w] = None => flagged[w] = None
    BY DEF RingInv, HistoryInv, TypeOK, SelfTypeOK, VerdictsArePast
  <1>3. CASE Tick /\ UNCHANGED sizeVars
    BY <1>1, <1>3, OtherStepsRing DEF Tick
  <1>4. ASSUME NEW w \in Writers, Arrive(w), UNCHANGED sizeVars PROVE RingInv'
    BY <1>1, <1>2, <1>4, OtherStepsRing DEF Arrive
  <1>5. ASSUME NEW w \in Writers, Skip(w), UNCHANGED sizeVars PROVE RingInv'
    <2>1. flagged' = [flagged EXCEPT ![w] = FALSE] /\ call' = call /\ FALSE # None
      BY <1>5, NoneAssumption DEF Skip
    <2> QED BY <1>1, <1>2, <1>5, <2>1, OtherStepsRing
  <1>6. ASSUME NEW w \in Writers, Inspect(w), UNCHANGED sizeVars PROVE RingInv'
    <2>1. call' = call /\ flagged[w] = None
      BY <1>6 DEF Inspect
    <2>2. HistoryInv
      BY DEF RingInv
    <2>3. \A v \in Writers \ {w} : flagged'[v] = flagged[v]
      BY <1>6, <2>2, InspectVerdict
    <2> QED BY <1>1, <1>6, <2>1, <2>3, OtherStepsRing
  <1>7. ASSUME NEW w \in Writers, Measure(w) PROVE RingInv'
    BY <1>1, <1>7, MeasureRing
  <1>8. ASSUME NEW w \in Writers, ReturnUnion(w) PROVE RingInv'
    BY <1>1, <1>8, ReturnRing
  <1>9. CASE Quiescent \/ UNCHANGED vars
    BY <1>1, <1>9, OtherStepsRing DEF Quiescent, vars, selfVars
  <1> QED BY <1>3, <1>4, <1>5, <1>6, <1>7, <1>8, <1>9 DEF Next

LEMMA RingIsKept == Spec => []RingInv
  BY InitRing, NextRing, PTL DEF Spec

-----------------------------------------------------------------------------
(***************************************************************************)
(* The arithmetic of the size verdict: sums over the samples of a window.  *)
(***************************************************************************)
LEMMA Induction ==
  ASSUME NEW T, 0 \in T, \A n \in Nat : n \in T => n + 1 \in T
  PROVE  \A n \in Nat : n \in T
  <1> SUFFICES ASSUME Nat \ T # {} PROVE FALSE
    OBVIOUS
  <1>1. PICK x \in Nat \ T : \A y \in Nat \ T : x <= y
    BY Least
  <1>2. x # 0 /\ x - 1 \in Nat
    OBVIOUS
  <1>3. x - 1 \in T
    BY <1>1, <1>2
  <1>4. (x - 1) + 1 \in T
    BY <1>2, <1>3
  <1> QED BY <1>1, <1>4

\* Sums[k] adds the first k terms of xs.
AreSums(Sums, xs, n) ==
  /\ \A k \in 0..n : Sums[k] \in Int
  /\ Sums[0] = 0
  /\ \A k \in 1..n : Sums[k] = Sums[k - 1] + xs[k]

LEMMA TotalIs ==
  ASSUME NEW xs \in Seq(Int), NEW Sums, AreSums(Sums, xs, Len(xs))
  PROVE  Size!Total(xs) = Sums[Len(xs)]
  <1> DEFINE n == Len(xs)
             sum[k \in 0..n] == IF k = 0 THEN 0 ELSE sum[k - 1] + xs[k]
             Equation(g) == g = [k \in 0..n |-> IF k = 0 THEN 0 ELSE g[k - 1] + xs[k]]
  <1>1. n \in Nat
    OBVIOUS
  <1>2. Size!Total(xs) = sum[n]
    BY DEF Size!Total
  <1>3. \E g : Equation(g)
    <2> DEFINE g == [k \in 0..n |-> Sums[k]]
    <2>1. \A k \in 0..n : k # 0 => k \in 1..n /\ k - 1 \in 0..n
      BY <1>1
    <2>2. \A k \in 0..n : g[k] = IF k = 0 THEN 0 ELSE g[k - 1] + xs[k]
      BY <2>1 DEF AreSums
    <2>3. Equation(g)
      BY <2>2
    <2> QED BY <2>3
  <1>4. Equation(sum)
    BY <1>3
  <1> HIDE DEF sum
  <1>5. \A k \in 0..n : sum[k] = IF k = 0 THEN 0 ELSE sum[k - 1] + xs[k]
    BY <1>4
  <1> DEFINE T == {k \in Nat : k \in 0..n => sum[k] = Sums[k]}
  <1>6. 0 \in T
    BY <1>1, <1>5 DEF AreSums
  <1>7. ASSUME NEW k \in Nat, k \in T PROVE k + 1 \in T
    <2> SUFFICES ASSUME k + 1 \in 0..n PROVE sum[k + 1] = Sums[k + 1]
      OBVIOUS
    <2>1. k \in 0..n /\ k + 1 \in 1..n /\ (k + 1) - 1 = k /\ k + 1 # 0
      BY <1>1
    <2>2. sum[k + 1] = sum[(k + 1) - 1] + xs[k + 1]
      BY <1>5, <2>1
    <2>3. Sums[k + 1] = Sums[(k + 1) - 1] + xs[k + 1]
      BY <2>1 DEF AreSums
    <2>4. sum[k] = Sums[k]
      BY <1>7, <2>1
    <2> QED BY <2>1, <2>2, <2>3, <2>4
  <1> HIDE DEF T
  <1>8. n \in T
    BY <1>1, <1>6, <1>7, Induction
  <1>9. n \in 0..n
    BY <1>1
  <1> QED BY <1>2, <1>8, <1>9 DEF T

LEMMA SumsExist ==
  ASSUME NEW xs \in Seq(Int)
  PROVE  \E Sums : AreSums(Sums, xs, Len(xs))
  <1> DEFINE T == {n \in Nat : n <= Len(xs) => \E Sums : AreSums(Sums, xs, n)}
  <1>1. 0 \in T
    <2>1. AreSums([k \in 0..0 |-> 0], xs, 0)
      BY DEF AreSums
    <2> QED BY <2>1
  <1>2. ASSUME NEW n \in Nat, n \in T PROVE n + 1 \in T
    <2> SUFFICES ASSUME n + 1 <= Len(xs) PROVE \E Sums : AreSums(Sums, xs, n + 1)
      OBVIOUS
    <2>1. PICK Sums : AreSums(Sums, xs, n)
      BY <1>2
    <2> DEFINE More == [k \in 0..(n + 1) |-> IF k = n + 1 THEN Sums[n] + xs[n + 1] ELSE Sums[k]]
    <2>2. xs[n + 1] \in Int /\ Sums[n] \in Int
      BY <2>1 DEF AreSums
    <2>3. \A k \in 0..n : More[k] = Sums[k] /\ More[k] \in Int
      BY <2>1 DEF AreSums
    <2>4. More[n + 1] = Sums[n] + xs[n + 1]
      OBVIOUS
    <2> HIDE DEF More
    <2>5. \A k \in 0..(n + 1) : More[k] \in Int
      BY <2>2, <2>3, <2>4
    <2>6. More[0] = 0
      BY <2>1, <2>3 DEF AreSums
    <2>7. \A k \in 1..n : More[k] = More[k - 1] + xs[k]
      BY <2>1, <2>3 DEF AreSums
    <2>8. More[n + 1] = More[(n + 1) - 1] + xs[n + 1]
      BY <2>3, <2>4
    <2>9. \A k \in 1..(n + 1) : k \in 1..n \/ k = n + 1
      OBVIOUS
    <2>10. AreSums(More, xs, n + 1)
      BY <2>5, <2>6, <2>7, <2>8, <2>9 DEF AreSums
    <2> QED BY <2>10
  <1> HIDE DEF T
  <1>3. Len(xs) \in T
    BY <1>1, <1>2, Induction
  <1> QED BY <1>3 DEF T

(***************************************************************************)
(* The code's comparison with the mean and the deviation of the window is  *)
(* the one over the pairs of its samples: n^2 times the variance is the    *)
(* sum of their squared distances (detector_size.go meanStddev).           *)
(***************************************************************************)
LEMMA DeviatesIsOutlier ==
  ASSUME NEW xs \in Seq(Nat), NEW v \in Nat
  PROVE  Size!Deviates(v, xs) <=> Size!Outlier(v, xs)
  <1> DEFINE n == Len(xs)
             squares == [i \in DOMAIN xs |-> Size!Square(xs[i])]
             apart == [i \in DOMAIN xs |-> v - xs[i]]
             spread == [j \in DOMAIN xs |-> Size!Distances(xs, j)]
  <1>1. n \in Nat /\ DOMAIN xs = 1..n /\ \A i \in 1..n : xs[i] \in Int
    OBVIOUS
  <1>2. xs \in Seq(Int)
    BY <1>1
  <1>3. PICK A : AreSums(A, xs, n)
    BY <1>2, SumsExist
  <1>4. squares \in Seq(Int) /\ Len(squares) = n /\ \A i \in 1..n : squares[i] = xs[i] * xs[i]
    <2>1. \A i \in 1..n : xs[i] * xs[i] \in Int
      BY <1>1
    <2> QED BY <1>1, <2>1 DEF Size!Square
  <1> HIDE DEF squares
  <1>5. PICK B : AreSums(B, squares, n)
    BY <1>4, SumsExist
  <1>6. Size!Total(xs) = A[n] /\ Size!Total(squares) = B[n]
    BY <1>2, <1>3, <1>4, <1>5, TotalIs
  <1>7. /\ \A k \in 0..n : A[k] \in Int /\ B[k] \in Int
        /\ A[0] = 0 /\ B[0] = 0
        /\ \A k \in 1..n : k \in Int /\ k - 1 \in 0..n /\ A[k] = A[k - 1] + xs[k]
                           /\ B[k] = B[k - 1] + xs[k] * xs[k]
    BY <1>1, <1>3, <1>4, <1>5 DEF AreSums
  <1>8. Size!Total(apart) = n * v - A[n]
    <2> DEFINE C == [k \in 0..n |-> k * v - A[k]]
    <2>1. apart \in Seq(Int) /\ Len(apart) = n /\ \A i \in 1..n : apart[i] = v - xs[i]
      <3>1. \A i \in 1..n : v - xs[i] \in Int
        BY <1>1
      <3> QED BY <1>1, <3>1
    <2> HIDE DEF apart
    <2>2. \A k \in 0..n : C[k] \in Int
      BY <1>7
    <2>3. C[0] = 0
      BY <1>1, <1>7
    <2>4. ASSUME NEW k \in 1..n PROVE C[k] = C[k - 1] + apart[k]
      <3>1. k \in Int /\ v \in Int /\ A[k - 1] \in Int /\ xs[k] \in Int
        BY <1>1, <1>7
      <3>2. k * v - (A[k - 1] + xs[k]) = ((k - 1) * v - A[k - 1]) + (v - xs[k])
        <4> DEFINE a == A[k - 1]
                   x == xs[k]
        <4>1. k \in Int /\ v \in Int /\ a \in Int /\ x \in Int
          BY <3>1
        <4> HIDE DEF a, x
        <4>2. k * v - (a + x) = ((k - 1) * v - a) + (v - x)
          BY <4>1
        <4> QED BY <4>2 DEF a, x
      <3>3. k \in 0..n /\ k - 1 \in 0..n
        BY <1>1
      <3>4. C[k] = k * v - A[k] /\ C[k - 1] = (k - 1) * v - A[k - 1]
        BY <3>3
      <3>5. A[k] = A[k - 1] + xs[k] /\ apart[k] = v - xs[k]
        BY <1>7, <2>1
      <3> HIDE DEF C
      <3> QED BY <3>2, <3>4, <3>5
    <2>5. AreSums(C, apart, n)
      BY <2>2, <2>3, <2>4 DEF AreSums
    <2>6. C[n] = n * v - A[n]
      BY <1>1
    <2> HIDE DEF C
    <2> QED BY <2>1, <2>5, <2>6, TotalIs
  <1>9. ASSUME NEW j \in 1..n
        PROVE  Size!Distances(xs, j) = (B[j - 1] - (2 * xs[j]) * A[j - 1]) + (j - 1) * (xs[j] * xs[j])
    <2> DEFINE m == j - 1
               y == xs[j]
               ds == [i \in 1..m |-> Size!Square(xs[i] - y)]
               D == [k \in 0..m |-> (B[k] - (2 * y) * A[k]) + k * (y * y)]
    <2>1. m \in Nat /\ y \in Int /\ 1..m \subseteq 1..n /\ 0..m \subseteq 0..n
      BY <1>1
    <2>2. ds \in Seq(Int) /\ Len(ds) = m /\ \A i \in 1..m : ds[i] = (xs[i] - y) * (xs[i] - y)
      <3>1. \A i \in 1..m : (xs[i] - y) * (xs[i] - y) \in Int
        BY <1>1, <2>1
      <3> QED BY <2>1, <3>1 DEF Size!Square
    <2>3. Size!Distances(xs, j) = Size!Total(ds)
      BY DEF Size!Distances, Size!Total, Size!Square
    <2> HIDE DEF m, y, ds
    <2>4. \A k \in 0..m : D[k] \in Int
      BY <1>7, <2>1
    <2>5. D[0] = 0
      BY <1>7, <2>1
    <2>6. ASSUME NEW k \in 1..m PROVE D[k] = D[k - 1] + ds[k]
      <3>1. k \in 1..n /\ k \in Int /\ k \in 0..m /\ k - 1 \in 0..m /\ xs[k] \in Int
            /\ A[k - 1] \in Int /\ B[k - 1] \in Int
        BY <1>1, <1>7, <2>1
      <3>2. ((B[k - 1] + xs[k] * xs[k]) - (2 * y) * (A[k - 1] + xs[k])) + k * (y * y)
              = ((B[k - 1] - (2 * y) * A[k - 1]) + (k - 1) * (y * y)) + (xs[k] - y) * (xs[k] - y)
        <4> DEFINE a == A[k - 1]
                   b == B[k - 1]
                   x == xs[k]
        <4>1. k \in Int /\ a \in Int /\ b \in Int /\ x \in Int /\ y \in Int
          BY <2>1, <3>1
        <4> HIDE DEF a, b, x
        <4>2. ((b + x * x) - (2 * y) * (a + x)) + k * (y * y)
                = ((b - (2 * y) * a) + (k - 1) * (y * y)) + (x - y) * (x - y)
          BY <4>1
        <4> QED BY <4>2 DEF a, b, x
      <3>3. /\ D[k] = (B[k] - (2 * y) * A[k]) + k * (y * y)
            /\ D[k - 1] = (B[k - 1] - (2 * y) * A[k - 1]) + (k - 1) * (y * y)
        BY <3>1
      <3>4. A[k] = A[k - 1] + xs[k] /\ B[k] = B[k - 1] + xs[k] * xs[k]
            /\ ds[k] = (xs[k] - y) * (xs[k] - y)
        BY <1>7, <2>2, <3>1
      <3> HIDE DEF D
      <3> QED BY <3>2, <3>3, <3>4
    <2>7. AreSums(D, ds, m)
      BY <2>4, <2>5, <2>6 DEF AreSums
    <2>8. D[m] = (B[m] - (2 * y) * A[m]) + m * (y * y)
      BY <2>1
    <2> HIDE DEF D
    <2>9. Size!Total(ds) = (B[m] - (2 * y) * A[m]) + m * (y * y)
      BY <2>2, <2>7, <2>8, TotalIs
    <2> QED BY <2>3, <2>9 DEF m, y
  <1>10. Size!Total(spread) = n * B[n] - A[n] * A[n]
    <2> DEFINE E == [k \in 0..n |-> k * B[k] - A[k] * A[k]]
    <2>1. spread \in Seq(Int) /\ Len(spread) = n /\ \A j \in 1..n : spread[j] = Size!Distances(xs, j)
      <3>1. ASSUME NEW j \in 1..n PROVE Size!Distances(xs, j) \in Int
        <4>1. j \in Int /\ xs[j] \in Int /\ A[j - 1] \in Int /\ B[j - 1] \in Int
          BY <1>1, <1>7
        <4>2. (B[j - 1] - (2 * xs[j]) * A[j - 1]) + (j - 1) * (xs[j] * xs[j]) \in Int
          BY <4>1
        <4> QED BY <1>9, <4>2
      <3> QED BY <1>1, <3>1
    <2> HIDE DEF spread
    <2>2. \A k \in 0..n : E[k] \in Int
      BY <1>7
    <2>3. E[0] = 0
      <3>1. 0 \in 0..n /\ 0 * B[0] - A[0] * A[0] = 0
        BY <1>1, <1>7
      <3> QED BY <3>1
    <2>4. ASSUME NEW k \in 1..n PROVE E[k] = E[k - 1] + spread[k]
      <3>1. k \in Int /\ k \in 0..n /\ k - 1 \in 0..n /\ xs[k] \in Int
            /\ A[k - 1] \in Int /\ B[k - 1] \in Int
        BY <1>1, <1>7
      <3>2. k * (B[k - 1] + xs[k] * xs[k]) - (A[k - 1] + xs[k]) * (A[k - 1] + xs[k])
              = ((k - 1) * B[k - 1] - A[k - 1] * A[k - 1])
                + ((B[k - 1] - (2 * xs[k]) * A[k - 1]) + (k - 1) * (xs[k] * xs[k]))
        <4> DEFINE a == A[k - 1]
                   b == B[k - 1]
                   x == xs[k]
        <4>1. k \in Int /\ a \in Int /\ b \in Int /\ x \in Int
          BY <3>1
        <4> HIDE DEF a, b, x
        <4>2. k * (b + x * x) - (a + x) * (a + x)
                = ((k - 1) * b - a * a) + ((b - (2 * x) * a) + (k - 1) * (x * x))
          BY <4>1
        <4> QED BY <4>2 DEF a, b, x
      <3>3. /\ E[k] = k * B[k] - A[k] * A[k]
            /\ E[k - 1] = (k - 1) * B[k - 1] - A[k - 1] * A[k - 1]
        BY <3>1
      <3>4. A[k] = A[k - 1] + xs[k] /\ B[k] = B[k - 1] + xs[k] * xs[k]
            /\ spread[k] = (B[k - 1] - (2 * xs[k]) * A[k - 1]) + (k - 1) * (xs[k] * xs[k])
        BY <1>7, <1>9, <2>1
      <3> HIDE DEF E
      <3> QED BY <3>2, <3>3, <3>4
    <2>5. AreSums(E, spread, n)
      BY <2>2, <2>3, <2>4 DEF AreSums
    <2>6. E[n] = n * B[n] - A[n] * A[n]
      BY <1>1
    <2> HIDE DEF E
    <2> QED BY <2>1, <2>5, <2>6, TotalIs
  <1>11. Size!Deviates(v, xs) <=>
           Size!Square(n * v - A[n]) > Size!Square(Size!Sigma) * (n * B[n] - Size!Square(A[n]))
    BY <1>6 DEF Size!Deviates, squares
  <1>12. Size!Outlier(v, xs) <=>
           Size!Square(n * v - A[n]) > Size!Square(Size!Sigma) * (n * B[n] - A[n] * A[n])
    BY <1>8, <1>10 DEF Size!Outlier
  <1> QED BY <1>11, <1>12 DEF Size!Square

-----------------------------------------------------------------------------
(***************************************************************************)
(* The inspectors' state is well-typed; a history never exceeds MaxHistory *)
(* records nor a ring WindowSize sizes, for any caps and any number of     *)
(* subjects and concurrent writers (self_reinforcement.go Inspect,         *)
(* detector_size.go Inspect).                                              *)
(***************************************************************************)
THEOREM InspectorTypes == Spec => []TypeOK
  <1>1. HistoryInv => TypeOK
    BY DEF HistoryInv
  <1> QED BY <1>1, HistoryIsKept, PTL

(***************************************************************************)
(* A write is flagged for self-reinforcement only when MaxSelfWrites       *)
(* earlier writes of its subject, none older than the cooldown, nearly     *)
(* repeat it (self_reinforcement.go Inspect, pruneLocked).                 *)
(***************************************************************************)
THEOREM FlagsAreDeserved == Spec => []FlagIsDeserved
  <1>1. HistoryInv => FlagIsDeserved
    BY PropertiesOfHistory
  <1> QED BY <1>1, HistoryIsKept, PTL

(***************************************************************************)
(* A write that MaxSelfWrites writes of its subject, all done before it    *)
(* arrived, nearly repeat is flagged, whichever other writers evict, trim  *)
(* or overtake it in between, as long as those writes are within the       *)
(* cooldown and among the last MaxHistory (self_reinforcement.go Inspect). *)
(***************************************************************************)
THEOREM RepetitionsAreNoticed == Spec => []RepetitionIsNoticed
  <1>1. HistoryInv => RepetitionIsNoticed
    BY PropertiesOfHistory
  <1> QED BY <1>1, HistoryIsKept, PTL

LEMMA WindowsAreSizes ==
  ASSUME RingInv, NEW w \in Writers, outlier[w] # None
  PROVE  Size!Last(Measured(w)) \in Nat /\ Size!Before(Measured(w)) \in Seq(Nat)
  <1> DEFINE s == sizes[call[w].key]
             p == place[w]
  <1>1. /\ call[w] # None /\ p \in 1..Len(s)
        /\ Size!Last(Measured(w)) = SizeOf[call[w].tokens] /\ call[w] \in Call
    BY DEF RingInv, VerdictOfItsWindow, JudgedByWindow, HistoryInv, TypeOK, SelfTypeOK
  <1>2. s \in Seq(Nat) /\ SizeOf[call[w].tokens] \in Nat
    BY <1>1, SizeAssumption DEF Call, RingInv, HistoryInv, TypeOK
  <1> HIDE DEF s, p
  <1> DEFINE m == SubSeq(s, 1, p)
  <1>3. Measured(w) = m
    BY DEF Measured, s, p
  <1>4. m \in Seq(Nat) /\ Len(m) = p /\ p \in Nat /\ p >= 1
    BY <1>1, <1>2
  <1> HIDE DEF m
  <1> DEFINE f == SubSeq(m, 1, Len(m) - 1)
  <1>5. f \in Seq(Nat) /\ Len(f) = p - 1 /\ Size!Front(m) = f
    BY <1>4 DEF Size!Front
  <1> HIDE DEF f
  <1>6. Size!WindowSize \in Nat \ {0}
    BY SizeAssumption DEF Size!WindowSize
  <1> DEFINE first == IF Len(f) > Size!WindowSize THEN Len(f) - Size!WindowSize + 1 ELSE 1
  <1>7. first \in Nat /\ first >= 1
    BY <1>4, <1>5, <1>6
  <1> HIDE DEF first
  <1>8. SubSeq(f, first, Len(f)) \in Seq(Nat)
    BY <1>4, <1>5, <1>7
  <1>9. Size!Before(m) = SubSeq(f, first, Len(f))
    BY <1>5 DEF Size!Before, first
  <1> QED BY <1>1, <1>2, <1>3, <1>8, <1>9

(***************************************************************************)
(* A write is flagged for its size exactly when it is an outlier against   *)
(* the window before it, the deviation taken over the pairs of its samples *)
(* (detector_size.go Inspect, meanStddev), for every window, Sigma and     *)
(* MinSamples, any number of keys and writers, and any sizes.              *)
(***************************************************************************)
THEOREM OutliersAreOfTheirWindow == Spec => []OutlierOfItsWindow
  <1>1. RingInv => OutlierOfItsWindow
    <2> SUFFICES ASSUME RingInv, NEW w \in Writers, outlier[w] # None
                 PROVE  outlier[w] = Size!Deserved(Measured(w))
      BY DEF OutlierOfItsWindow, Measured
    <2> DEFINE xs == Size!Before(Measured(w))
               v == Size!Last(Measured(w))
    <2>1. outlier[w] = (Len(xs) >= Size!MinSamples /\ Size!Deviates(v, xs))
      BY DEF RingInv, VerdictOfItsWindow, JudgedByWindow
    <2>2. v \in Nat /\ xs \in Seq(Nat)
      BY WindowsAreSizes
    <2>3. Size!Deserved(Measured(w)) = (Len(xs) >= Size!MinSamples /\ Size!Outlier(v, xs))
      BY DEF Size!Deserved
    <2> HIDE DEF xs, v
    <2>4. Size!Deviates(v, xs) <=> Size!Outlier(v, xs)
      BY <2>2, DeviatesIsOutlier
    <2> QED BY <2>1, <2>3, <2>4, Zenon
  <1> QED BY <1>1, RingIsKept, PTL

=============================================================================

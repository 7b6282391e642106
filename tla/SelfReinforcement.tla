------------------------- MODULE SelfReinforcement -------------------------
(***************************************************************************)
(* The self-reinforcement WriteInspector (self_reinforcement.go): a        *)
(* bounded per-subject history of token sets, and a flag on a write that   *)
(* nearly repeats enough of them within the cooldown.  Inspect runs        *)
(* outside the guard's lock, one call per handler: it reads the clock,     *)
(* and only then takes the detector's own lock.                            *)
(***************************************************************************)
EXTENDS Integers, FiniteSets, Sequences

CONSTANTS
    Writers,         \* concurrent Inspect calls
    Keys,            \* bound identities
    Contents,        \* contents, as the sets of their tokens
    Writes,          \* writes that may arrive: [tokens, human], human for human_authored
    Similarity,      \* similarityThreshold, in per cent
    Cooldown, MaxSelfWrites, MaxHistory,
    MaxTime, MaxWrites,   \* bounds: clock ticks, Inspect calls
    None

ASSUME DetectorAssumption ==
    /\ \A c \in Contents : IsFiniteSet(c)
    /\ Writes \subseteq [tokens : Contents, human : BOOLEAN]
    /\ Similarity \in 0..100 /\ Cooldown \in Nat
    /\ MaxSelfWrites \in Nat /\ MaxHistory \in Nat \ {0}
    /\ MaxTime \in Nat /\ MaxWrites \in Nat

\* A slice of records is a set of them, each with its place in recording order.
Record == [nth : Nat, tokens : Contents, at : Int]
Call   == [key : Keys, tokens : Contents, human : BOOLEAN, at : Int]

ASSUME NoneAssumption == None \notin Call \cup BOOLEAN

VARIABLES
    now,        \* the clock
    call,       \* the Inspect call of each writer, None when it has none
    history,    \* key -> remembered writes
    flagged,    \* the verdict of each finished call, None before it
    \* History, not in the code:
    arrivals,   \* calls made
    log,        \* every recorded write, in the order of the critical sections
    before      \* for each call: writes recorded at its arrival and at its verdict, the
                \* clock then

selfVars == <<now, call, history, flagged, arrivals, log, before>>

SelfTypeOK ==
    /\ now \in Nat
    /\ call \in [Writers -> Call \cup {None}]
    /\ \A k \in Keys : history[k] \subseteq Record /\ Cardinality(history[k]) <= MaxHistory
    /\ flagged \in [Writers -> BOOLEAN \cup {None}]

Unset == [arrival |-> 0, verdict |-> 0, clock |-> 0]

SelfInit ==
    /\ now = 0
    /\ call = [w \in Writers |-> None]
    /\ history = [k \in Keys |-> {}]
    /\ flagged = [w \in Writers |-> None]
    /\ arrivals = 0 /\ log = <<>>
    /\ before = [w \in Writers |-> Unset]

Tick == /\ now < MaxTime /\ now' = now + 1
        /\ UNCHANGED <<call, history, flagged, arrivals, log, before>>

-----------------------------------------------------------------------------
\* overlapCoefficient >= similarityThreshold; an empty token set resembles nothing.
NearDuplicate(a, b) ==
    /\ a # {} /\ b # {}
    /\ LET smaller == IF Cardinality(b) < Cardinality(a) THEN Cardinality(b) ELSE Cardinality(a)
       IN  100 * Cardinality(a \cap b) >= Similarity * smaller

Arrive(w) ==
    /\ call[w] = None /\ arrivals < MaxWrites
    /\ arrivals' = arrivals + 1
    /\ \E k \in Keys, i \in Writes :
          call' = [call EXCEPT ![w] =
                      [key |-> k, tokens |-> i.tokens, human |-> i.human, at |-> now]]
    /\ before' = [before EXCEPT ![w].arrival = Len(log)]
    /\ UNCHANGED <<now, history, flagged, log>>

\* A human_authored write is not scrutinised and not recorded.
Skip(w) ==
    /\ call[w] # None /\ flagged[w] = None
    /\ call[w].human
    /\ flagged' = [flagged EXCEPT ![w] = FALSE]
    /\ UNCHANGED <<now, call, history, arrivals, log, before>>

PrunedNever(records, at) == records       \* mutant: the cooldown is not applied

Pruned(records, at) == {r \in records : at - r.at < Cooldown}

Untrimmed(records) == records             \* mutant: no cap

TrimmedAtTheEnd(records) ==               \* mutant: the newest records are dropped
    {r \in records : Cardinality({s \in records : s.nth <= r.nth}) <= MaxHistory}

SinceRecord(records, r) == {s \in records : s.nth >= r.nth}

Trimmed(records) == {r \in records : Cardinality(SinceRecord(records, r)) <= MaxHistory}

Similar(records, tokens) == {r \in records : NearDuplicate(tokens, r.tokens)}

\* The critical section: evict, count, record, trim, decide.
Inspect(w) ==
    /\ call[w] # None /\ flagged[w] = None
    /\ ~call[w].human
    /\ LET c      == call[w]
           recent == Pruned(history[c.key], c.at)
       IN  /\ history' = [history EXCEPT ![c.key] =
                  Trimmed(recent \cup {[nth |-> Len(log) + 1, tokens |-> c.tokens, at |-> c.at]})]
           /\ flagged' = [flagged EXCEPT ![w] =
                  Cardinality(Similar(recent, c.tokens)) >= MaxSelfWrites]
           /\ log' = Append(log, c)
           /\ before' = [before EXCEPT ![w] =
                  [arrival |-> @.arrival, verdict |-> Len(log), clock |-> now]]
    /\ UNCHANGED <<now, call, arrivals>>

Return(w) ==
    /\ flagged[w] # None
    /\ call' = [call EXCEPT ![w] = None]
    /\ flagged' = [flagged EXCEPT ![w] = None]
    /\ before' = [before EXCEPT ![w] = Unset]
    /\ UNCHANGED <<now, history, arrivals, log>>

-----------------------------------------------------------------------------
SameSubject(w, n) == log[n].key = call[w].key
Repeats(w, n)     == SameSubject(w, n) /\ NearDuplicate(call[w].tokens, log[n].tokens)

(***************************************************************************)
(* A flag is deserved: at least MaxSelfWrites writes of the same subject   *)
(* within the cooldown of this one's clock reading, recorded before it,    *)
(* nearly repeat it (self_reinforcement.go Inspect, pruneLocked).          *)
(***************************************************************************)
FlagIsDeserved ==
    \A w \in Writers : flagged[w] = TRUE =>
        MaxSelfWrites <= Cardinality({n \in 1..before[w].verdict :
            Repeats(w, n) /\ call[w].at - log[n].at < Cooldown})

(***************************************************************************)
(* A repetition is noticed: a write that MaxSelfWrites writes of its       *)
(* subject nearly repeat, all finished before it arrived, still within the *)
(* cooldown when it is inspected and among the last MaxHistory of the      *)
(* subject, is flagged, whatever the other writers do in between           *)
(* (self_reinforcement.go Inspect: eviction and trimming).                 *)
(***************************************************************************)
LaterOfSubject(w, n) == {m \in n..before[w].verdict : SameSubject(w, m)}

RepetitionIsNoticed ==
    \A w \in Writers : flagged[w] = FALSE /\ ~call[w].human =>
        MaxSelfWrites > Cardinality({n \in 1..before[w].arrival :
            /\ Repeats(w, n) /\ before[w].clock - log[n].at < Cooldown
            /\ Cardinality(LaterOfSubject(w, n)) <= MaxHistory})
=============================================================================

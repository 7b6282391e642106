---------------------------- MODULE SizeAnomaly ----------------------------
(***************************************************************************)
(* The size-anomaly inspector (detector_size.go): per identity key a ring  *)
(* of the latest write sizes, and a flag for a size more than Sigma        *)
(* standard deviations from their mean.  Inspect holds d.mu from its first *)
(* read to its last write, so a call is one step.  The comparison is made  *)
(* in integers; the rounding of the code's floats is left out.             *)
(***************************************************************************)
EXTENDS Integers, SequencesExt

CONSTANTS Keys,
          ConfigWindow, ConfigSigma, ConfigMinSamples    \* the configuration, 0 for none

WindowSize == IF ConfigWindow < 1 THEN 20 ELSE ConfigWindow
Sigma == IF ConfigSigma < 1 THEN 3 ELSE ConfigSigma
MinSamples == IF ConfigMinSamples < 1 THEN 5 ELSE ConfigMinSamples

VARIABLE buffers        \* key -> sizes, oldest first

Init == buffers = [k \in Keys |-> <<>>]

Total(xs) == LET sum[n \in 0..Len(xs)] == IF n = 0 THEN 0 ELSE sum[n - 1] + xs[n]
             IN  sum[Len(xs)]

Square(x) == x * x

Untrimmed(xs) == xs                 \* mutant: the ring grows

\* The sizes kept: the latest WindowSize.
Latest(xs) == IF Len(xs) > WindowSize THEN SubSeq(xs, Len(xs) - WindowSize + 1, Len(xs)) ELSE xs

\* |size - mean| > Sigma * stddev with the population deviation, both sides times Len(xs), squared.
Deviates(size, xs) ==
    LET n == Len(xs)
        spread == n * Total([i \in DOMAIN xs |-> Square(xs[i])]) - Square(Total(xs))
    IN  Square(n * size - Total(xs)) > Square(Sigma) * spread

\* Mutant: the sample is part of its own baseline.
UpdateThenCompare(k, size, flag) ==
    LET xs == Latest(Append(buffers[k], size)) IN
    /\ flag = (Len(buffers[k]) >= MinSamples /\ Deviates(size, xs))
    /\ buffers' = [buffers EXCEPT ![k] = xs]

\* A call that returns the size flag, or does not.
Inspect(k, size, flag) ==
    /\ flag = (Len(buffers[k]) >= MinSamples /\ Deviates(size, buffers[k]))
    /\ buffers' = [buffers EXCEPT ![k] = Latest(Append(@, size))]

-----------------------------------------------------------------------------
\* The window of sizes before the last one, and its variance stated over pairs.
Before(xs) == LET f == Front(xs) IN
    SubSeq(f, IF Len(f) > WindowSize THEN Len(f) - WindowSize + 1 ELSE 1, Len(f))

\* The squared distances of the j-th sample to those before it.
Distances(xs, j) == Total([i \in 1..(j - 1) |-> Square(xs[i] - xs[j])])

Outlier(size, xs) ==
    Square(Total([i \in DOMAIN xs |-> size - xs[i]]))
        > Square(Sigma) * Total([j \in DOMAIN xs |-> Distances(xs, j)])

\* Whether the last of the sizes xs, all of one key, is to be flagged.
Deserved(xs) == Len(Before(xs)) >= MinSamples /\ Outlier(Last(xs), Before(xs))
=============================================================================

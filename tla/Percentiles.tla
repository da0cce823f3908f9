----------------------------- MODULE Percentiles ------------------------------
(* The percentiles of the health endpoint and of the benchmark: one sample at *)
(* an index of the sorted list, found with Python's round, which takes a tie  *)
(* to the even neighbour.                                                     *)
EXTENDS Naturals, FiniteSetsExt

CONSTANTS Values,      \* latencies a request may have, ordered as numbers
          MaxSamples   \* bound: samples recorded

ASSUME PercentilesAssumption == Values \subseteq Nat /\ MaxSamples \in Nat

VARIABLE samples       \* how often each latency was recorded

(* The samples, each named by its latency and its number among the equal.     *)
Recorded == UNION {{v} \X (1 .. samples[v]) : v \in Values}

Total == Cardinality(Recorded)

AtMost(x)  == Cardinality({s \in Recorded : s[1] <= x})
AtLeast(x) == Cardinality({s \in Recorded : s[1] >= x})

(* round(a / b).                                                              *)
Round(a, b) ==
    LET whole == a \div b
        twice == 2 * (a % b)
    IN IF twice > b \/ (twice = b /\ whole % 2 = 1) THEN whole + 1 ELSE whole

(* Mutant: the index is taken of the length, not of the last index.           *)
Percentile_OfLength(a) ==
    LET index == Min({Total - 1, Round(a * Total, 100)})
    IN Min({v \in Values : AtMost(v) > index})

(* sorted(values)[round(pct * (len(values) - 1))], for pct = a hundredths: an *)
(* index from 0 that never leaves the list.                                   *)
Percentile(a) ==
    LET last  == Total - 1
        index == Min({last, Round(a * last, 100)})
    IN Min({v \in Values : AtMost(v) > index})

Record ==
    /\ Total < MaxSamples
    /\ \E v \in Values : samples' = [samples EXCEPT ![v] = @ + 1]

PercentilesInit == samples = [v \in Values |-> 0]

PercentilesSpec == PercentilesInit /\ [][Record]_samples
------------------------------------------------------------------------------
(* The reported p50 is a median, for even and odd numbers of samples: no more *)
(* than half of them lie below it and no more than half above.  p95 is no     *)
(* smaller, and leaves a twentieth of the other samples above it, give or     *)
(* take half a sample (_percentile).                                          *)
PercentilesHold ==
    Total > 0 =>
      /\ 2 * AtMost(Percentile(50)) >= Total /\ 2 * AtLeast(Percentile(50)) >= Total
      /\ Percentile(50) <= Percentile(95)
      /\ 20 * (Total - AtMost(Percentile(95))) <= Total + 9
------------------------------------------------------------------------------
(* The inductive invariant: there are only so many samples.                   *)
PercentilesInv ==
    samples \in [Values -> Nat] /\ IsFiniteSet(Recorded)
=============================================================================

--------------------------- MODULE ExpositionScrape ---------------------------
(***************************************************************************)
(* The metrics path of collect_block_data (scripts/block_timing_collector  *)
(* .py, lines 451-455) down to the text it parses: the node writes each    *)
(* cumulative begin/end_blocker_sum value in the Prometheus text format,   *)
(* parse_prometheus_metrics (lines 114-146) reads it back with the pattern *)
(* ([\d.]+) and calculate_deltas (lines 148-174, module MetricsDelta)      *)
(* turns the readings into per-block deltas.                               *)
(*                                                                         *)
(* The exposition prints a value with Go's shortest 'g' format, which      *)
(* switches to exponent notation (1.234567e+06) once the value's decimal   *)
(* exponent reaches 6.  The pattern stops at the 'e', so float() gets the  *)
(* mantissa.  Values are naturals here; ExpDigits stands for the 6 and     *)
(* a reading is kept exactly, in units of 1/Scale.                         *)
(***************************************************************************)
EXTENDS MetricsDelta

CONSTANTS
    ExpDigits,      \* decimal exponent from which 'g' prints 1.2e+NN (6)
    MaxCounter,     \* bound of a cumulative counter
    MaxWork         \* most execution time a series adds in one block
\* (ExpDigits and MaxWork are positive naturals, MaxCounter a natural.)

VARIABLES
    counters,       \* series -> the node's cumulative value
    base,           \* history: series -> value at the baseline scrape
    scraped,        \* history: series -> value at the last scrape
    recorded        \* history: series -> sum of the deltas written out

vars == <<counters, previous_metrics, base, scraped, recorded>>

\* The decimal exponent of v >= 1: the number of its digits minus one.
Exponent(v) == CHOOSE e \in 0..MaxCounter : 10^e <= v /\ v < 10^(e + 1)

\* Readings are exact in units of 1/Scale.
Scale == 10^Exponent(MaxCounter + 1)

(***************************************************************************)
(* What float(match.group(2)) returns for a value v (lines 125-127 and     *)
(* 130-132), times Scale: v itself when the exposition prints it plainly,  *)
(* its mantissa v / 10^Exponent(v) when it prints it as d.ddde+NN.         *)
(***************************************************************************)
Parsed(v) ==
    IF v < 10^ExpDigits THEN v * Scale
    ELSE (v * Scale) \div 10^Exponent(v)

\* The node executes a block: each series grows by 0..MaxWork.
NodeBlock ==
    /\ \E w \in [Series -> 0..MaxWork] :
          /\ \A s \in Series : counters[s] + w[s] <= MaxCounter
          /\ counters' = [s \in Series |-> counters[s] + w[s]]
    /\ UNCHANGED <<previous_metrics, base, scraped, recorded>>

(***************************************************************************)
(* Lines 452-466: the scrape is parsed, its deltas computed; a delta left  *)
(* out (negative, line 163) adds nothing to what is written.              *)
(***************************************************************************)
Scrape ==
    LET cur == [s \in Series |-> Parsed(counters[s])]
        d == CalculateDeltas(cur)
    IN  /\ previous_metrics' = cur
        /\ scraped' = counters
        /\ IF previous_metrics = NoMetrics
           THEN /\ base' = counters
                /\ UNCHANGED recorded
           ELSE /\ recorded' = [s \in Series |->
                                  recorded[s] + (IF d[s] = Absent THEN 0
                                                 ELSE d[s])]
                /\ UNCHANGED base
        /\ UNCHANGED counters

Init ==
    /\ counters \in [Series -> 0..MaxCounter]
    /\ previous_metrics = NoMetrics
    /\ base = [s \in Series |-> 0]
    /\ scraped = [s \in Series |-> 0]
    /\ recorded = [s \in Series |-> 0]

Next == NodeBlock \/ Scrape

Spec == Init /\ [][Next]_vars

-----------------------------------------------------------------------------
(***************************************************************************)
(* Without a node restart the deltas written add up to the growth of each  *)
(* counter between the baseline scrape and the last scrape (section 4.2:   *)
(* delta = current - previous).                                            *)
(***************************************************************************)
DeltasMatchCounters ==
    previous_metrics # NoMetrics =>
        \A s \in Series : recorded[s] = (scraped[s] - base[s]) * Scale
=============================================================================

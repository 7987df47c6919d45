---------------------------- MODULE MetricsDelta ----------------------------
(***************************************************************************)
(* MetricsDeltaCalculator of scripts/block_timing_collector.py (lines      *)
(* 108-174): per-block deltas of the node's cumulative begin_blocker_sum / *)
(* end_blocker_sum counters.                                               *)
(*                                                                         *)
(* A parsed snapshot (parse_prometheus_metrics, lines 114-146) maps each   *)
(* series <<blocker, module>> to its cumulative value, or to Absent when   *)
(* the exposition has no line for that module.  previous_metrics is the    *)
(* last snapshot, or NoMetrics (Python None) before the first one.         *)
(***************************************************************************)
EXTENDS Naturals, Integers

CONSTANT Modules            \* module label values of the exposition

ASSUME ModulesAssumption == Modules # {}

VARIABLE previous_metrics

Blockers == {"begin_blocker", "end_blocker"}
Series == Blockers \X Modules

Absent == -1
Readings == Nat \cup {Absent}
Snapshots == [Series -> Readings]
NoMetrics == <<>>

\* .get(module, 0) of lines 161 and 168.
PrevValue(prev, s) == IF prev[s] = Absent THEN 0 ELSE prev[s]

(***************************************************************************)
(* Lines 154-171: for every series present in the current snapshot, the   *)
(* difference with the previous value; a negative difference (a counter    *)
(* reset) leaves the series out of this tick's deltas (line 163), as does  *)
(* a series absent from the current snapshot.                              *)
(***************************************************************************)
Deltas(prev, cur) ==
    [s \in Series |->
        IF cur[s] = Absent \/ cur[s] - PrevValue(prev, s) < 0
        THEN Absent
        ELSE cur[s] - PrevValue(prev, s)]

(***************************************************************************)
(* calculate_deltas(cur): the first snapshot is only stored as the         *)
(* baseline (lines 150-152, result None = NoMetrics); every later call     *)
(* returns the deltas and replaces the baseline (line 173).                *)
(***************************************************************************)
CalculateDeltas(cur) ==
    IF previous_metrics = NoMetrics THEN NoMetrics
    ELSE Deltas(previous_metrics, cur)


=============================================================================

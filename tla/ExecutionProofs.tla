------------------------- MODULE ExecutionProofs --------------------------
(***************************************************************************)
(* Proof that the execution deltas the collector writes out (lines        *)
(* 451-470) account for the node's execution time (ExecutionAccounted),  *)
(* through the inductive invariant ExecutionInv of Collector: before the  *)
(* baseline scrape nothing is counted, and afterwards the deltas written  *)
(* plus what the next scrape would report never exceed the work done.     *)
(***************************************************************************)
EXTENDS CollectorProofs

USE ConstantsAssumption

\* The variables the accounting reads.
ExecVars == <<counters, previous_metrics, work, recorded, restarts>>

\* ExecutionInv for one series.
ExecAt(s) ==
    /\ recorded[s] <= work[s]
    /\ (restarts = 0 /\ previous_metrics # NoMetrics) =>
           recorded[s] + Pending(s) = work[s]
    /\ previous_metrics = NoMetrics => work[s] = 0 /\ recorded[s] = 0
    /\ previous_metrics # NoMetrics => recorded[s] + Pending(s) <= work[s]

-----------------------------------------------------------------------------
(***************************************************************************)
(* Lemmas about the metric operators.                                      *)
(***************************************************************************)

\* A parsed snapshot is never None: it has a reading for every series.
LEMMA SnapshotNotNone ==
    ASSUME NEW m \in Snapshots
    PROVE  m # NoMetrics
<1>1. Series # {}
    <2>1. PICK mo \in Modules : TRUE
        BY ModulesAssumption
    <2>2. <<"begin_blocker", mo>> \in Series
        BY <2>1 DEF Series, Blockers
    <2>. QED
        BY <2>2
<1>2. DOMAIN m = Series
    BY DEF Snapshots
<1>3. DOMAIN NoMetrics = {}
    BY DEF NoMetrics
<1>. QED
    BY <1>1, <1>2, <1>3

\* The .get(module, 0) of a delta of lines 161-165: the difference, or 0
\* when the series is absent or the difference negative.
LEMMA DeltaValue ==
    ASSUME NEW prev \in Snapshots, NEW cur \in Snapshots, NEW s \in Series
    PROVE  PrevValue(Deltas(prev, cur), s) =
               IF cur[s] = Absent \/ cur[s] - PrevValue(prev, s) < 0 THEN 0
               ELSE cur[s] - PrevValue(prev, s)
<1>1. PrevValue(prev, s) \in Nat
    BY PrevValueType
<1>. QED
    BY <1>1 DEF Deltas, PrevValue, Snapshots, Readings, Absent

\* One series across a scrape: adding the delta keeps the sum within the
\* work done, and exact when it was exact (a counter that did not reset).
LEMMA DeltaAccounting ==
    ASSUME NEW r \in Nat, NEW wk \in Nat, NEW c \in Readings, NEW p \in Nat,
           r <= wk,
           r + (IF c = Absent THEN 0 ELSE c) - p <= wk
    PROVE  /\ r + (IF c = Absent \/ c - p < 0 THEN 0 ELSE c - p) <= wk
           /\ r + (IF c = Absent THEN 0 ELSE c) - p = wk =>
                  r + (IF c = Absent \/ c - p < 0 THEN 0 ELSE c - p) = wk
BY DEF Readings, Absent

-----------------------------------------------------------------------------
(***************************************************************************)
(* ExecutionInv is preserved by every step.                                *)
(***************************************************************************)

LEMMA ExecInit == Init => ExecutionInv
BY DEF Init, ExecutionInv, ExecutionAccounted

LEMMA ExecUnchanged ==
    ASSUME ExecutionInv, UNCHANGED ExecVars
    PROVE  ExecutionInv'
BY DEF ExecutionInv, ExecutionAccounted, Pending, PrevValue, ExecVars

LEMMA ExecCommit ==
    ASSUME TypeOK, ExecutionInv, NodeCommit,
           UNCHANGED <<restarts, previous_metrics, recorded>>
    PROVE  ExecutionInv'
<1>0. /\ counters \in Snapshots
      /\ previous_metrics \in Snapshots \cup {NoMetrics}
      /\ work \in [Series -> Nat] /\ recorded \in [Series -> Nat]
    BY DEF TypeOK
<1>1. PICK w \in [Series -> 1..MaxWork] :
          /\ counters' = [s \in Series |-> PrevValue(counters, s) + w[s]]
          /\ work' = IF previous_metrics = NoMetrics THEN work
                     ELSE [s \in Series |-> work[s] + w[s]]
    BY DEF NodeCommit
<1>2. \A s \in Series : ExecAt(s)'
    <2>. SUFFICES ASSUME NEW s \in Series PROVE ExecAt(s)'
        OBVIOUS
    <2>1. ExecAt(s)
        BY DEF ExecutionInv, ExecutionAccounted, ExecAt
    <2>2. PrevValue(counters, s) \in Nat
        BY <1>0, PrevValueType
    <2>3. PrevValue(counters', s) = PrevValue(counters, s) + w[s]
        BY <1>1, <2>2 DEF PrevValue, Absent
    <2>4. CASE previous_metrics = NoMetrics
        BY <1>1, <2>1, <2>4 DEF ExecAt
    <2>5. CASE previous_metrics # NoMetrics
        <3>1. PrevValue(previous_metrics, s) \in Nat
            BY <1>0, <2>5, PrevValueType
        <3>2. work'[s] = work[s] + w[s] /\ w[s] \in Nat
            BY <1>1, <2>5
        <3>3. Pending(s)' = Pending(s) + w[s]
            BY <2>2, <2>3, <3>1, <3>2 DEF Pending
        <3>4. /\ recorded'[s] = recorded[s]
              /\ previous_metrics' = previous_metrics /\ restarts' = restarts
            OBVIOUS
        <3>5. recorded[s] \in Nat /\ work[s] \in Nat /\ Pending(s) \in Int
            BY <1>0, <2>2, <3>1 DEF Pending
        <3>. QED
            BY <2>1, <2>5, <3>2, <3>3, <3>4, <3>5 DEF ExecAt
    <2>. QED
        BY <2>4, <2>5
<1>. QED
    BY <1>2 DEF ExecutionInv, ExecutionAccounted, ExecAt

LEMMA ExecRestart ==
    ASSUME TypeOK, ExecutionInv, NodeRestart,
           UNCHANGED <<work, previous_metrics, recorded>>
    PROVE  ExecutionInv'
<1>0. /\ previous_metrics \in Snapshots \cup {NoMetrics}
      /\ work \in [Series -> Nat] /\ recorded \in [Series -> Nat]
      /\ restarts \in Nat
    BY DEF TypeOK
<1>1. restarts' # 0
    BY <1>0 DEF NodeRestart
<1>2. \A s \in Series : ExecAt(s)'
    <2>. SUFFICES ASSUME NEW s \in Series PROVE ExecAt(s)'
        OBVIOUS
    <2>1. ExecAt(s)
        BY DEF ExecutionInv, ExecutionAccounted, ExecAt
    <2>2. PrevValue(counters', s) = 0
        BY DEF NodeRestart, PrevValue
    <2>3. previous_metrics # NoMetrics =>
              recorded[s] + Pending(s)' <= work[s]
        <3>. SUFFICES ASSUME previous_metrics # NoMetrics
                      PROVE  recorded[s] + Pending(s)' <= work[s]
            OBVIOUS
        <3>1. PrevValue(previous_metrics, s) \in Nat
            BY <1>0, PrevValueType
        <3>. QED
            BY <1>0, <2>1, <2>2, <3>1 DEF Pending, ExecAt
    <2>. QED
        BY <1>1, <2>1, <2>3 DEF ExecAt
<1>. QED
    BY <1>2 DEF ExecutionInv, ExecutionAccounted, ExecAt

\* One iteration of the main loop: a failed scrape changes nothing, the
\* first one only stores the baseline, and every later one adds the deltas
\* and moves the baseline to the scraped counters.
LEMMA ExecCollect ==
    ASSUME TypeOK, ExecutionInv, CollectBlock
    PROVE  ExecutionInv'
<1>0. /\ counters \in Snapshots
      /\ previous_metrics \in Snapshots \cup {NoMetrics}
      /\ work \in [Series -> Nat] /\ recorded \in [Series -> Nat]
    BY DEF TypeOK
<1>1. UNCHANGED <<counters, work, restarts>>
    BY DEF CollectBlock, node_vars
<1>2. CASE Skipped
    BY <1>1, <1>2, ExecUnchanged DEF Skipped, ExecVars
<1>3. CASE Collected(loop_height)
    <2>1. PICK ok \in IF FetchCanFail THEN BOOLEAN ELSE {TRUE} :
            /\ previous_metrics' = IF ok THEN counters ELSE previous_metrics
            /\ recorded' =
                 IF (IF ok THEN CalculateDeltas(counters) ELSE NoExecution)
                      = NoExecution
                 THEN recorded
                 ELSE [s \in Series |->
                         recorded[s] +
                           PrevValue(IF ok THEN CalculateDeltas(counters)
                                     ELSE NoExecution, s)]
        BY <1>3 DEF Collected
    <2>2. CASE ~ok
        BY <1>1, <2>1, <2>2, ExecUnchanged DEF ExecVars
    <2>3. CASE ok /\ previous_metrics = NoMetrics
        <3>1. recorded' = recorded /\ previous_metrics' = counters
            BY <2>1, <2>3 DEF CalculateDeltas, NoExecution
        <3>2. counters # NoMetrics
            BY <1>0, SnapshotNotNone
        <3>3. \A s \in Series : ExecAt(s)'
            <4>. SUFFICES ASSUME NEW s \in Series PROVE ExecAt(s)'
                OBVIOUS
            <4>1. work[s] = 0 /\ recorded[s] = 0
                BY <2>3 DEF ExecutionInv
            <4>2. PrevValue(counters, s) \in Nat
                BY <1>0, PrevValueType
            <4>3. Pending(s)' = 0
                BY <1>1, <3>1, <4>2 DEF Pending
            <4>. QED
                BY <1>1, <3>1, <3>2, <4>1, <4>3 DEF ExecAt
        <3>. QED
            BY <3>3 DEF ExecutionInv, ExecutionAccounted, ExecAt
    <2>4. CASE ok /\ previous_metrics # NoMetrics
        <3>. DEFINE d == Deltas(previous_metrics, counters)
        <3>1. previous_metrics \in Snapshots
            BY <1>0, <2>4
        <3>2. d \in Snapshots
            BY <1>0, <3>1, PrevValueType
            DEF Deltas, Snapshots, Readings, Absent
        <3>3. d # NoExecution
            BY <3>2, SnapshotNotNone DEF NoExecution
        <3>4. /\ recorded' = [s \in Series |-> recorded[s] + PrevValue(d, s)]
              /\ previous_metrics' = counters
            BY <2>1, <2>4, <3>3 DEF CalculateDeltas
        <3>5. \A s \in Series : ExecAt(s)'
            <4>. SUFFICES ASSUME NEW s \in Series PROVE ExecAt(s)'
                OBVIOUS
            <4>. DEFINE c == counters[s]
                        p == PrevValue(previous_metrics, s)
            <4>1. ExecAt(s)
                BY DEF ExecutionInv, ExecutionAccounted, ExecAt
            <4>2. c \in Readings /\ p \in Nat
                BY <1>0, <3>1, PrevValueType DEF Snapshots
            <4>3. recorded'[s] = recorded[s] +
                      (IF c = Absent \/ c - p < 0 THEN 0 ELSE c - p)
                BY <1>0, <3>1, <3>4, DeltaValue
            <4>4. Pending(s) = (IF c = Absent THEN 0 ELSE c) - p
                BY DEF Pending, PrevValue
            <4>5. PrevValue(counters, s) \in Nat
                BY <1>0, PrevValueType
            <4>6. Pending(s)' = 0
                BY <1>1, <3>4, <4>5 DEF Pending
            <4>7. /\ recorded[s] + (IF c = Absent \/ c - p < 0 THEN 0 ELSE c - p)
                       <= work[s]
                  /\ restarts = 0 =>
                       recorded[s] + (IF c = Absent \/ c - p < 0 THEN 0
                                      ELSE c - p) = work[s]
                BY <1>0, <2>4, <4>1, <4>2, <4>4, DeltaAccounting DEF ExecAt
            <4>8. previous_metrics' # NoMetrics
                BY <1>0, <3>4, SnapshotNotNone
            <4>9. /\ recorded'[s] \in Int
                  /\ recorded'[s] <= work'[s]
                  /\ restarts' = 0 => recorded'[s] = work'[s]
                BY <1>0, <1>1, <4>2, <4>3, <4>7 DEF Readings, Absent
            <4>. QED
                BY <4>6, <4>8, <4>9 DEF ExecAt
        <3>. QED
            BY <3>5 DEF ExecutionInv, ExecutionAccounted, ExecAt
    <2>. QED
        BY <2>2, <2>3, <2>4
<1>. QED
    BY <1>2, <1>3 DEF CollectBlock

LEMMA ExecNext ==
    ASSUME IInv, ExecutionInv, [Next]_vars
    PROVE  ExecutionInv'
<1>0. TypeOK
    BY DEF IInv
<1>1. CASE Node /\ NodeFrame
    <2>1. CASE NodeCommit /\ UNCHANGED <<clock, restarts>>
        BY <1>0, <1>1, <2>1, ExecCommit DEF NodeFrame, main_vars
    <2>2. CASE NodeRestart /\ UNCHANGED <<clock, work>>
        BY <1>0, <1>1, <2>2, ExecRestart DEF NodeFrame, main_vars
    <2>3. CASE \/ NodeStep /\ UNCHANGED <<clock, work, restarts>>
               \/ Tick /\ UNCHANGED <<node_vars, work, restarts>>
        BY <1>1, <2>3, ExecUnchanged
        DEF NodeStep, Tick, NodeFrame, main_vars, node_vars, ExecVars
    <2>. QED
        BY <1>1, <2>1, <2>2, <2>3 DEF Node
<1>2. CASE ConsensusPoll \/ MonitorStatus \/ UNCHANGED vars
    BY <1>2, ExecUnchanged
    DEF ConsensusPoll, MonitorStatus, vars, node_vars, main_vars, ghost_vars,
        ExecVars
<1>3. CASE CollectBlock
    BY <1>0, <1>3, ExecCollect
<1>. QED
    BY <1>1, <1>2, <1>3 DEF Next, NodeFrame

-----------------------------------------------------------------------------
\* The strengthening ExecutionInv holds in every reachable state for every
\* value of the constants: before the first successful scrape (line 453)
\* nothing is recorded and no work is counted, and afterwards the deltas
\* written plus what the next scrape will report never exceed the work.
THEOREM ExecutionInvInvariant == Spec => [](IInv /\ ExecutionInv)
<1>1. Init => IInv /\ ExecutionInv
    BY InitIInv, ExecInit
<1>2. IInv /\ ExecutionInv /\ [Next]_vars => IInv' /\ ExecutionInv'
    BY NextIInv, ExecNext
<1>. QED
    BY <1>1, <1>2, PTL DEF Spec

\* The execution deltas written out (lines 459-466) never add up to more
\* than the node's execution time since the baseline scrape and, while the
\* node has not restarted, add up to exactly that time minus what the next
\* scrape will report, whatever the bounds: failed scrapes (line 453) and
\* catch-up loops over several heights lose and double count nothing.
THEOREM ExecutionAccountedInvariant == Spec => []ExecutionAccounted
<1>1. ExecutionInv => ExecutionAccounted
    BY DEF ExecutionInv
<1>. QED
    BY ExecutionInvInvariant, <1>1, PTL

=============================================================================

-------------------------- MODULE CollectorProofs --------------------------
(***************************************************************************)
(* Proofs about Collector, for every value of the constants allowed by    *)
(* ConstantsAssumption and ModulesAssumption.                              *)
(***************************************************************************)
EXTENDS Collector, TLAPS

USE ConstantsAssumption

-----------------------------------------------------------------------------
(***************************************************************************)
(* Lemmas about the tracker's operators.                                   *)
(***************************************************************************)

\* Every step value decodes to one of the five phases (lines 56-57).
LEMMA StepNameType ==
    ASSUME NEW step \in Nat
    PROVE  StepName(step) \in Phases
BY DEF StepName, Phases, NamedPhases

\* Closing the open phase at an instant no earlier than any start time
\* keeps every duration a natural number.
LEMMA ClosedType ==
    ASSUME TrackerTypeOK,
           NEW now \in Nat,
           \A p \in Phases : phase_start_times[p] <= now
    PROVE  Closed(now) \in [Phases -> Nat]
BY DEF Closed, TrackerTypeOK, NoPhase, NoTime, Phases, NamedPhases

\* The record _finalize_block_timing returns is a PhaseRecord.
LEMMA FinalizeType ==
    ASSUME TrackerTypeOK,
           current_height \in Nat,
           NEW now \in Nat,
           \A p \in Phases : phase_start_times[p] <= now
    PROVE  Finalize(now) \in PhaseRecords
<1>1. Closed(now) \in [Phases -> Nat]
    BY ClosedType
<1>2. SumPhases(Closed(now)) \in Nat
    BY <1>1 DEF SumPhases, Phases, NamedPhases
<1>3. [p \in NamedPhases |-> Closed(now)[p]] \in [NamedPhases -> Nat]
    BY <1>1 DEF Phases
<1>. QED
    BY <1>2, <1>3 DEF Finalize, PhaseRecords, TrackerTypeOK

\* A snapshot of height h moves the tracker to h, keeps its fields typed,
\* and opens no phase later than the observation instant.
LEMMA ObserveTracker ==
    ASSUME TrackerTypeOK,
           NEW h \in Nat, NEW r \in Nat, NEW step \in Nat, NEW now \in Nat,
           \A p \in Phases : phase_start_times[p] <= now,
           Observe(h, r, step, now)
    PROVE  /\ TrackerTypeOK'
           /\ current_height' = h
           /\ \A p \in Phases : phase_start_times'[p] <= now
<1>. DEFINE phase == StepName(step)
<1>0. phase \in Phases
    BY StepNameType
<1>1. CASE NewBlock(h, r, phase, now)
    BY <1>0, <1>1 DEF NewBlock, FreshStart, TrackerTypeOK, NoTime
<1>2. CASE FirstBlock(h, r, phase, now)
    BY <1>0, <1>2 DEF FirstBlock, FreshStart, TrackerTypeOK, NoTime
<1>3. CASE PhaseChange(h, r, phase, now)
    <2>1. Closed(now) \in [Phases -> Nat]
        BY ClosedType
    <2>2. phase_start_times' \in [Phases -> Nat \cup {NoTime}]
          /\ \A p \in Phases : phase_start_times'[p] <= now
        BY <1>0, <1>3 DEF PhaseChange, TrackerTypeOK
    <2>3. phase_durations' \in [Phases -> Nat]
        BY <1>3, <2>1 DEF PhaseChange
    <2>. QED
        BY <1>0, <1>3, <2>2, <2>3 DEF PhaseChange, TrackerTypeOK
<1>4. CASE SamePhase(h, r, phase)
    BY <1>4 DEF SamePhase, TrackerTypeOK
<1>. QED
    BY <1>1, <1>2, <1>3, <1>4 DEF Observe

\* calculate_deltas returns None or a snapshot; its readings are naturals
\* or Absent (lines 154-171).
LEMMA CalculateDeltasType ==
    ASSUME previous_metrics \in Snapshots \cup {NoMetrics},
           NEW cur \in Snapshots
    PROVE  CalculateDeltas(cur) \in Snapshots \cup {NoMetrics}
BY DEF CalculateDeltas, Deltas, PrevValue, Snapshots, Readings, Absent

\* .get(module, 0) of a snapshot is a natural number.
LEMMA PrevValueType ==
    ASSUME NEW m \in Snapshots, NEW s \in Series
    PROVE  PrevValue(m, s) \in Nat
BY DEF PrevValue, Snapshots, Readings, Absent

-----------------------------------------------------------------------------
(***************************************************************************)
(* The inductive invariant.                                                *)
(***************************************************************************)

LEMMA InitIInv == Init => IInv
<1>. SUFFICES ASSUME Init PROVE IInv
    OBVIOUS
<1>1. TypeOK
    BY DEF Init, TrackerInit, TypeOK, TrackerTypeOK, Heights, Snapshots,
           Readings, Absent, NoMetrics, NoHeight, NoTime, NoPhase, Phases,
           NamedPhases, NoRecord
<1>2. TimesNotInFuture
    BY DEF Init, TrackerInit, TimesNotInFuture, NoTime, Phases, NamedPhases
<1>3. HeadersMonotone
    BY DEF Init, HeadersMonotone
<1>4. HeightsInRange
    BY DEF Init, TrackerInit, HeightsInRange, NoHeight
<1>5. LastBlockTimeBelow
    BY DEF Init, LastBlockTimeBelow
<1>. QED
    BY <1>1, <1>2, <1>3, <1>4, <1>5 DEF IInv

\* The variables a node step leaves alone, as in the first disjunct of Next.
NodeFrame == UNCHANGED <<tracker_vars, block_data_buffer, main_vars,
                         produced, observed_for, first_seen, recorded,
                         baseline>>

LEMMA NodeStepIInv ==
    ASSUME IInv, NodeStep, UNCHANGED <<clock, work, restarts>>, NodeFrame
    PROVE  IInv'
<1>1. TypeOK'
    BY DEF IInv, TypeOK, TrackerTypeOK, NodeStep, NodeFrame, tracker_vars,
           main_vars, ConstantsAssumption
<1>2. TimesNotInFuture' /\ HeadersMonotone' /\ LastBlockTimeBelow'
    BY DEF IInv, TimesNotInFuture, HeadersMonotone, LastBlockTimeBelow,
           NextToCollect, NodeStep, NodeFrame, tracker_vars, main_vars
<1>3. HeightsInRange'
    BY DEF IInv, HeightsInRange, NodeStep, NodeFrame, tracker_vars, main_vars
<1>. QED
    BY <1>1, <1>2, <1>3 DEF IInv

LEMMA NodeCommitIInv ==
    ASSUME IInv, NodeCommit, UNCHANGED <<clock, restarts>>, NodeFrame
    PROVE  IInv'
<1>0. TypeOK /\ TimesNotInFuture /\ HeadersMonotone /\ HeightsInRange
      /\ LastBlockTimeBelow
    BY DEF IInv
<1>1. PICK w \in [Series -> 1..MaxWork] :
          /\ counters' = [s \in Series |-> PrevValue(counters, s) + w[s]]
          /\ work' = IF previous_metrics = NoMetrics THEN work
                     ELSE [s \in Series |-> work[s] + w[s]]
    BY DEF NodeCommit
<1>2. /\ chain \in InitHeight..MaxHeight /\ chain < MaxHeight
      /\ chain + 1 \in Heights /\ chain' = chain + 1
      /\ header_time' = [header_time EXCEPT ![chain + 1] = clock]
      /\ clock > header_time[chain]
    BY <1>0 DEF NodeCommit, TypeOK, Heights
<1>3. TypeOK'
    <2>1. counters' \in Snapshots
        BY <1>0, <1>1 DEF TypeOK, Snapshots, Readings, PrevValue, Absent
    <2>2. work' \in [Series -> Nat]
        BY <1>0, <1>1 DEF TypeOK
    <2>3. header_time' \in [Heights -> Nat]
        BY <1>0, <1>2 DEF TypeOK
    <2>4. chain' \in InitHeight..MaxHeight /\ node_round' \in 0..MaxRound
          /\ node_step' \in Steps
        BY <1>2 DEF NodeCommit
    <2>. QED
        BY <1>0, <2>1, <2>2, <2>3, <2>4 DEF TypeOK, TrackerTypeOK, NodeFrame,
           tracker_vars, main_vars
<1>4. TimesNotInFuture'
    BY <1>0, <1>2 DEF TypeOK, TimesNotInFuture, Heights, NodeFrame, tracker_vars
<1>5. HeadersMonotone'
    <2>1. SUFFICES ASSUME NEW a \in Heights, NEW b \in Heights,
                          a <= b, b <= chain'
                   PROVE  header_time'[a] <= header_time'[b]
        BY DEF HeadersMonotone
    <2>2. /\ header_time \in [Heights -> Nat] /\ a \in Nat /\ b \in Nat
          /\ clock \in Nat /\ chain \in Heights
        BY <1>0, <1>2 DEF TypeOK, Heights
    <2>3. CASE b = chain + 1
        <3>1. header_time'[b] = clock
            BY <1>2, <2>2, <2>3
        <3>2. CASE a = chain + 1
            BY <2>2, <2>3, <3>1, <3>2
        <3>3. CASE a # chain + 1
            <4>1. a <= chain /\ header_time'[a] = header_time[a]
                BY <1>2, <2>1, <2>2, <2>3, <3>3
            <4>2. header_time[a] <= header_time[chain]
                BY <1>0, <1>2, <4>1 DEF HeadersMonotone, Heights
            <4>. QED
                BY <1>2, <2>2, <3>1, <4>1, <4>2
        <3>. QED
            BY <3>2, <3>3
    <2>4. CASE b # chain + 1
        <3>1. b <= chain /\ a <= chain
            BY <1>2, <2>1, <2>2, <2>4
        <3>2. header_time'[a] = header_time[a] /\ header_time'[b] = header_time[b]
            BY <1>2, <2>2, <3>1
        <3>. QED
            BY <1>0, <2>1, <3>1, <3>2 DEF HeadersMonotone
    <2>. QED
        BY <2>3, <2>4
<1>6. HeightsInRange'
    <2>1. UNCHANGED <<current_height, pc, last_height, loop_height, target>>
        BY DEF NodeFrame, tracker_vars, main_vars
    <2>2. target \in Nat /\ last_height \in Heights \cup {NoHeight}
        BY <1>0 DEF TypeOK
    <2>3. pc = "collect" => target <= chain
        BY <1>0 DEF HeightsInRange
    <2>4. last_height # NoHeight => last_height <= chain
        BY <1>0 DEF HeightsInRange
    <2>. QED
        BY <1>0, <1>2, <2>1, <2>2, <2>3, <2>4 DEF HeightsInRange, Heights, NoHeight
<1>7. LastBlockTimeBelow'
    <2>. SUFFICES ASSUME last_block_time # NoTime
                  PROVE  \E k \in Heights : /\ k < NextToCollect
                                            /\ last_block_time = header_time'[k]
        BY DEF LastBlockTimeBelow, NextToCollect, NodeFrame, main_vars
    <2>1. PICK k \in Heights : k < NextToCollect /\ last_block_time = header_time[k]
        BY <1>0 DEF LastBlockTimeBelow
    <2>2. k <= chain
        <3>1. CASE pc = "collect"
            BY <1>0, <2>1, <3>1 DEF NextToCollect, HeightsInRange, TypeOK, Heights
        <3>2. CASE pc # "collect"
            BY <1>0, <2>1, <3>2 DEF NextToCollect, HeightsInRange, TypeOK, Heights,
                                   NoHeight
        <3>. QED
            BY <3>1, <3>2
    <2>. QED
        BY <1>0, <2>1, <2>2, <1>2 DEF TypeOK, Heights
<1>. QED
    BY <1>3, <1>4, <1>5, <1>6, <1>7 DEF IInv

LEMMA NodeRestartIInv ==
    ASSUME IInv, NodeRestart, UNCHANGED <<clock, work>>, NodeFrame
    PROVE  IInv'
<1>1. TypeOK'
    BY DEF IInv, TypeOK, TrackerTypeOK, NodeRestart, NodeFrame, tracker_vars,
           main_vars, Snapshots, Readings, Absent
<1>. QED
    BY <1>1 DEF IInv, TimesNotInFuture, HeadersMonotone, LastBlockTimeBelow,
           NextToCollect, HeightsInRange, NodeRestart, NodeFrame, tracker_vars,
           main_vars

LEMMA TickIInv ==
    ASSUME IInv, Tick, UNCHANGED <<node_vars, work, restarts>>, NodeFrame
    PROVE  IInv'
<1>1. TypeOK'
    BY DEF IInv, TypeOK, TrackerTypeOK, Tick, NodeFrame, tracker_vars,
           main_vars, node_vars
<1>2. TimesNotInFuture'
    <2>1. clock \in Nat /\ clock' = clock + 1
        BY DEF IInv, TypeOK, Tick
    <2>2. \A p \in Phases : phase_start_times'[p] <= clock'
        <3>1. \A p \in Phases : phase_start_times[p] \in Int /\ phase_start_times[p] <= clock
            BY DEF IInv, TypeOK, TrackerTypeOK, TimesNotInFuture, NoTime
        <3>2. phase_start_times' = phase_start_times
            BY DEF NodeFrame, tracker_vars
        <3>. QED
            BY <2>1, <3>1, <3>2
    <2>3. first_seen' <= clock'
        BY <2>1 DEF IInv, TypeOK, TimesNotInFuture, NodeFrame
    <2>4. \A h \in Heights : h <= chain' => header_time'[h] <= clock'
        BY <2>1 DEF IInv, TypeOK, TimesNotInFuture, node_vars
    <2>. QED
        BY <2>2, <2>3, <2>4 DEF TimesNotInFuture
<1>. QED
    BY <1>1, <1>2 DEF IInv, HeadersMonotone, LastBlockTimeBelow,
           NextToCollect, HeightsInRange, Tick, NodeFrame, tracker_vars,
           main_vars, node_vars

LEMMA ConsensusPollIInv ==
    ASSUME IInv, ConsensusPoll
    PROVE  IInv'
<1>0. TypeOK /\ TimesNotInFuture /\ HeadersMonotone /\ HeightsInRange
      /\ LastBlockTimeBelow
    BY DEF IInv
<1>. DEFINE h == chain + 1
<1>1. h \in Heights /\ clock \in Nat /\ node_round \in Nat /\ node_step \in Nat
    BY <1>0 DEF TypeOK, Heights
<1>2. \A p \in Phases : phase_start_times[p] <= clock
    BY <1>0 DEF TimesNotInFuture
<1>3. /\ TrackerTypeOK'
      /\ current_height' = h
      /\ \A p \in Phases : phase_start_times'[p] <= clock
    <2>1. Observe(h, node_round, node_step, clock)
        BY DEF ConsensusPoll
    <2>2. TrackerTypeOK /\ h \in Nat
        BY <1>0, <1>1 DEF TypeOK, Heights
    <2>. QED
        BY <1>1, <1>2, <2>1, <2>2, ObserveTracker
<1>4. UNCHANGED <<node_vars, clock, main_vars, work, recorded, restarts, baseline>>
    BY DEF ConsensusPoll
<1>5. first_seen' \in Nat /\ first_seen' <= clock
    BY <1>0, <1>1 DEF ConsensusPoll, TypeOK, TimesNotInFuture
<1>6. /\ block_data_buffer' \in [Heights -> PhaseRecords \cup {NoRecord}]
      /\ produced' \in [Heights -> PhaseRecords \cup {NoRecord}]
      /\ observed_for' \in [Heights -> Nat]
    <2>1. CASE Emits(h)
        <3>1. current_height \in Nat
            BY <1>0, <2>1 DEF Emits, TypeOK, TrackerTypeOK
        <3>2. Finalize(clock) \in PhaseRecords
            BY <1>0, <1>1, <1>2, <3>1, FinalizeType DEF TypeOK
        <3>3. clock - first_seen \in Nat
            BY <1>0, <1>1 DEF TypeOK, TimesNotInFuture
        <3>4. /\ block_data_buffer' =
                    [block_data_buffer EXCEPT ![current_height] = Finalize(clock)]
              /\ produced' = [produced EXCEPT ![current_height] = Finalize(clock)]
              /\ observed_for' =
                    [observed_for EXCEPT ![current_height] = clock - first_seen]
            BY <2>1 DEF ConsensusPoll
        <3>5. /\ block_data_buffer \in [Heights -> PhaseRecords \cup {NoRecord}]
              /\ produced \in [Heights -> PhaseRecords \cup {NoRecord}]
              /\ observed_for \in [Heights -> Nat]
            BY <1>0 DEF TypeOK
        <3>. QED
            BY <3>2, <3>3, <3>4, <3>5
    <2>2. CASE ~ Emits(h)
        BY <1>0, <2>2 DEF ConsensusPoll, TypeOK
    <2>. QED
        BY <2>1, <2>2
<1>7. TypeOK'
    BY <1>0, <1>3, <1>4, <1>5, <1>6 DEF TypeOK, node_vars, main_vars
<1>8. TimesNotInFuture'
    BY <1>0, <1>3, <1>4, <1>5 DEF TimesNotInFuture, node_vars
<1>9. HeadersMonotone' /\ LastBlockTimeBelow'
    BY <1>0, <1>4 DEF HeadersMonotone, LastBlockTimeBelow, NextToCollect,
                     node_vars, main_vars
<1>10. HeightsInRange'
    BY <1>0, <1>1, <1>3, <1>4 DEF HeightsInRange, node_vars, main_vars
<1>. QED
    BY <1>7, <1>8, <1>9, <1>10 DEF IInv

LEMMA MonitorStatusIInv ==
    ASSUME IInv, MonitorStatus
    PROVE  IInv'
<1>0. TypeOK /\ TimesNotInFuture /\ HeadersMonotone /\ HeightsInRange
      /\ LastBlockTimeBelow
    BY DEF IInv
<1>1. UNCHANGED <<tracker_vars, node_vars, clock, block_data_buffer,
                  last_block_time, out, previous_metrics, produced,
                  observed_for, first_seen, work, recorded, restarts>>
    BY DEF MonitorStatus
<1>2. chain \in Heights /\ pc = "poll"
    BY <1>0 DEF TypeOK, Heights, MonitorStatus
<1>3. CASE last_height = NoHeight /\ last_height' = chain /\ baseline' = chain
           /\ UNCHANGED <<pc, loop_height, target>>
    <2>1. last_block_time = NoTime
        BY <1>0, <1>2, <1>3 DEF LastBlockTimeBelow, NextToCollect, Heights,
                               NoHeight
    <2>. QED
        BY <1>0, <1>1, <1>2, <1>3, <2>1 DEF IInv, TypeOK, TrackerTypeOK,
           TimesNotInFuture, HeadersMonotone, HeightsInRange, LastBlockTimeBelow,
           tracker_vars, node_vars
<1>4. CASE /\ last_height # NoHeight /\ chain > last_height
           /\ pc' = "collect" /\ loop_height' = last_height + 1
           /\ target' = chain /\ UNCHANGED <<last_height, baseline>>
    <2>1. last_height \in Heights
        BY <1>0, <1>4 DEF TypeOK
    <2>2. NextToCollect' = NextToCollect
        BY <1>2, <1>4 DEF NextToCollect
    <2>3. /\ chain' = chain /\ current_height' = current_height
          /\ clock' = clock /\ header_time' = header_time
          /\ phase_start_times' = phase_start_times
        BY <1>1 DEF tracker_vars, node_vars
    <2>4. HeightsInRange'
        BY <1>0, <1>4, <2>1, <2>3 DEF HeightsInRange, TypeOK, Heights
    <2>5. LastBlockTimeBelow'
        BY <1>0, <1>1, <2>2, <2>3 DEF LastBlockTimeBelow
    <2>6. TypeOK'
        <3>1. pc' \in {"poll", "collect"} /\ loop_height' \in Nat
              /\ target' \in Nat
            BY <1>2, <1>4, <2>1 DEF Heights
        <3>. QED
            BY <1>0, <1>1, <1>4, <3>1 DEF TypeOK, TrackerTypeOK, tracker_vars,
               node_vars
    <2>7. TimesNotInFuture' /\ HeadersMonotone'
        BY <1>0, <2>3, <1>1 DEF TimesNotInFuture, HeadersMonotone
    <2>. QED
        BY <2>4, <2>5, <2>6, <2>7 DEF IInv
<1>. QED
    BY <1>3, <1>4 DEF MonitorStatus

LEMMA CollectBlockIInv ==
    ASSUME IInv, CollectBlock
    PROVE  IInv'
<1>0. TypeOK /\ TimesNotInFuture /\ HeadersMonotone /\ HeightsInRange
      /\ LastBlockTimeBelow
    BY DEF IInv
<1>. DEFINE h == loop_height
<1>1. UNCHANGED <<tracker_vars, node_vars, clock, target, produced,
                  observed_for, first_seen, work, restarts, baseline>>
    BY DEF CollectBlock
<1>2. /\ pc = "collect" /\ last_height \in Heights
      /\ h \in last_height + 1..target /\ target <= chain
      /\ chain \in InitHeight..MaxHeight /\ h \in Heights
    BY <1>0 DEF CollectBlock, HeightsInRange, TypeOK, Heights
<1>3. EndIteration
    BY DEF CollectBlock
<1>4. /\ NextToCollect' = h + 1
      /\ pc' \in {"poll", "collect"} /\ loop_height' \in Nat
      /\ last_height' \in Heights
      /\ HeightsInRange'
    <2>1. chain' = chain /\ current_height' = current_height /\ target' = target
        BY <1>1 DEF tracker_vars, node_vars
    <2>2. current_height \in Heights \cup {NoHeight} /\ target \in Nat
        BY <1>0 DEF HeightsInRange, TypeOK
    <2>3. CASE h = target
        <3>1. pc' = "poll" /\ last_height' = target /\ loop_height' = h
            BY <1>3, <2>3 DEF EndIteration
        <3>. QED
            BY <1>2, <2>1, <2>2, <2>3, <3>1 DEF NextToCollect, HeightsInRange,
               Heights
    <2>4. CASE h # target
        <3>1. loop_height' = h + 1 /\ pc' = pc /\ last_height' = last_height
            BY <1>3, <2>4 DEF EndIteration
        <3>. QED
            BY <1>2, <2>1, <2>2, <2>4, <3>1 DEF NextToCollect, HeightsInRange,
               Heights
    <2>. QED
        BY <2>3, <2>4
<1>5. BlockTime(h) \in Nat
    <2>1. CASE last_block_time = NoTime
        BY <2>1 DEF BlockTime
    <2>2. CASE last_block_time # NoTime
        <3>1. PICK k \in Heights : k < h /\ last_block_time = header_time[k]
            BY <1>0, <1>2, <2>2 DEF LastBlockTimeBelow, NextToCollect
        <3>2. k <= h /\ h <= chain
            <4>1. target \in Nat /\ k \in Nat
                BY <1>0 DEF TypeOK, Heights
            <4>. QED
                BY <1>2, <3>1, <4>1
        <3>3. header_time[k] <= header_time[h]
            BY <1>0, <1>2, <3>1, <3>2 DEF HeadersMonotone
        <3>. QED
            BY <1>0, <1>2, <2>2, <3>1, <3>3 DEF BlockTime, TypeOK
    <2>. QED
        BY <2>1, <2>2
<1>6. CASE Collected(h)
    <2>1. PICK metrics_ok \in IF FetchCanFail THEN BOOLEAN ELSE {TRUE} :
            LET exec == IF metrics_ok THEN CalculateDeltas(counters)
                        ELSE NoExecution
            IN  /\ previous_metrics' = IF metrics_ok THEN counters
                                       ELSE previous_metrics
                /\ recorded' =
                      IF exec = NoExecution THEN recorded
                      ELSE [s \in Series |-> recorded[s] + PrevValue(exec, s)]
                /\ block_data_buffer' = [block_data_buffer EXCEPT ![h] = NoRecord]
                /\ last_block_time' = header_time[h]
                /\ out' = Append(out, [height     |-> h,
                                       block_time |-> BlockTime(h),
                                       consensus  |-> block_data_buffer[h]])
        BY <1>6 DEF Collected
    <2>. DEFINE exec == IF metrics_ok THEN CalculateDeltas(counters)
                        ELSE NoExecution
    <2>2. exec \in Snapshots \cup {NoMetrics}
        BY <1>0, CalculateDeltasType DEF TypeOK, NoExecution
    <2>3. recorded' \in [Series -> Nat]
        <3>1. CASE exec = NoExecution
            BY <1>0, <2>1, <3>1 DEF TypeOK
        <3>2. CASE exec # NoExecution
            <4>1. exec \in Snapshots
                BY <2>2, <3>2 DEF NoExecution
            <4>2. \A s \in Series : PrevValue(exec, s) \in Nat
                BY <4>1, PrevValueType
            <4>. QED
                BY <1>0, <2>1, <3>2, <4>2 DEF TypeOK
        <3>. QED
            BY <3>1, <3>2
    <2>4. previous_metrics' \in Snapshots \cup {NoMetrics}
        BY <1>0, <2>1 DEF TypeOK
    <2>5. /\ block_data_buffer' \in [Heights -> PhaseRecords \cup {NoRecord}]
          /\ last_block_time' \in Nat
        BY <1>0, <1>2, <2>1 DEF TypeOK
    <2>6. out' \in Seq(OutRecords)
        BY <1>0, <1>2, <1>5, <2>1 DEF TypeOK, OutRecords
    <2>7. TypeOK'
        BY <1>0, <1>1, <1>4, <2>3, <2>4, <2>5, <2>6 DEF TypeOK, TrackerTypeOK,
           tracker_vars, node_vars, Heights
    <2>8. LastBlockTimeBelow'
        BY <1>1, <1>2, <1>4, <2>1 DEF LastBlockTimeBelow, node_vars
    <2>. QED
        BY <1>0, <1>1, <1>4, <2>7, <2>8 DEF IInv, TimesNotInFuture,
           HeadersMonotone, tracker_vars, node_vars
<1>7. CASE Skipped
    <2>1. UNCHANGED <<previous_metrics, recorded, block_data_buffer,
                      last_block_time, out>>
        BY <1>7 DEF Skipped
    <2>2. TypeOK'
        BY <1>0, <1>1, <1>4, <2>1 DEF TypeOK, TrackerTypeOK, tracker_vars,
           node_vars
    <2>3. LastBlockTimeBelow'
        <3>1. NextToCollect = h /\ h \in Nat /\ header_time' = header_time
            BY <1>1, <1>2 DEF NextToCollect, node_vars, Heights
        <3>2. \A k \in Heights : k < h => k < NextToCollect'
            BY <1>4, <3>1 DEF Heights
        <3>. QED
            BY <1>0, <2>1, <3>1, <3>2 DEF LastBlockTimeBelow
    <2>. QED
        BY <1>0, <1>1, <1>4, <2>2, <2>3 DEF IInv, TimesNotInFuture,
           HeadersMonotone, tracker_vars, node_vars
<1>. QED
    BY <1>6, <1>7 DEF CollectBlock

LEMMA NextIInv == IInv /\ [Next]_vars => IInv'
<1>. SUFFICES ASSUME IInv, [Next]_vars PROVE IInv'
    OBVIOUS
<1>1. CASE Node /\ NodeFrame
    <2>1. CASE NodeStep /\ UNCHANGED <<clock, work, restarts>>
        BY <1>1, <2>1, NodeStepIInv
    <2>2. CASE NodeCommit /\ UNCHANGED <<clock, restarts>>
        BY <1>1, <2>2, NodeCommitIInv
    <2>3. CASE NodeRestart /\ UNCHANGED <<clock, work>>
        BY <1>1, <2>3, NodeRestartIInv
    <2>4. CASE Tick /\ UNCHANGED <<node_vars, work, restarts>>
        BY <1>1, <2>4, TickIInv
    <2>. QED
        BY <1>1, <2>1, <2>2, <2>3, <2>4 DEF Node
<1>2. CASE ConsensusPoll
    BY <1>2, ConsensusPollIInv
<1>3. CASE MonitorStatus
    BY <1>3, MonitorStatusIInv
<1>4. CASE CollectBlock
    BY <1>4, CollectBlockIInv
<1>5. CASE UNCHANGED vars
    BY <1>5 DEF IInv, vars, tracker_vars, node_vars, main_vars, ghost_vars,
       TypeOK, TrackerTypeOK, TimesNotInFuture, HeadersMonotone,
       HeightsInRange, LastBlockTimeBelow, NextToCollect
<1>. QED
    BY <1>1, <1>2, <1>3, <1>4, <1>5 DEF Next, NodeFrame

-----------------------------------------------------------------------------
(***************************************************************************)
(* Theorems.                                                               *)
(***************************************************************************)

\* The strengthened invariant holds in every reachable state of the
\* collector and the node it observes.
THEOREM IInvInvariant == Spec => []IInv
<1>. QED
    BY InitIInv, NextIInv, PTL DEF Spec

\* Type correctness of both threads: every duration, block time, execution
\* delta and output line the collector computes is well formed; in
\* particular no subtraction of clock readings (lines 80, 93, 431) goes
\* negative, so the int/float fields are never negative.
THEOREM TypeCorrect == Spec => []TypeOK
<1>1. IInv => TypeOK
    BY DEF IInv
<1>. QED
    BY <1>1, IInvInvariant, PTL

=============================================================================

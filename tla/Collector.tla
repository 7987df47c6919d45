----------------------------- MODULE Collector -----------------------------
(***************************************************************************)
(* BlockTimingCollector of scripts/block_timing_collector.py (lines        *)
(* 343-574) observing one node.                                            *)
(*                                                                         *)
(* Two threads share block_data_buffer (line 363):                         *)
(*  - the consensus thread (monitor_consensus_state, lines 503-520) feeds  *)
(*    snapshots of the node's consensus state to the PhaseTracker and      *)
(*    stores each record it returns under the record's height;            *)
(*  - the main thread (monitor_blocks, lines 522-574) polls the committed  *)
(*    height and, for every height above the last one seen, runs           *)
(*    collect_block_data (lines 388-501), which pops that height's record  *)
(*    from the buffer and appends one line to the output file.            *)
(* Python dict operations are atomic under the GIL, so the insert (line    *)
(* 515) and the check-and-pop (lines 477-478, only the main thread pops)   *)
(* are single steps.  One iteration of collect_block_data is one step: its *)
(* only access to shared state is the pop, and what it reads from the node *)
(* is read at that step.                                                   *)
(*                                                                         *)
(* The node is the environment: it moves through consensus steps and      *)
(* rounds, commits blocks (header time = the clock at commit, strictly    *)
(* increasing as in BFT time), adds execution time to its cumulative      *)
(* per-module counters on every block, and may restart, which clears the  *)
(* counters.                                                               *)
(***************************************************************************)
EXTENDS PhaseTracker, MetricsDelta, Sequences

CONSTANTS
    InitHeight,     \* committed height when the collector starts
    MaxHeight,      \* last height the node commits in a run
    MaxRound,       \* highest consensus round the node reaches
    Steps,          \* step values the consensus_state endpoint reports
    MaxClock,       \* bound of the clock
    MaxWork,        \* most execution time a module adds in one block
    MaxRestarts,    \* bound on node restarts
    FetchCanFail    \* whether an HTTP fetch may fail (timeout, non-200)

ASSUME ConstantsAssumption ==
    /\ InitHeight \in Nat \ {0}
    /\ MaxHeight \in Nat /\ InitHeight <= MaxHeight
    /\ MaxRound \in Nat
    /\ Steps \subseteq Nat /\ 1 \in Steps
    /\ MaxClock \in Nat
    /\ MaxWork \in Nat \ {0}
    /\ MaxRestarts \in Nat
    /\ FetchCanFail \in BOOLEAN

VARIABLES
    \* the node
    chain,              \* latest committed height
    node_round,         \* consensus round at height chain + 1
    node_step,          \* consensus step at height chain + 1
    header_time,        \* height -> header time of the committed block
    counters,           \* series -> cumulative execution time, or Absent
    clock,              \* time.time() of both threads
    \* shared between the threads
    block_data_buffer,  \* height -> phase record, or NoRecord
    \* main thread (the tracker's and calculator's fields come by EXTENDS)
    last_height,        \* self.last_height, or NoHeight
    pc,                 \* "poll": at line 541; "collect": in the loop of 555
    loop_height,        \* loop variable `height` of line 555
    target,             \* current_height of line 547 during the loop
    last_block_time,    \* self.last_block_time, or NoTime
    out,                \* lines written to the output file (line 561)
    \* history, read only by properties
    produced,           \* height -> the record the tracker returned for it
    observed_for,       \* height -> time the tracker spent on it
    first_seen,         \* instant the tracker started its current height
    work,               \* series -> execution time since the baseline scrape
    recorded,           \* series -> sum of the deltas written out
    restarts,           \* node restarts so far
    baseline            \* first status height (line 551), or NoHeight

node_vars == <<chain, node_round, node_step, header_time, counters>>
main_vars == <<last_height, pc, loop_height, target, last_block_time, out,
               previous_metrics>>
ghost_vars == <<produced, observed_for, first_seen, work, recorded,
                restarts, baseline>>
vars == <<tracker_vars, node_vars, clock, block_data_buffer, main_vars,
          ghost_vars>>

Heights == 1..(MaxHeight + 1)
NoRecord == <<>>
NoExecution == NoMetrics

(***************************************************************************)
(* One line of the output file, reduced to the fields the properties read: *)
(* the execution section is summed into the history variable `recorded`   *)
(* instead of being kept per line.                                        *)
(***************************************************************************)
OutRecords == [height: Heights, block_time: Nat,
               consensus: PhaseRecords \cup {NoRecord}]

-----------------------------------------------------------------------------
(***************************************************************************)
(* The node.                                                               *)
(***************************************************************************)

\* A later step of the same round, or the first step of the next round.
NodeStep ==
    /\ \/ \E s \in Steps : s > node_step /\ node_step' = s
                            /\ UNCHANGED node_round
       \/ node_round < MaxRound /\ node_round' = node_round + 1
                                /\ node_step' = 1
    /\ UNCHANGED <<chain, header_time, counters>>

\* Block chain + 1 is committed; every series gains some execution time.
NodeCommit ==
    /\ chain < MaxHeight
    /\ clock > header_time[chain]
    /\ \E w \in [Series -> 1..MaxWork] :
          /\ counters' = [s \in Series |-> PrevValue(counters, s) + w[s]]
          /\ work' = IF previous_metrics = NoMetrics THEN work
                     ELSE [s \in Series |-> work[s] + w[s]]
    /\ chain' = chain + 1
    /\ header_time' = [header_time EXCEPT ![chain + 1] = clock]
    /\ node_round' = 0
    /\ node_step' = 1

\* A restarted node exposes no counter until its modules run again.
NodeRestart ==
    /\ restarts < MaxRestarts
    /\ counters' = [s \in Series |-> Absent]
    /\ restarts' = restarts + 1
    /\ UNCHANGED <<chain, node_round, node_step, header_time>>

Tick ==
    /\ clock < MaxClock
    /\ clock' = clock + 1

Node ==
    \/ NodeStep /\ UNCHANGED <<clock, work, restarts>>
    \/ NodeCommit /\ UNCHANGED <<clock, restarts>>
    \/ NodeRestart /\ UNCHANGED <<clock, work>>
    \/ Tick /\ UNCHANGED <<node_vars, work, restarts>>

-----------------------------------------------------------------------------
\* Mutant of ConsensusPoll: a record is emitted on every poll of a known
\* height, as if line 62 did not compare the heights.
ConsensusPollEveryPoll ==
    LET h == chain + 1
    IN  /\ Observe(h, node_round, node_step, clock)
        /\ IF current_height # NoHeight
           THEN /\ block_data_buffer' =
                       [block_data_buffer EXCEPT ![current_height] = Finalize(clock)]
                /\ produced' = [produced EXCEPT ![current_height] = Finalize(clock)]
                /\ observed_for' =
                       [observed_for EXCEPT ![current_height] = clock - first_seen]
           ELSE UNCHANGED <<block_data_buffer, produced, observed_for>>
        /\ first_seen' = IF current_height' # current_height THEN clock
                         ELSE first_seen
        /\ UNCHANGED <<node_vars, clock, main_vars, work, recorded, restarts,
                       baseline>>

\* Mutant of ConsensusPoll: the record is stored under the height just
\* observed instead of the finalized one.
ConsensusPollKeyedByNewHeight ==
    LET h == chain + 1
    IN  /\ Observe(h, node_round, node_step, clock)
        /\ IF Emits(h)
           THEN /\ block_data_buffer' =
                       [block_data_buffer EXCEPT ![h] = Finalize(clock)]
                /\ produced' = [produced EXCEPT ![current_height] = Finalize(clock)]
                /\ observed_for' =
                       [observed_for EXCEPT ![current_height] = clock - first_seen]
           ELSE UNCHANGED <<block_data_buffer, produced, observed_for>>
        /\ first_seen' = IF current_height' # current_height THEN clock
                         ELSE first_seen
        /\ UNCHANGED <<node_vars, clock, main_vars, work, recorded, restarts,
                       baseline>>

(***************************************************************************)
(* The consensus thread: one iteration of lines 507-520 whose fetch        *)
(* returned a snapshot.  A failed fetch or a malformed snapshot changes    *)
(* nothing (the exception is swallowed at line 516).                       *)
(***************************************************************************)
ConsensusPoll ==
    LET h == chain + 1
    IN  /\ Observe(h, node_round, node_step, clock)
        /\ IF Emits(h)
           THEN /\ block_data_buffer' =
                       [block_data_buffer EXCEPT ![current_height] = Finalize(clock)]
                /\ produced' = [produced EXCEPT ![current_height] = Finalize(clock)]
                /\ observed_for' =
                       [observed_for EXCEPT ![current_height] = clock - first_seen]
           ELSE UNCHANGED <<block_data_buffer, produced, observed_for>>
        /\ first_seen' = IF current_height' # current_height THEN clock
                         ELSE first_seen
        /\ UNCHANGED <<node_vars, clock, main_vars, work, recorded, restarts,
                       baseline>>

-----------------------------------------------------------------------------
(***************************************************************************)
(* The main thread.                                                        *)
(***************************************************************************)

\* Mutant of MonitorStatus: range(self.last_height, ...) without the + 1.
MonitorStatusFromLast ==
    /\ pc = "poll"
    /\ \/ /\ last_height = NoHeight
          /\ last_height' = chain
          /\ baseline' = chain
          /\ UNCHANGED <<pc, loop_height, target>>
       \/ /\ last_height # NoHeight
          /\ chain > last_height
          /\ pc' = "collect"
          /\ loop_height' = last_height
          /\ target' = chain
          /\ UNCHANGED <<last_height, baseline>>
    /\ UNCHANGED <<tracker_vars, node_vars, clock, block_data_buffer,
                   last_block_time, out, previous_metrics, produced,
                   observed_for, first_seen, work, recorded, restarts>>

\* Mutant of MonitorStatus: a new block is noticed only two heights later.
MonitorStatusOffByOne ==
    /\ pc = "poll"
    /\ \/ /\ last_height = NoHeight
          /\ last_height' = chain
          /\ baseline' = chain
          /\ UNCHANGED <<pc, loop_height, target>>
       \/ /\ last_height # NoHeight
          /\ chain > last_height + 1
          /\ pc' = "collect"
          /\ loop_height' = last_height + 1
          /\ target' = chain
          /\ UNCHANGED <<last_height, baseline>>
    /\ UNCHANGED <<tracker_vars, node_vars, clock, block_data_buffer,
                   last_block_time, out, previous_metrics, produced,
                   observed_for, first_seen, work, recorded, restarts>>

\* Mutant of MonitorStatus: the loop runs one height past the status height.
MonitorStatusPastTip ==
    /\ pc = "poll"
    /\ \/ /\ last_height = NoHeight
          /\ last_height' = chain
          /\ baseline' = chain
          /\ UNCHANGED <<pc, loop_height, target>>
       \/ /\ last_height # NoHeight
          /\ chain > last_height
          /\ pc' = "collect"
          /\ loop_height' = last_height + 1
          /\ target' = chain + 1
          /\ UNCHANGED <<last_height, baseline>>
    /\ UNCHANGED <<tracker_vars, node_vars, clock, block_data_buffer,
                   last_block_time, out, previous_metrics, produced,
                   observed_for, first_seen, work, recorded, restarts>>

(***************************************************************************)
(* Lines 541-566 with a status answer: the first answer only records the   *)
(* height (line 551); a higher height starts the loop over                 *)
(* last_height + 1 .. current_height.  An unanswered status (lines         *)
(* 543-545) and an unchanged height change nothing.                        *)
(***************************************************************************)
MonitorStatus ==
    /\ pc = "poll"
    /\ \/ /\ last_height = NoHeight
          /\ last_height' = chain
          /\ baseline' = chain
          /\ UNCHANGED <<pc, loop_height, target>>
       \/ /\ last_height # NoHeight
          /\ chain > last_height
          /\ pc' = "collect"
          /\ loop_height' = last_height + 1
          /\ target' = chain
          /\ UNCHANGED <<last_height, baseline>>
    /\ UNCHANGED <<tracker_vars, node_vars, clock, block_data_buffer,
                   last_block_time, out, previous_metrics, produced,
                   observed_for, first_seen, work, recorded, restarts>>

\* Mutant of BlockTime: operands of the subtraction swapped.
BlockTimeSwapped(h) ==
    IF last_block_time = NoTime THEN 0 ELSE last_block_time - header_time[h]

(***************************************************************************)
(* Lines 407-431: seconds since the previous fetched block's header time,  *)
(* 0 when there is none yet.                                               *)
(***************************************************************************)
BlockTime(h) ==
    IF last_block_time = NoTime THEN 0 ELSE header_time[h] - last_block_time

\* Mutant of EndIteration: last_height not advanced (line 566 dropped).
EndIterationKeepsLast ==
    IF loop_height = target
    THEN /\ pc' = "poll"
         /\ UNCHANGED <<last_height, loop_height>>
    ELSE /\ loop_height' = loop_height + 1
         /\ UNCHANGED <<pc, last_height>>

\* Lines 555 and 566: the next height, or the end of the loop.
EndIteration ==
    IF loop_height = target
    THEN /\ pc' = "poll"
         /\ last_height' = target
         /\ UNCHANGED loop_height
    ELSE /\ loop_height' = loop_height + 1
         /\ UNCHANGED <<pc, last_height>>

\* Mutant of Collected: the baseline is never replaced (line 173 dropped).
CollectedKeepsBaseline(h) ==
    \E metrics_ok \in IF FetchCanFail THEN BOOLEAN ELSE {TRUE} :
      LET exec == IF metrics_ok THEN CalculateDeltas(counters) ELSE NoExecution
      IN  /\ previous_metrics' =
                IF metrics_ok /\ previous_metrics = NoMetrics THEN counters
                ELSE previous_metrics
          /\ recorded' =
                IF exec = NoExecution THEN recorded
                ELSE [s \in Series |-> recorded[s] + PrevValue(exec, s)]
          /\ block_data_buffer' = [block_data_buffer EXCEPT ![h] = NoRecord]
          /\ last_block_time' = header_time[h]
          /\ out' = Append(out, [height     |-> h,
                                 block_time |-> BlockTime(h),
                                 consensus  |-> block_data_buffer[h]])

\* Mutant of Collected: a failed scrape clears the baseline, as if line 173
\* stored the missing snapshot.
CollectedClearsBaseline(h) ==
    \E metrics_ok \in IF FetchCanFail THEN BOOLEAN ELSE {TRUE} :
      LET exec == IF metrics_ok THEN CalculateDeltas(counters) ELSE NoExecution
      IN  /\ previous_metrics' = IF metrics_ok THEN counters ELSE NoMetrics
          /\ recorded' =
                IF exec = NoExecution THEN recorded
                ELSE [s \in Series |-> recorded[s] + PrevValue(exec, s)]
          /\ block_data_buffer' = [block_data_buffer EXCEPT ![h] = NoRecord]
          /\ last_block_time' = header_time[h]
          /\ out' = Append(out, [height     |-> h,
                                 block_time |-> BlockTime(h),
                                 consensus  |-> block_data_buffer[h]])

(***************************************************************************)
(* collect_block_data(h) when the block fetch answered (lines 394-501),    *)
(* with the metrics fetch answered or not (line 453): header time and      *)
(* block time (403-449), metric deltas (451-470), the buffered consensus   *)
(* record popped if present (476-484), and the line written (558-561).     *)
(* Transaction analysis and the ABCI log section are not modelled.         *)
(***************************************************************************)
Collected(h) ==
    \E metrics_ok \in IF FetchCanFail THEN BOOLEAN ELSE {TRUE} :
      LET exec == IF metrics_ok THEN CalculateDeltas(counters) ELSE NoExecution
      IN  /\ previous_metrics' = IF metrics_ok THEN counters ELSE previous_metrics
          /\ recorded' =
                IF exec = NoExecution THEN recorded
                ELSE [s \in Series |-> recorded[s] + PrevValue(exec, s)]
          /\ block_data_buffer' = [block_data_buffer EXCEPT ![h] = NoRecord]
          /\ last_block_time' = header_time[h]
          /\ out' = Append(out, [height     |-> h,
                                 block_time |-> BlockTime(h),
                                 consensus  |-> block_data_buffer[h]])

\* Lines 398-399: no block, no line; the loop still moves on.
Skipped ==
    /\ FetchCanFail
    /\ UNCHANGED <<previous_metrics, recorded, block_data_buffer,
                   last_block_time, out>>

\* One iteration of the loop of lines 555-564.
CollectBlock ==
    /\ pc = "collect"
    /\ Collected(loop_height) \/ Skipped
    /\ EndIteration
    /\ UNCHANGED <<tracker_vars, node_vars, clock, target, produced,
                   observed_for, first_seen, work, restarts, baseline>>

-----------------------------------------------------------------------------
Init ==
    /\ TrackerInit
    /\ previous_metrics = NoMetrics
    /\ chain = InitHeight
    /\ node_round = 0
    /\ node_step \in Steps
    /\ header_time = [h \in Heights |-> 0]
    /\ counters \in [Series -> {Absent} \cup 1..MaxWork]
    /\ clock = 0
    /\ block_data_buffer = [h \in Heights |-> NoRecord]
    /\ last_height = NoHeight
    /\ pc = "poll"
    /\ loop_height = 0
    /\ target = 0
    /\ last_block_time = NoTime
    /\ out = <<>>
    /\ produced = [h \in Heights |-> NoRecord]
    /\ observed_for = [h \in Heights |-> 0]
    /\ first_seen = 0
    /\ work = [s \in Series |-> 0]
    /\ recorded = [s \in Series |-> 0]
    /\ restarts = 0
    /\ baseline = NoHeight

Next ==
    \/ Node /\ UNCHANGED <<tracker_vars, block_data_buffer, main_vars,
                          produced, observed_for, first_seen, recorded,
                          baseline>>
    \/ ConsensusPoll
    \/ MonitorStatus
    \/ CollectBlock

(***************************************************************************)
(* Both threads loop forever with a sleep (lines 520 and 568) and the      *)
(* node's RPC server is assumed to answer eventually, so each of their     *)
(* steps is weakly fair.                                                   *)
(***************************************************************************)
Fairness ==
    /\ WF_vars(ConsensusPoll)
    /\ WF_vars(MonitorStatus)
    /\ WF_vars(CollectBlock)

Spec == Init /\ [][Next]_vars /\ Fairness

-----------------------------------------------------------------------------
(***************************************************************************)
(* Properties.                                                             *)
(***************************************************************************)

TypeOK ==
    /\ TrackerTypeOK
    /\ previous_metrics \in Snapshots \cup {NoMetrics}
    /\ chain \in InitHeight..MaxHeight
    /\ node_round \in 0..MaxRound
    /\ node_step \in Steps
    /\ header_time \in [Heights -> Nat]
    /\ counters \in Snapshots
    /\ clock \in 0..MaxClock
    /\ block_data_buffer \in [Heights -> PhaseRecords \cup {NoRecord}]
    /\ last_height \in Heights \cup {NoHeight}
    /\ pc \in {"poll", "collect"}
    /\ loop_height \in Nat
    /\ target \in Nat
    /\ last_block_time \in Nat \cup {NoTime}
    /\ out \in Seq(OutRecords)
    /\ produced \in [Heights -> PhaseRecords \cup {NoRecord}]
    /\ observed_for \in [Heights -> Nat]
    /\ first_seen \in Nat
    /\ work \in [Series -> Nat]
    /\ recorded \in [Series -> Nat]
    /\ restarts \in 0..MaxRestarts
    /\ baseline \in Heights \cup {NoHeight}

Written(h) == \E i \in 1..Len(out) : out[i].height = h

(***************************************************************************)
(* Every record the consensus thread produced for a height is in exactly   *)
(* one place: still in block_data_buffer under that height, or in the      *)
(* consensus section of the output line of that height; and no output     *)
(* line carries a record other than the one produced for its own height.  *)
(* This is the hand-off between monitor_consensus_state (line 515) and    *)
(* collect_block_data (lines 477-479) across the one-height lag of the    *)
(* tracker.                                                                *)
(***************************************************************************)
PhaseRecordsConserved ==
    /\ \A h \in Heights :
          block_data_buffer[h] # NoRecord => block_data_buffer[h] = produced[h]
    /\ \A i \in 1..Len(out) :
          out[i].consensus # NoRecord =>
              out[i].consensus = produced[out[i].height]
    /\ \A h \in Heights :
          produced[h] # NoRecord =>
              (block_data_buffer[h] # NoRecord) #
                  (\E i \in 1..Len(out) : out[i].height = h
                                          /\ out[i].consensus = produced[h])

(***************************************************************************)
(* Why records are conserved: the consensus thread never runs ahead of    *)
(* the node's next height, and it has produced records only for heights  *)
(* below the one it is timing, so the record it emits (line 515) is the   *)
(* first one for that height.  This is the inductive invariant behind     *)
(* PhaseRecordsConserved.                                                  *)
(***************************************************************************)
RecordsInv ==
    /\ PhaseRecordsConserved
    /\ current_height # NoHeight => current_height <= chain + 1
    /\ \A h \in Heights :
          produced[h] # NoRecord => current_height # NoHeight /\ h < current_height

(***************************************************************************)
(* The consensus thread finalizes each height at most once: once a record *)
(* exists for a height, no later step replaces it (a second record would  *)
(* overwrite the buffered one at line 515, or disagree with the line      *)
(* already written).                                                        *)
(***************************************************************************)
RecordFinalizedOnce ==
    [][\A h \in Heights : produced[h] # NoRecord => produced'[h] = produced[h]]_vars

(***************************************************************************)
(* The consensus time reported for a height (total_consensus_ms, line 95)  *)
(* never exceeds the time the tracker actually spent on that height, from *)
(* its first snapshot to the snapshot of the next height.                  *)
(***************************************************************************)
ConsensusTimeNeverOverstated ==
    \A h \in Heights :
        produced[h] # NoRecord => produced[h].total <= observed_for[h]

(***************************************************************************)
(* The execution deltas written out (lines 459-466) never add up to more   *)
(* than the execution time the node spent since the baseline scrape, and, *)
(* as long as the node has not restarted, they add up to exactly that     *)
(* time minus what the next scrape will report: nothing is lost or counted *)
(* twice across failed scrapes and catch-up loops.                         *)
(***************************************************************************)
Pending(s) == PrevValue(counters, s) - PrevValue(previous_metrics, s)

ExecutionAccounted ==
    \A s \in Series :
        /\ recorded[s] <= work[s]
        /\ (restarts = 0 /\ previous_metrics # NoMetrics) =>
               recorded[s] + Pending(s) = work[s]

(***************************************************************************)
(* Why the execution deltas add up: before the baseline scrape nothing has *)
(* been counted, and afterwards the deltas written plus what the next      *)
(* scrape would report never exceed the work done, even after a restart   *)
(* (a reset counter's negative delta is dropped at line 163, so the work   *)
(* done between the last scrape and the restart is never recorded).  This *)
(* is the inductive invariant behind ExecutionAccounted.                   *)
(***************************************************************************)
ExecutionInv ==
    /\ ExecutionAccounted
    /\ \A s \in Series :
        /\ previous_metrics = NoMetrics => work[s] = 0 /\ recorded[s] = 0
        /\ previous_metrics # NoMetrics => recorded[s] + Pending(s) <= work[s]

(***************************************************************************)
(* The heights written out are exactly baseline + 1, baseline + 2, ... in  *)
(* order: the spec's "strictly increasing and gap-free" (sections 3, 6).   *)
(***************************************************************************)
OutputGapFree ==
    \A i \in 1..Len(out) : out[i].height = baseline + i

(***************************************************************************)
(* Every height committed after the main thread's first status answer is   *)
(* eventually processed by the loop of line 555.                           *)
(***************************************************************************)
EveryCommittedHeightCollected ==
    \A h \in Heights :
        (last_height # NoHeight /\ chain >= h) ~> (last_height >= h)

(***************************************************************************)
(* The consensus time of a height equals the time the tracker spent on it: *)
(* section 4.1 resets the tracking state "to the new height/round/phase"   *)
(* and accumulates phase durations, so no observed time is lost.           *)
(***************************************************************************)
PhaseTimeFullyAccounted ==
    \A h \in Heights :
        produced[h] # NoRecord => produced[h].total = observed_for[h]

(***************************************************************************)
(* A record that reaches the buffer after the main thread has processed    *)
(* its height does not stay there: section 4.4 makes such an insert a      *)
(* no-op.  (Heights at or below the baseline are never popped either; the *)
(* property leaves them out.)                                              *)
(***************************************************************************)
Processed(h) ==
    /\ baseline # NoHeight
    /\ h > baseline
    /\ \/ h <= last_height
       \/ pc = "collect" /\ h < loop_height

NoOrphanedPhaseRecord ==
    \A h \in Heights : block_data_buffer[h] # NoRecord => ~ Processed(h)

-----------------------------------------------------------------------------
(***************************************************************************)
(* The strengthening of TypeOK that is inductive (proved in               *)
(* CollectorProofs).  Durations and block times are differences of clock  *)
(* readings, so TypeOK needs that no recorded instant lies in the future, *)
(* that header times grow with the height, and that the previous block's  *)
(* header time belongs to a height below the one being collected.        *)
(***************************************************************************)
NextToCollect == IF pc = "collect" THEN loop_height ELSE last_height + 1

TimesNotInFuture ==
    /\ \A p \in Phases : phase_start_times[p] <= clock
    /\ first_seen <= clock
    /\ \A h \in Heights : h <= chain => header_time[h] <= clock

HeadersMonotone ==
    \A a, b \in Heights : a <= b /\ b <= chain => header_time[a] <= header_time[b]

HeightsInRange ==
    /\ current_height \in Heights \cup {NoHeight}
    /\ pc = "collect" =>
           /\ last_height \in Heights
           /\ loop_height \in last_height + 1..target
           /\ target <= chain
    /\ last_height # NoHeight => last_height <= chain

LastBlockTimeBelow ==
    last_block_time # NoTime =>
        \E k \in Heights : /\ k < NextToCollect
                           /\ last_block_time = header_time[k]

IInv ==
    /\ TypeOK
    /\ TimesNotInFuture
    /\ HeadersMonotone
    /\ HeightsInRange
    /\ LastBlockTimeBelow

(***************************************************************************)
(* The strengthening of ConsensusTimeNeverOverstated.  Before the first   *)
(* snapshot nothing is being timed; afterwards, the phase durations of the *)
(* current height, with the open phase closed now, add up to at most the  *)
(* time since its first snapshot: each phase's entry is one interval      *)
(* between two snapshots of this height, and the intervals are disjoint.  *)
(***************************************************************************)
TrackerTimeBound ==
    /\ current_height = NoHeight =>
           /\ phase_durations = [p \in Phases |-> 0]
           /\ last_state = NoPhase
    /\ current_height # NoHeight =>
           SumPhases(Closed(clock)) <= clock - first_seen

TimeInv ==
    /\ IInv
    /\ TrackerTimeBound
    /\ ConsensusTimeNeverOverstated


(***************************************************************************)
(* The output file of monitor_blocks is in height order: every line is for *)
(* a height above the collector's start, below the next height the main    *)
(* thread will collect (lines 555 and 566), and above every earlier line.  *)
(* It fails if the loop of line 555 ever revisits a height, e.g. when      *)
(* last_height is not advanced or the range starts at last_height.         *)
(***************************************************************************)
OutputInOrder ==
    /\ last_height # NoHeight => InitHeight <= last_height
    /\ \A i \in 1..Len(out) : InitHeight < out[i].height
                             /\ out[i].height < NextToCollect
    /\ \A i, j \in 1..Len(out) : i < j => out[i].height < out[j].height

(***************************************************************************)
(* Why the output is gap-free when no fetch fails: until the first status *)
(* answer (line 551) nothing is written and the loop is idle, and from    *)
(* then on the next height monitor_blocks will collect (lines 555-566) is *)
(* the start height plus the number of lines written plus one.  This is   *)
(* the inductive invariant behind OutputGapFree.                           *)
(***************************************************************************)
OutputPosition ==
    /\ OutputGapFree
    /\ baseline = NoHeight => last_height = NoHeight /\ out = <<>> /\ pc = "poll"
    /\ baseline # NoHeight => NextToCollect = baseline + Len(out) + 1

(***************************************************************************)
(* Refinement: the output file of monitor_blocks (lines 558-561) as the    *)
(* abstract OutputLog sees it, the heights of its lines in file order, and *)
(* the node's committed height.                                            *)
(***************************************************************************)
Log == INSTANCE OutputLog WITH Start <- InitHeight, committed <- chain,
                               written <- [i \in 1..Len(out) |-> out[i].height]

(***************************************************************************)
(* The collector implements OutputLog: every line it appends (line 561) is *)
(* for a height committed after it started and above every height already *)
(* in the file, whatever the interleaving with the consensus thread and    *)
(* the failed fetches.                                                     *)
(***************************************************************************)
ImplementsOutputLog == Log!LogSpec

=============================================================================

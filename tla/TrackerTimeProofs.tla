------------------------- MODULE TrackerTimeProofs -------------------------
(***************************************************************************)
(* Proof that the consensus time reported for a height never exceeds the  *)
(* time the tracker spent on that height (ConsensusTimeNeverOverstated),  *)
(* through the inductive invariant TimeInv of Collector.                  *)
(***************************************************************************)
EXTENDS CollectorProofs

USE ConstantsAssumption

-----------------------------------------------------------------------------
(***************************************************************************)
(* Lemmas about closing the open phase (lines 78-80 and 91-93).            *)
(***************************************************************************)

\* Replacing one phase's entry changes the sum by the difference.
LEMMA SumExcept ==
    ASSUME NEW d \in [Phases -> Int], NEW q \in Phases, NEW v \in Int
    PROVE  SumPhases([d EXCEPT ![q] = v]) = SumPhases(d) - d[q] + v
<1>1. q \in {"propose", "prevote", "precommit", "commit", "unknown"}
    BY DEF Phases, NamedPhases
<1>. QED
    BY <1>1 DEF SumPhases, Phases, NamedPhases

\* With a phase open, closing it at u overwrites its entry with u - start.
LEMMA ClosedOpen ==
    ASSUME NEW u \in Int,
           last_state # NoPhase /\ phase_start_times[last_state] # NoTime
    PROVE  Closed(u) = [phase_durations EXCEPT ![last_state] =
                            u - phase_start_times[last_state]]
BY DEF Closed

\* The closed total: the open phase's entry replaced by u - start.
LEMMA SumClosedOpen ==
    ASSUME TrackerTypeOK, NEW u \in Int,
           last_state # NoPhase /\ phase_start_times[last_state] # NoTime
    PROVE  SumPhases(Closed(u))
             = SumPhases(phase_durations) - phase_durations[last_state]
               + (u - phase_start_times[last_state])
<1>1. last_state \in {"propose", "prevote", "precommit", "commit", "unknown"}
    BY DEF TrackerTypeOK, NoPhase, Phases, NamedPhases
<1>2. phase_durations \in [Phases -> Int]
      /\ phase_start_times[last_state] \in Int
    BY <1>1 DEF TrackerTypeOK, NoTime, Phases, NamedPhases
<1>3. Closed(u) = [phase_durations EXCEPT ![last_state] =
                       u - phase_start_times[last_state]]
    BY ClosedOpen
<1>. QED
    BY <1>1, <1>2, <1>3 DEF SumPhases, Phases, NamedPhases

\* One more clock unit adds at most one unit to the closed durations: only
\* the open phase's entry depends on the instant.
LEMMA ClosedTick ==
    ASSUME TrackerTypeOK, NEW t \in Nat,
           \A p \in Phases : phase_start_times[p] <= t
    PROVE  SumPhases(Closed(t + 1)) <= SumPhases(Closed(t)) + 1
<1>1. CASE last_state # NoPhase /\ phase_start_times[last_state] # NoTime
    <2>1. last_state \in Phases
        BY <1>1 DEF TrackerTypeOK, NoPhase, Phases, NamedPhases
    <2>3. phase_durations \in [Phases -> Int]
          /\ phase_start_times[last_state] \in Int
        BY <2>1 DEF TrackerTypeOK, NoTime
    <2>5. SumPhases(Closed(t))
            = SumPhases(phase_durations) - phase_durations[last_state]
              + (t - phase_start_times[last_state])
        BY <1>1, SumClosedOpen
    <2>6. SumPhases(Closed(t + 1))
            = SumPhases(phase_durations) - phase_durations[last_state]
              + ((t + 1) - phase_start_times[last_state])
        BY <1>1, SumClosedOpen
    <2>7. SumPhases(phase_durations) \in Int
          /\ phase_durations[last_state] \in Int
        BY <2>1, <2>3 DEF SumPhases, Phases, NamedPhases
    <2>. QED
        BY <2>3, <2>5, <2>6, <2>7
<1>2. CASE ~ (last_state # NoPhase /\ phase_start_times[last_state] # NoTime)
    <2>1. Closed(t) = phase_durations /\ Closed(t + 1) = phase_durations
        BY <1>2 DEF Closed
    <2>. QED
        BY <2>1 DEF SumPhases, TrackerTypeOK, Phases, NamedPhases
<1>. QED
    BY <1>1, <1>2

\* A phase change closes the previous phase into phase_durations and opens
\* the new one at the same instant: the closed total does not grow.
LEMMA PhaseChangeSum ==
    ASSUME TrackerTypeOK, NEW h, NEW r, NEW phase \in Phases, NEW now \in Nat,
           \A p \in Phases : phase_start_times[p] <= now,
           PhaseChange(h, r, phase, now)
    PROVE  /\ SumPhases(Closed(now))' <= SumPhases(Closed(now))
           /\ SumPhases(Closed(now))' \in Nat
<1>1. Closed(now) \in [Phases -> Nat]
    BY ClosedType
<1>2. /\ phase_durations' = Closed(now)
      /\ last_state' = phase
      /\ phase_start_times' = [phase_start_times EXCEPT ![phase] = now]
    BY DEF PhaseChange
<1>3. Closed(now)' = [Closed(now) EXCEPT ![phase] = 0]
    <2>1. last_state' # NoPhase /\ phase_start_times'[last_state'] = now
          /\ now # NoTime
        BY <1>2 DEF TrackerTypeOK, NoPhase, NoTime, Phases, NamedPhases
    <2>2. Closed(now)' = [phase_durations' EXCEPT ![last_state'] =
                             now - phase_start_times'[last_state']]
        BY <2>1 DEF Closed
    <2>. QED
        BY <1>2, <2>1, <2>2
<1>4. phase \in {"propose", "prevote", "precommit", "commit", "unknown"}
    BY DEF Phases, NamedPhases
<1>. QED
    BY <1>1, <1>3, <1>4 DEF SumPhases, Phases, NamedPhases

\* A new height starts with no duration and only the new phase open, at the
\* instant of the snapshot: its closed total at that instant is 0.
LEMMA FreshSum ==
    ASSUME NEW phase \in Phases, NEW now \in Nat,
           phase_durations' = [p \in Phases |-> 0],
           phase_start_times' = FreshStart(phase, now),
           last_state' \in Phases \cup {NoPhase}
    PROVE  SumPhases(Closed(now))' = 0
BY DEF Closed, FreshStart, SumPhases, Phases, NamedPhases, NoPhase, NoTime


-----------------------------------------------------------------------------
(***************************************************************************)
(* The inductive invariant TimeInv.                                        *)
(***************************************************************************)

\* Variables TrackerTimeBound and ConsensusTimeNeverOverstated read.
TimeFrame == UNCHANGED <<tracker_vars, clock, first_seen, produced, observed_for>>

LEMMA TimeInit == Init => TimeInv
<1>. SUFFICES ASSUME Init PROVE TimeInv
    OBVIOUS
<1>1. IInv
    BY InitIInv
<1>2. TrackerTimeBound
    BY DEF Init, TrackerInit, TrackerTimeBound
<1>3. ConsensusTimeNeverOverstated
    BY DEF Init, ConsensusTimeNeverOverstated
<1>. QED
    BY <1>1, <1>2, <1>3 DEF TimeInv

LEMMA TimeUnchanged ==
    ASSUME TrackerTimeBound, ConsensusTimeNeverOverstated, TimeFrame
    PROVE  TrackerTimeBound' /\ ConsensusTimeNeverOverstated'
<1>1. Closed(clock)' = Closed(clock)
    BY DEF TimeFrame, tracker_vars, Closed
<1>. QED
    BY <1>1 DEF TrackerTimeBound, ConsensusTimeNeverOverstated, TimeFrame,
       tracker_vars

LEMMA TimeTick ==
    ASSUME IInv, TrackerTimeBound, ConsensusTimeNeverOverstated, Tick,
           UNCHANGED <<tracker_vars, first_seen, produced, observed_for>>
    PROVE  TrackerTimeBound' /\ ConsensusTimeNeverOverstated'
<1>1. TrackerTypeOK /\ clock \in Nat /\ first_seen \in Nat
      /\ \A p \in Phases : phase_start_times[p] <= clock
    BY DEF IInv, TypeOK, TimesNotInFuture
<1>2. clock' = clock + 1
    BY DEF Tick
<1>3. current_height # NoHeight =>
          SumPhases(Closed(clock + 1)) <= (clock + 1) - first_seen
    <2>1. SumPhases(Closed(clock + 1)) <= SumPhases(Closed(clock)) + 1
        BY <1>1, ClosedTick
    <2>2. SumPhases(Closed(clock)) \in Nat
        BY <1>1, ClosedType DEF SumPhases, Phases, NamedPhases
    <2>3. SumPhases(Closed(clock + 1)) \in Nat
        <3>1. clock + 1 \in Nat /\ \A p \in Phases : phase_start_times[p] <= clock + 1
            BY <1>1 DEF TrackerTypeOK, NoTime
        <3>. QED
            BY <1>1, <3>1, ClosedType DEF SumPhases, Phases, NamedPhases
    <2>. QED
        BY <1>1, <2>1, <2>2, <2>3 DEF TrackerTimeBound
<1>4. Closed(clock)' = Closed(clock + 1)
    BY <1>2 DEF tracker_vars, Closed
<1>5. TrackerTimeBound'
    BY <1>2, <1>3, <1>4 DEF TrackerTimeBound, tracker_vars
<1>. QED
    BY <1>5 DEF ConsensusTimeNeverOverstated

LEMMA TimePoll ==
    ASSUME IInv, TrackerTimeBound, ConsensusTimeNeverOverstated, ConsensusPoll
    PROVE  TrackerTimeBound' /\ ConsensusTimeNeverOverstated'
<1>. DEFINE h == chain + 1
            phase == StepName(node_step)
<1>1. /\ TrackerTypeOK /\ clock \in Nat /\ first_seen \in Nat
      /\ \A p \in Phases : phase_start_times[p] <= clock
      /\ first_seen <= clock
      /\ h \in Heights /\ phase \in Phases
      /\ produced \in [Heights -> PhaseRecords \cup {NoRecord}]
      /\ observed_for \in [Heights -> Nat]
    <2>1. TypeOK /\ TimesNotInFuture
        BY DEF IInv
    <2>2. node_step \in Nat
        BY <2>1 DEF TypeOK
    <2>3. phase \in Phases
        BY <2>2, StepNameType
    <2>. QED
        BY <2>1, <2>3 DEF TypeOK, TimesNotInFuture, Heights
<1>2. clock' = clock
    BY DEF ConsensusPoll
<1>3. Observe(h, node_round, node_step, clock)
    BY DEF ConsensusPoll
<1>4. SumPhases(Closed(clock)) \in Nat
    BY <1>1, ClosedType DEF SumPhases, Phases, NamedPhases
<1>5. CASE Emits(h)
    <2>1. NewBlock(h, node_round, phase, clock)
        BY <1>3, <1>5 DEF Observe, Emits, FirstBlock, PhaseChange, SamePhase
    <2>2. current_height \in Heights /\ current_height # h
        BY <1>5 DEF Emits, IInv, HeightsInRange
    <2>3. /\ produced' = [produced EXCEPT ![current_height] = Finalize(clock)]
          /\ observed_for' =
                [observed_for EXCEPT ![current_height] = clock - first_seen]
          /\ first_seen' = clock
        BY <1>5, <2>1, <2>2 DEF ConsensusPoll, NewBlock
    <2>4. Finalize(clock).total <= clock - first_seen
        BY <1>4, <1>5 DEF Finalize, TrackerTimeBound, Emits
    <2>5. ConsensusTimeNeverOverstated'
        BY <1>1, <2>2, <2>3, <2>4 DEF ConsensusTimeNeverOverstated
    <2>6. SumPhases(Closed(clock))' = 0
        BY <1>1, <1>2, <2>1, FreshSum DEF NewBlock, TrackerTypeOK
    <2>7. current_height' # NoHeight
        BY <1>1, <2>1 DEF NewBlock, Heights, NoHeight
    <2>. QED
        BY <1>1, <1>2, <2>3, <2>5, <2>6, <2>7 DEF TrackerTimeBound
<1>6. CASE ~ Emits(h)
    <2>1. UNCHANGED <<produced, observed_for>>
        BY <1>6 DEF ConsensusPoll
    <2>2. ConsensusTimeNeverOverstated'
        BY <2>1 DEF ConsensusTimeNeverOverstated
    <2>3. CASE FirstBlock(h, node_round, phase, clock)
        <3>0. current_height = NoHeight /\ current_height' = h /\ h # NoHeight
            BY <1>1, <2>3 DEF FirstBlock, Heights, NoHeight
        <3>1. phase_durations = [p \in Phases |-> 0] /\ first_seen' = clock
            <4>1. phase_durations = [p \in Phases |-> 0]
                BY <3>0 DEF TrackerTimeBound
            <4>2. first_seen' = IF current_height' # current_height THEN clock
                                ELSE first_seen
                BY DEF ConsensusPoll
            <4>. QED
                BY <3>0, <4>1, <4>2
        <3>2. SumPhases(Closed(clock))' = 0
            BY <1>1, <1>2, <2>3, <3>1, FreshSum DEF FirstBlock, Phases
        <3>3. current_height' # NoHeight
            BY <1>1, <2>3 DEF FirstBlock, Heights, NoHeight
        <3>. QED
            BY <1>1, <1>2, <2>2, <3>1, <3>2, <3>3 DEF TrackerTimeBound
    <2>4. CASE PhaseChange(h, node_round, phase, clock)
        <3>1. first_seen' = first_seen /\ current_height' = current_height
              /\ current_height # NoHeight
            <4>1. current_height' = current_height /\ current_height = h
                BY <2>4 DEF PhaseChange
            <4>2. first_seen' = IF current_height' # current_height THEN clock
                                ELSE first_seen
                BY DEF ConsensusPoll
            <4>. QED
                BY <1>1, <4>1, <4>2 DEF Heights, NoHeight
        <3>2. SumPhases(Closed(clock))' <= SumPhases(Closed(clock))
              /\ SumPhases(Closed(clock))' \in Nat
            BY <1>1, <1>2, <2>4, PhaseChangeSum
        <3>. QED
            BY <1>1, <1>2, <1>4, <2>2, <3>1, <3>2 DEF TrackerTimeBound
    <2>5. CASE SamePhase(h, node_round, phase)
        <3>1. first_seen' = first_seen /\ Closed(clock)' = Closed(clock)
              /\ current_height' = current_height
            BY <1>2, <2>5 DEF SamePhase, ConsensusPoll, Closed
        <3>2. SumPhases(Closed(clock))' = SumPhases(Closed(clock))
            BY <3>1 DEF SumPhases
        <3>3. current_height' # NoHeight
            BY <1>1, <2>5, <3>1 DEF SamePhase, Heights, NoHeight
        <3>. QED
            BY <1>2, <2>2, <3>1, <3>2, <3>3 DEF TrackerTimeBound
    <2>. QED
        BY <1>3, <1>6, <2>3, <2>4, <2>5 DEF Observe, NewBlock
<1>. QED
    BY <1>5, <1>6

LEMMA TimeNext == TimeInv /\ [Next]_vars => TimeInv'
<1>. SUFFICES ASSUME TimeInv, [Next]_vars PROVE TimeInv'
    OBVIOUS
<1>0. IInv /\ TrackerTimeBound /\ ConsensusTimeNeverOverstated
    BY DEF TimeInv
<1>1. IInv'
    BY <1>0, NextIInv
<1>2. TrackerTimeBound' /\ ConsensusTimeNeverOverstated'
    <2>1. CASE Node /\ NodeFrame
        <3>1. CASE Tick /\ UNCHANGED <<node_vars, work, restarts>>
            BY <1>0, <2>1, <3>1, TimeTick DEF NodeFrame
        <3>2. CASE \/ NodeStep /\ UNCHANGED <<clock, work, restarts>>
                   \/ NodeCommit /\ UNCHANGED <<clock, restarts>>
                   \/ NodeRestart /\ UNCHANGED <<clock, work>>
            BY <1>0, <2>1, <3>2, TimeUnchanged DEF NodeFrame, TimeFrame
        <3>. QED
            BY <3>1, <3>2, <2>1 DEF Node
    <2>2. CASE ConsensusPoll
        BY <1>0, <2>2, TimePoll
    <2>3. CASE MonitorStatus \/ CollectBlock \/ UNCHANGED vars
        <3>1. TimeFrame
            BY <2>3 DEF MonitorStatus, CollectBlock, vars, TimeFrame, ghost_vars
        <3>. QED
            BY <1>0, <3>1, TimeUnchanged
    <2>. QED
        BY <2>1, <2>2, <2>3 DEF Next, NodeFrame
<1>. QED
    BY <1>1, <1>2 DEF TimeInv

-----------------------------------------------------------------------------
\* The consensus time written for a height (total_consensus_ms, line 95)
\* never exceeds the time the tracker spent on it, whatever the bounds: the
\* phase entries are disjoint intervals between snapshots of that height,
\* even though last_state survives the height change (line 71).
THEOREM ConsensusTimeBounded == Spec => []ConsensusTimeNeverOverstated
<1>1. Init => TimeInv
    BY TimeInit
<1>2. TimeInv /\ [Next]_vars => TimeInv'
    BY TimeNext
<1>3. TimeInv => ConsensusTimeNeverOverstated
    BY DEF TimeInv
<1>. QED
    BY <1>1, <1>2, <1>3, PTL DEF Spec

\* The tracker's time bound holds in every reachable state, for every value
\* of the constants: the phase durations of the height being timed, with
\* its open phase closed now (lines 76-81), add up to at most the time since
\* its first snapshot, and no reported consensus time is overstated.
THEOREM TimeInvInvariant == Spec => []TimeInv
<1>. QED
    BY TimeInit, TimeNext, PTL DEF Spec

=============================================================================

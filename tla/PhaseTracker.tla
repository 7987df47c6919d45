---------------------------- MODULE PhaseTracker ----------------------------
(***************************************************************************)
(* ConsensusStateTracker of scripts/block_timing_collector.py (lines       *)
(* 23-105): the state machine that turns consensus-state snapshots         *)
(* "H/R/S" into one phase-timing record per height, emitted when the next  *)
(* height is first observed.                                               *)
(*                                                                         *)
(* The tracker owns five fields; Python's None is the sentinel NoHeight    *)
(* for current_height, NoPhase for last_state and NoTime for a phase with  *)
(* no entry in phase_start_times.  phase_durations is a total map with 0   *)
(* for a phase that has no entry: the code reads it only through           *)
(* .get(p, 0) and sum(), which cannot tell the two apart.                  *)
(*                                                                         *)
(* The observation instant `now` (time.time(), line 59) is a parameter:    *)
(* the module that composes the tracker supplies its clock.                *)
(***************************************************************************)
EXTENDS Naturals, Integers

VARIABLES
    current_height,     \* height of the block being timed, or NoHeight
    current_round,      \* round of the latest snapshot
    phase_start_times,  \* phase -> instant it was (last) entered, or NoTime
    phase_durations,    \* phase -> last closed duration (0 = no entry)
    last_state          \* phase of the previous snapshot, or NoPhase

tracker_vars == <<current_height, current_round, phase_start_times,
                  phase_durations, last_state>>

NoHeight == -1
NoTime == -1
NoPhase == "none"

\* step_names of line 56, and the phase 'unknown' of line 57.
NamedPhases == {"propose", "prevote", "precommit", "commit"}
Phases == NamedPhases \cup {"unknown"}

StepName(step) ==
    IF step \in 1..4
    THEN <<"propose", "prevote", "precommit", "commit">>[step]
    ELSE "unknown"

\* The record returned by _finalize_block_timing (lines 97-105).
PhaseRecords == [height: Nat, rounds: Nat,
                 durations: [NamedPhases -> Nat], total: Nat]

\* Mutant of Closed: the closed interval counted inclusively (one unit more).
ClosedInclusive(now) ==
    IF last_state # NoPhase /\ phase_start_times[last_state] # NoTime
    THEN [phase_durations EXCEPT ![last_state] =
              now - phase_start_times[last_state] + 1]
    ELSE phase_durations

(***************************************************************************)
(* The durations after closing the phase that is still open, as done at    *)
(* lines 78-80 on a phase change and at lines 91-93 on finalization: the   *)
(* last phase's entry is overwritten (not added to) with now - its start,  *)
(* and only when last_state is set and has a start time.                   *)
(***************************************************************************)
Closed(now) ==
    IF last_state # NoPhase /\ phase_start_times[last_state] # NoTime
    THEN [phase_durations EXCEPT ![last_state] =
              now - phase_start_times[last_state]]
    ELSE phase_durations

SumPhases(d) ==
    d["propose"] + d["prevote"] + d["precommit"] + d["commit"] + d["unknown"]

\* _finalize_block_timing: the record for current_height.
Finalize(now) ==
    LET d == Closed(now)
    IN  [height    |-> current_height,
         rounds    |-> current_round,
         durations |-> [p \in NamedPhases |-> d[p]],
         total     |-> SumPhases(d)]

FreshStart(phase, now) == [p \in Phases |-> IF p = phase THEN now ELSE NoTime]

\* A snapshot of height h makes parse_consensus_state return a record.
Emits(h) == current_height # NoHeight /\ current_height # h

\* Mutant of NewBlock: phase_durations not cleared (line 70 dropped).
NewBlockKeepsDurations(h, r, phase, now) ==
    /\ Emits(h)
    /\ current_height' = h
    /\ current_round' = r
    /\ phase_start_times' = FreshStart(phase, now)
    /\ UNCHANGED <<phase_durations, last_state>>

(***************************************************************************)
(* Lines 62-71: a new height while one is being timed.  The record is      *)
(* built by Finalize and the tracking state is reset; the method returns   *)
(* at line 71, before line 83, so last_state keeps the previous height's   *)
(* last phase.                                                             *)
(***************************************************************************)
NewBlock(h, r, phase, now) ==
    /\ Emits(h)
    /\ current_height' = h
    /\ current_round' = r
    /\ phase_start_times' = FreshStart(phase, now)
    /\ phase_durations' = [p \in Phases |-> 0]
    /\ UNCHANGED last_state

\* Lines 72-75 then 83-84: the very first height observed.
FirstBlock(h, r, phase, now) ==
    /\ current_height = NoHeight
    /\ current_height' = h
    /\ current_round' = r
    /\ phase_start_times' = FreshStart(phase, now)
    /\ last_state' = phase
    /\ UNCHANGED phase_durations

\* Lines 76-81 then 83-84: a phase change within the same height.
PhaseChange(h, r, phase, now) ==
    /\ current_height = h
    /\ last_state # phase
    /\ phase_durations' = Closed(now)
    /\ phase_start_times' = [phase_start_times EXCEPT ![phase] = now]
    /\ last_state' = phase
    /\ current_round' = r
    /\ UNCHANGED current_height

\* Lines 83-84 alone: same height and phase; only the round is refreshed.
SamePhase(h, r, phase) ==
    /\ current_height = h
    /\ last_state = phase
    /\ current_round' = r
    /\ UNCHANGED <<current_height, phase_start_times, phase_durations,
                   last_state>>

(***************************************************************************)
(* parse_consensus_state on a well-formed snapshot "h/r/step" at instant   *)
(* now.  A snapshot without 'result', or whose field does not split into   *)
(* three parts (lines 35-49), returns None with no state change, and one   *)
(* whose parts are not integers raises in int() (lines 51-53) before any   *)
(* assignment: both are stutters and are not written out.                  *)
(***************************************************************************)
Observe(h, r, step, now) ==
    LET phase == StepName(step)
    IN  \/ NewBlock(h, r, phase, now)
        \/ FirstBlock(h, r, phase, now)
        \/ PhaseChange(h, r, phase, now)
        \/ SamePhase(h, r, phase)

TrackerInit ==
    /\ current_height = NoHeight
    /\ current_round = 0
    /\ phase_start_times = [p \in Phases |-> NoTime]
    /\ phase_durations = [p \in Phases |-> 0]
    /\ last_state = NoPhase

TrackerTypeOK ==
    /\ current_height \in Nat \cup {NoHeight}
    /\ current_round \in Nat
    /\ phase_start_times \in [Phases -> Nat \cup {NoTime}]
    /\ phase_durations \in [Phases -> Nat]
    /\ last_state \in Phases \cup {NoPhase}

=============================================================================

--------------------------- MODULE UpgradeHeight ---------------------------
(***************************************************************************)
(* upgrade_height_calculator.py: from the current height, an average      *)
(* block time and a target date and time typed in US Eastern time, the    *)
(* height at which the chain reaches that time.                           *)
(*                                                                         *)
(* Time is kept in half hours.  An instant is a half hour of UTC; the zone*)
(* America/New_York is abstracted to a timeline with one change to        *)
(* daylight time (at instant SpringForward the offset goes from -5 h to   *)
(* -4 h, so one wall-clock hour does not exist) and one change back (at         *)
(* FallBack, so one wall-clock hour happens twice).  Both datetimes of    *)
(* the script carry the same cached ZoneInfo object, and Python compares  *)
(* and subtracts two aware datetimes with the same tzinfo on their wall-   *)
(* clock fields.                                                           *)
(***************************************************************************)
EXTENDS Integers, FiniteSets

CONSTANTS
    SpringForward,  \* first UTC instant of daylight time
    FallBack,       \* first UTC instant of standard time again
    LastInstant,    \* last UTC instant of the timeline
    InputHeights,   \* heights the user may type (line 49)
    InputBlockTimes \* average block times in seconds the user may type (53)

VARIABLES
    now,            \* the UTC instant at which the script runs
    input,          \* what the user typed
    result          \* the printed target height, Error, or NoResult

vars == <<now, input, result>>

Instants == 10..LastInstant

\* Seconds in one unit of time.
Unit == 1800
NoResult == -1
\* The script ends with "Error: ..." (a ValueError).  Heights are naturals.
Error == -2

\* The zone's UTC offset at an instant.
Offset(u) == IF SpringForward <= u /\ u < FallBack THEN -8 ELSE -10

\* datetime.now(ZoneInfo("America/New_York")) (lines 26 and 88): the wall
\* clock at instant u.
Wall(u) == u + Offset(u)

(***************************************************************************)
(* parse_datetime_input (lines 37-43): strptime gives a wall-clock time    *)
(* and .replace(tzinfo=...) attaches the zone with fold=0, which takes    *)
(* the offset in force before a transition: the earlier of two instants   *)
(* showing that wall time, and for a wall time that does not exist the    *)
(* standard offset, i.e. an instant after the change.                     *)
(***************************************************************************)
ParseDatetimeInput(w) ==
    LET at == {u \in Instants : Wall(u) = w}
    IN  IF at # {} THEN CHOOSE u \in at : \A v \in at : u <= v
        ELSE w + 10

(***************************************************************************)
(* calculate_target_block_height (lines 14-34): the comparison of line 28 *)
(* and the subtraction of line 31 are on wall-clock fields (same tzinfo); *)
(* int() truncates a positive quotient.                                    *)
(***************************************************************************)
CalculateTargetBlockHeight(height, avg, w) ==
    IF w <= Wall(now) THEN Error
    ELSE height + ((w - Wall(now)) * Unit) \div avg

(***************************************************************************)
(* get_user_input and main (lines 46-98): a negative height or a block    *)
(* time that is not positive is rejected (lines 50-55), then the height   *)
(* is computed, and any ValueError ends the script with an error.         *)
(***************************************************************************)
Run ==
    /\ result = NoResult
    /\ result' = IF input.height < 0 \/ input.avg <= 0 THEN Error
                 ELSE CalculateTargetBlockHeight(input.height, input.avg,
                                                 input.target)
    /\ UNCHANGED <<now, input>>

Init ==
    /\ now \in Instants
    /\ input \in [height: InputHeights, avg: InputBlockTimes,
                  target: 0..Wall(LastInstant)]
    /\ result = NoResult

Next == Run

Spec == Init /\ [][Next]_vars

-----------------------------------------------------------------------------
(***************************************************************************)
(* Properties.                                                             *)
(***************************************************************************)

\* The time that really elapses from now to the target instant.
Elapsed == ParseDatetimeInput(input.target) - now

(***************************************************************************)
(* What the docstring of calculate_target_block_height promises: the      *)
(* height the chain reaches at the target time, i.e. the current height   *)
(* plus the blocks produced in the time that really elapses until then,   *)
(* and an error for a target time that is not in the future.              *)
(***************************************************************************)
TargetHeightAtTargetTime ==
    result # NoResult /\ input.height >= 0 /\ input.avg > 0 =>
        result = IF Elapsed <= 0 THEN Error
                 ELSE input.height + (Elapsed * Unit) \div input.avg

=============================================================================

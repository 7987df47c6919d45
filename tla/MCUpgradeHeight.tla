--------------------------- MODULE MCUpgradeHeight ---------------------------
(* The calculator on a timeline of a few hours, with inputs that reach      *)
(* each branch of the input checks of get_user_input.                        *)
EXTENDS UpgradeHeight

\* A negative height (rejected) and a valid one.
MCInputHeights == {-1, 100}

\* A block time that is not positive (rejected), and two valid ones, one of
\* which does not divide an hour.
MCInputBlockTimes == {0, 2, 7}
=============================================================================

----------------------------- MODULE OutputLog -----------------------------
(***************************************************************************)
(* What the block timing collector promises about its output file         *)
(* (spec.md sections 3 and 6): one line per height, heights strictly       *)
(* increasing, every height written already committed by the node.         *)
(* Gaps are allowed here: a height whose block cannot be fetched is         *)
(* skipped (the finding of the run gap_on_fetch_failure).                  *)
(***************************************************************************)
EXTENDS Naturals, Sequences

CONSTANT Start      \* committed height when the collector starts

VARIABLES
    committed,      \* the node's latest committed height
    written         \* heights of the lines written, in file order

log_vars == <<committed, written>>

LogInit ==
    /\ committed = Start
    /\ written = <<>>

\* The node commits the next height.
Commit ==
    /\ committed' = committed + 1
    /\ UNCHANGED written

\* A line for a height committed after the start, above every height
\* written so far.
Write(h) ==
    /\ Start < h /\ h <= committed
    /\ written = <<>> \/ h > written[Len(written)]
    /\ written' = Append(written, h)
    /\ UNCHANGED committed

LogNext == Commit \/ \E h \in 1..committed : Write(h)

LogSpec == LogInit /\ [][LogNext]_log_vars
=============================================================================

------------------------- MODULE RefinementProofs --------------------------
(***************************************************************************)
(* The collector implements OutputLog (the run collector_reliable checks  *)
(* it on a small instance): for every value of the constants, the lines   *)
(* monitor_blocks appends (lines 555-566) are for committed heights, above *)
(* the start, in strictly increasing order.  The argument rests on         *)
(* OutputInOrder: every height written lies below NextToCollect, the next  *)
(* height the main thread will collect, and NextToCollect never goes back. *)
(***************************************************************************)
EXTENDS CollectorProofs

USE ConstantsAssumption

\* The invariant the refinement rests on: IInv bounds the loop variables.
RInv == IInv /\ OutputInOrder

\* The heights of the output lines, as OutputLog's `written' sees them.
OutHeights == [i \in 1..Len(out) |-> out[i].height]

-----------------------------------------------------------------------------
\* Appending a line appends its height to the heights of the file.
LEMMA HeightsAppend ==
    ASSUME NEW s \in Seq(OutRecords), NEW r
    PROVE  [i \in 1..Len(Append(s, r)) |-> Append(s, r)[i].height]
             = Append([i \in 1..Len(s) |-> s[i].height], r.height)
OBVIOUS

\* Every line of the file is for a height of Heights.
LEMMA OutHeightType ==
    ASSUME NEW s \in Seq(OutRecords), NEW i \in 1..Len(s)
    PROVE  s[i].height \in Heights
<1>1. s[i] \in OutRecords
    OBVIOUS
<1>. QED
    BY <1>1 DEF OutRecords

LEMMA InitRInv == Init => RInv
<1>. SUFFICES ASSUME Init PROVE RInv
    OBVIOUS
<1>1. IInv
    BY InitIInv
<1>2. OutputInOrder
    BY DEF Init, OutputInOrder
<1>. QED
    BY <1>1, <1>2 DEF RInv

\* Steps that leave the output file and the main thread's position alone.
LEMMA OrderUnchanged ==
    ASSUME OutputInOrder,
           UNCHANGED <<out, last_height, pc, loop_height>>
    PROVE  OutputInOrder'
BY DEF OutputInOrder, NextToCollect

LEMMA MonitorStatusOrder ==
    ASSUME IInv, OutputInOrder, MonitorStatus
    PROVE  OutputInOrder'
<1>0. TypeOK /\ out' = out /\ pc = "poll"
    BY DEF IInv, MonitorStatus
<1>1. CASE last_height = NoHeight /\ last_height' = chain
    <2>1. Len(out) = 0
        <3>1. NextToCollect = 0
            BY <1>0, <1>1 DEF NextToCollect, NoHeight
        <3>2. \A i \in 1..Len(out) : out[i].height \in Heights
            BY <1>0, OutHeightType DEF TypeOK
        <3>. QED
            BY <3>1, <3>2 DEF OutputInOrder, Heights
    <2>2. chain \in InitHeight..MaxHeight
        BY <1>0 DEF TypeOK
    <2>. QED
        BY <1>0, <1>1, <2>1, <2>2 DEF OutputInOrder
<1>2. CASE /\ last_height # NoHeight /\ pc' = "collect"
           /\ loop_height' = last_height + 1 /\ last_height' = last_height
    <2>1. NextToCollect' = NextToCollect
        BY <1>0, <1>2 DEF NextToCollect
    <2>. QED
        BY <1>0, <1>2, <2>1 DEF OutputInOrder
<1>. QED
    BY <1>1, <1>2 DEF MonitorStatus


\* One pass of the loop of line 555 moves NextToCollect from the height it
\* collects to the next one, and keeps last_height at or above the start.
LEMMA CollectBlockPosition ==
    ASSUME IInv, OutputInOrder, CollectBlock
    PROVE  /\ NextToCollect = loop_height
           /\ NextToCollect' = loop_height + 1
           /\ loop_height \in Nat /\ InitHeight < loop_height
           /\ loop_height <= chain /\ chain' = chain
           /\ last_height' # NoHeight /\ InitHeight <= last_height'
<1>0. TypeOK /\ HeightsInRange /\ pc = "collect"
    BY DEF IInv, CollectBlock
<1>1. /\ last_height \in Heights /\ loop_height \in last_height + 1..target
      /\ target <= chain /\ InitHeight <= last_height /\ target \in Nat
      /\ chain \in Nat
    BY <1>0 DEF HeightsInRange, OutputInOrder, Heights, NoHeight, TypeOK
<1>2. chain' = chain
    BY DEF CollectBlock, node_vars
<1>3. CASE loop_height = target
    <2>1. pc' = "poll" /\ last_height' = target /\ loop_height' = loop_height
        BY <1>3 DEF CollectBlock, EndIteration
    <2>. QED
        BY <1>0, <1>1, <1>2, <1>3, <2>1 DEF NextToCollect, Heights, NoHeight
<1>4. CASE loop_height # target
    <2>1. /\ loop_height' = loop_height + 1 /\ pc' = pc
          /\ last_height' = last_height
        BY <1>4 DEF CollectBlock, EndIteration
    <2>2. NextToCollect = loop_height /\ NextToCollect' = loop_height + 1
        BY <1>0, <2>1 DEF NextToCollect
    <2>3. /\ loop_height \in Nat /\ InitHeight < loop_height
          /\ loop_height <= chain
        BY <1>1 DEF Heights
    <2>4. last_height' # NoHeight /\ InitHeight <= last_height'
        BY <1>1, <2>1 DEF Heights, NoHeight
    <2>. QED
        BY <1>2, <2>2, <2>3, <2>4
<1>. QED
    BY <1>3, <1>4

\* Collected(h) appends one line, for height h.
LEMMA CollectedAppends ==
    ASSUME NEW h, Collected(h)
    PROVE  \E r : out' = Append(out, r) /\ r.height = h
<1>1. PICK metrics_ok \in IF FetchCanFail THEN BOOLEAN ELSE {TRUE} :
          out' = Append(out, [height     |-> h,
                              block_time |-> BlockTime(h),
                              consensus  |-> block_data_buffer[h]])
    BY DEF Collected
<1>. QED
    BY <1>1

LEMMA CollectBlockOrder ==
    ASSUME IInv, OutputInOrder, CollectBlock
    PROVE  OutputInOrder'
<1>0. /\ NextToCollect = loop_height /\ NextToCollect' = loop_height + 1
      /\ loop_height \in Nat /\ InitHeight < loop_height
      /\ last_height' # NoHeight /\ InitHeight <= last_height'
    BY CollectBlockPosition
<1>1. out \in Seq(OutRecords)
    BY DEF IInv, TypeOK
<1>2. \A i \in 1..Len(out) : out[i].height \in Heights
    BY <1>1, OutHeightType
<1>3. OutputInOrder!1'
    BY <1>0
<1>4. CASE Collected(loop_height)
    <2>1. PICK r : out' = Append(out, r) /\ r.height = loop_height
        BY <1>4, CollectedAppends
    <2>2. /\ Len(out') = Len(out) + 1
          /\ \A i \in 1..Len(out) : out'[i] = out[i]
          /\ out'[Len(out) + 1].height = loop_height
        BY <1>1, <2>1
    <2>3. \A i \in 1..Len(out) : InitHeight < out[i].height
                                 /\ out[i].height < loop_height
                                 /\ out[i].height \in Int
        BY <1>0, <1>2 DEF OutputInOrder, Heights
    <2>4. OutputInOrder!2'
        BY <1>0, <2>2, <2>3
    <2>5. \A i, j \in 1..Len(out) : i < j => out[i].height < out[j].height
        BY DEF OutputInOrder
    <2>6. OutputInOrder!3'
        <3>. SUFFICES ASSUME NEW i \in 1..Len(out'), NEW j \in 1..Len(out'),
                             i < j
                      PROVE  out'[i].height < out'[j].height
            OBVIOUS
        <3>1. i \in 1..Len(out)
            BY <2>2
        <3>2. CASE j \in 1..Len(out)
            BY <2>2, <2>5, <3>1, <3>2
        <3>3. CASE j = Len(out) + 1
            BY <2>2, <2>3, <3>1, <3>3
        <3>. QED
            BY <2>2, <3>2, <3>3
    <2>. QED
        BY <1>3, <2>4, <2>6 DEF OutputInOrder
<1>5. CASE Skipped
    <2>1. out' = out
        BY <1>5 DEF Skipped
    <2>2. \A i \in 1..Len(out) : InitHeight < out[i].height
                                 /\ out[i].height < loop_height
                                 /\ out[i].height \in Int
        BY <1>0, <1>2 DEF OutputInOrder, Heights
    <2>3. OutputInOrder!2'
        BY <1>0, <2>1, <2>2
    <2>4. OutputInOrder!3'
        BY <2>1 DEF OutputInOrder
    <2>. QED
        BY <1>3, <2>3, <2>4 DEF OutputInOrder
<1>. QED
    BY <1>4, <1>5 DEF CollectBlock

LEMMA NextRInv == RInv /\ [Next]_vars => RInv'
<1>. SUFFICES ASSUME RInv, [Next]_vars PROVE RInv'
    OBVIOUS
<1>1. IInv'
    BY NextIInv DEF RInv
<1>2. OutputInOrder'
    <2>1. CASE UNCHANGED <<out, last_height, pc, loop_height>>
        BY <2>1, OrderUnchanged DEF RInv
    <2>2. CASE MonitorStatus
        BY <2>2, MonitorStatusOrder DEF RInv
    <2>3. CASE CollectBlock
        BY <2>3, CollectBlockOrder DEF RInv
    <2>. QED
        BY <2>1, <2>2, <2>3 DEF Next, ConsensusPoll, vars, main_vars
<1>. QED
    BY <1>1, <1>2 DEF RInv


-----------------------------------------------------------------------------
(***************************************************************************)
(* The refinement.                                                         *)
(***************************************************************************)

\* A step that changes neither the committed height nor the file is a
\* stutter of OutputLog.
LEMMA LogStutter ==
    ASSUME chain' = chain, out' = out
    PROVE  UNCHANGED Log!log_vars
BY DEF Log!log_vars

\* A node step either commits the next height or leaves it alone, and
\* never touches the file.
LEMMA NodeRefines ==
    ASSUME Node, NodeFrame
    PROVE  [Log!LogNext]_Log!log_vars
<1>1. out' = out
    BY DEF NodeFrame, main_vars
<1>2. CASE NodeCommit
    BY <1>1, <1>2 DEF NodeCommit, Log!LogNext, Log!Commit, Log!log_vars
<1>3. CASE ~NodeCommit
    <2>1. chain' = chain
        BY <1>3 DEF Node, NodeStep, NodeRestart, node_vars
    <2>. QED
        BY <1>1, <2>1, LogStutter
<1>. QED
    BY <1>2, <1>3

\* Collected(h) at the loop's height is OutputLog's Write(h).
LEMMA CollectedRefines ==
    ASSUME IInv, OutputInOrder, CollectBlock, Collected(loop_height)
    PROVE  Log!LogNext
<1>0. /\ NextToCollect = loop_height /\ loop_height \in Nat
      /\ InitHeight < loop_height /\ loop_height <= chain /\ chain' = chain
    BY CollectBlockPosition
<1>1. out \in Seq(OutRecords)
    BY DEF IInv, TypeOK
<1>2. PICK r : out' = Append(out, r) /\ r.height = loop_height
    BY CollectedAppends
<1>3. OutHeights' = Append(OutHeights, loop_height)
    BY <1>1, <1>2, HeightsAppend DEF OutHeights
<1>4. OutHeights = <<>> \/ loop_height > OutHeights[Len(OutHeights)]
    <2>1. CASE Len(out) = 0
        BY <2>1 DEF OutHeights
    <2>2. CASE Len(out) > 0
        <3>1. out[Len(out)].height < loop_height
            BY <1>0, <1>1, <2>2 DEF OutputInOrder
        <3>. QED
            BY <1>1, <2>2, <3>1 DEF OutHeights
    <2>. QED
        BY <1>1, <2>1, <2>2
<1>5. loop_height \in 1..chain
    BY <1>0, ConstantsAssumption
<1>6. \E k \in 1..chain : Log!Write(k)
    BY <1>0, <1>3, <1>4, <1>5 DEF Log!Write, OutHeights
<1>. QED
    BY <1>6 DEF Log!LogNext

\* Every step of the collector is a step or a stutter of OutputLog.
LEMMA StepRefines ==
    ASSUME RInv, [Next]_vars
    PROVE  [Log!LogNext]_Log!log_vars
<1>0. IInv /\ OutputInOrder
    BY DEF RInv
<1>1. CASE Node /\ NodeFrame
    BY <1>1, NodeRefines
<1>2. CASE ConsensusPoll \/ MonitorStatus \/ UNCHANGED vars
    <2>1. chain' = chain /\ out' = out
        BY <1>2 DEF ConsensusPoll, MonitorStatus, vars, node_vars, main_vars
    <2>. QED
        BY <2>1, LogStutter
<1>3. CASE CollectBlock
    <2>1. CASE Collected(loop_height)
        BY <1>0, <1>3, <2>1, CollectedRefines
    <2>2. CASE Skipped
        <3>1. chain' = chain /\ out' = out
            BY <1>3, <2>2 DEF CollectBlock, Skipped, node_vars
        <3>. QED
            BY <3>1, LogStutter
    <2>. QED
        BY <1>3, <2>1, <2>2 DEF CollectBlock
<1>. QED
    BY <1>1, <1>2, <1>3 DEF Next, NodeFrame

-----------------------------------------------------------------------------
\* The invariant behind the refinement holds in every reachable state.
THEOREM OutputInOrderInvariant == Spec => []OutputInOrder
<1>1. Spec => []RInv
    BY InitRInv, NextRInv, PTL DEF Spec
<1>. QED
    BY <1>1, PTL DEF RInv

(***************************************************************************)
(* The collector implements OutputLog: whatever the interleaving of the    *)
(* consensus thread, the node's commits and restarts, and failed fetches,  *)
(* each line monitor_blocks appends (line 561) is for a height committed   *)
(* after the collector started and above every height already written.    *)
(***************************************************************************)
THEOREM Refinement == Spec => ImplementsOutputLog
<1>1. Init => Log!LogInit
    BY DEF Init, Log!LogInit, OutHeights
<1>2. RInv /\ [Next]_vars => [Log!LogNext]_Log!log_vars
    BY StepRefines
<1>3. Spec => []RInv
    BY InitRInv, NextRInv, PTL DEF Spec
<1>. QED
    BY <1>1, <1>2, <1>3, PTL DEF Spec, ImplementsOutputLog, Log!LogSpec

-----------------------------------------------------------------------------
(***************************************************************************)
(* Gap-free output when every fetch is answered (FetchCanFail = FALSE):   *)
(* OutputPosition, with OutputInOrder for the position of the loop.        *)
(***************************************************************************)

LEMMA InitPosition == Init => OutputPosition
BY DEF Init, OutputPosition, OutputGapFree

LEMMA PositionUnchanged ==
    ASSUME OutputPosition, UNCHANGED <<out, last_height, pc, loop_height, baseline>>
    PROVE  OutputPosition'
BY DEF OutputPosition, OutputGapFree, NextToCollect

LEMMA MonitorStatusPosition ==
    ASSUME IInv, OutputPosition, MonitorStatus
    PROVE  OutputPosition'
<1>0. /\ last_height \in Heights \cup {NoHeight} /\ chain \in Nat
      /\ baseline \in Heights \cup {NoHeight} /\ out \in Seq(OutRecords)
      /\ pc = "poll" /\ out' = out
    BY DEF IInv, TypeOK, MonitorStatus
<1>1. CASE last_height = NoHeight
    <2>1. baseline = NoHeight
        BY <1>0, <1>1 DEF OutputPosition, NextToCollect, Heights, NoHeight
    <2>2. /\ last_height' = chain /\ baseline' = chain /\ pc' = "poll"
        BY <1>1 DEF MonitorStatus
    <2>3. out = <<>>
        BY <2>1 DEF OutputPosition
    <2>. QED
        BY <1>0, <2>2, <2>3 DEF OutputPosition, OutputGapFree, NextToCollect,
           NoHeight
<1>2. CASE last_height # NoHeight
    <2>1. baseline # NoHeight
        BY <1>2 DEF OutputPosition
    <2>2. /\ pc' = "collect" /\ loop_height' = last_height + 1
          /\ baseline' = baseline
        BY <1>2 DEF MonitorStatus
    <2>. QED
        BY <1>0, <2>1, <2>2 DEF OutputPosition, OutputGapFree, NextToCollect
<1>. QED
    BY <1>1, <1>2

LEMMA CollectBlockGapFree ==
    ASSUME ~FetchCanFail, IInv, OutputInOrder, OutputPosition, CollectBlock
    PROVE  OutputPosition'
<1>0. /\ NextToCollect = loop_height /\ NextToCollect' = loop_height + 1
      /\ last_height' # NoHeight
    BY CollectBlockPosition
<1>1. /\ pc = "collect" /\ baseline' = baseline
      /\ out \in Seq(OutRecords) /\ baseline \in Heights \cup {NoHeight}
    BY DEF CollectBlock, IInv, TypeOK
<1>2. baseline # NoHeight /\ baseline \in Nat
    BY <1>1 DEF OutputPosition, Heights
<1>3. loop_height = baseline + Len(out) + 1
    BY <1>0, <1>2 DEF OutputPosition
<1>4. Collected(loop_height)
    BY DEF CollectBlock, Skipped
<1>5. PICK r : out' = Append(out, r) /\ r.height = loop_height
    BY <1>4, CollectedAppends
<1>6. /\ Len(out') = Len(out) + 1
      /\ \A i \in 1..Len(out) : out'[i] = out[i]
      /\ out'[Len(out) + 1].height = loop_height
    BY <1>1, <1>5
<1>7. OutputGapFree'
    <2>. SUFFICES ASSUME NEW i \in 1..Len(out') PROVE out'[i].height = baseline + i
        BY <1>1 DEF OutputGapFree
    <2>1. CASE i \in 1..Len(out)
        BY <1>6, <2>1 DEF OutputPosition, OutputGapFree
    <2>2. CASE i = Len(out) + 1
        BY <1>1, <1>2, <1>3, <1>6, <2>2
    <2>. QED
        BY <1>6, <2>1, <2>2
<1>. QED
    BY <1>0, <1>1, <1>2, <1>3, <1>6, <1>7 DEF OutputPosition

LEMMA NextPosition ==
    ASSUME ~FetchCanFail, RInv, OutputPosition, [Next]_vars
    PROVE  OutputPosition'
<1>1. CASE UNCHANGED <<out, last_height, pc, loop_height, baseline>>
    BY <1>1, PositionUnchanged
<1>2. CASE MonitorStatus
    BY <1>2, MonitorStatusPosition DEF RInv
<1>3. CASE CollectBlock
    BY <1>3, CollectBlockGapFree DEF RInv
<1>. QED
    BY <1>1, <1>2, <1>3 DEF Next, ConsensusPoll, vars, main_vars, ghost_vars

\* When every block and metrics fetch is answered, the main loop's next
\* height to fetch is always the start height plus one plus the number of
\* lines written (lines 550-566), for every value of the constants: no
\* height is skipped or fetched twice across polls and catch-up loops.
THEOREM OutputPositionInvariant ==
    ASSUME ~FetchCanFail
    PROVE  Spec => [](RInv /\ OutputPosition)
<1>1. Init => RInv /\ OutputPosition
    BY InitRInv, InitPosition
<1>2. RInv /\ OutputPosition /\ [Next]_vars => RInv' /\ OutputPosition'
    BY NextRInv, NextPosition
<1>. QED
    BY <1>1, <1>2, PTL DEF Spec

\* When every block and metrics fetch is answered, the heights written
\* are exactly the start height plus 1, 2, ... (the spec's "strictly
\* increasing and gap-free"), whatever the bounds.  The run
\* gap_on_fetch_failure shows the hypothesis is needed: a failed block
\* fetch (lines 398-399) leaves a gap.
THEOREM OutputGapFreeInvariant ==
    ASSUME ~FetchCanFail
    PROVE  Spec => []OutputGapFree
<1>1. OutputPosition => OutputGapFree
    BY DEF OutputPosition
<1>. QED
    BY OutputPositionInvariant, <1>1, PTL

=============================================================================

--------------------------- MODULE RecordsProofs ---------------------------
(***************************************************************************)
(* Proof that every phase record the consensus thread produces is in      *)
(* exactly one place, the buffer or the output line of its own height     *)
(* (PhaseRecordsConserved), through the inductive invariant RecordsInv of *)
(* Collector: the tracker never runs ahead of the node's next height, and *)
(* it has produced records only below the height it is timing, so each    *)
(* record it emits (line 515) is the first one for its height.            *)
(***************************************************************************)
EXTENDS CollectorProofs

USE ConstantsAssumption

\* The variables the hand-off reads.
RecordVars == <<block_data_buffer, out, produced, current_height>>

-----------------------------------------------------------------------------
\* A phase record (a dict, lines 95-102) is never None.
LEMMA RecordNotNone ==
    ASSUME NEW x \in PhaseRecords
    PROVE  x # NoRecord
<1>1. DOMAIN x = {"height", "rounds", "durations", "total"}
    BY DEF PhaseRecords
<1>2. DOMAIN NoRecord = {}
    BY DEF NoRecord
<1>. QED
    BY <1>1, <1>2

LEMMA RecordsInit == Init => RecordsInv
BY DEF Init, TrackerInit, RecordsInv, PhaseRecordsConserved

\* A step that leaves the buffer, the file, the records and the tracker's
\* height alone, and moves the node's height to some nc not below it.
LEMMA RecordsFrame ==
    ASSUME RecordsInv, UNCHANGED RecordVars,
           current_height \in Nat \cup {NoHeight}, chain \in Nat,
           NEW nc \in Nat, chain' = nc, chain <= nc
    PROVE  RecordsInv'
<1>1. PhaseRecordsConserved'
    BY DEF RecordsInv, PhaseRecordsConserved, RecordVars
<1>2. current_height' # NoHeight => current_height' <= chain' + 1
    <2>1. current_height' = current_height
        BY DEF RecordVars
    <2>2. current_height # NoHeight => current_height <= chain + 1
        BY DEF RecordsInv
    <2>. QED
        BY <2>1, <2>2
<1>3. \A h \in Heights :
          produced'[h] # NoRecord =>
              current_height' # NoHeight /\ h < current_height'
    BY DEF RecordsInv, RecordVars
<1>. QED
    BY <1>1, <1>2, <1>3 DEF RecordsInv

LEMMA RecordsNode ==
    ASSUME IInv, RecordsInv, Node, NodeFrame
    PROVE  RecordsInv'
<1>1. current_height \in Nat \cup {NoHeight} /\ chain \in Nat
    BY DEF IInv, TypeOK, TrackerTypeOK
<1>2. chain' = chain \/ chain' = chain + 1
    BY DEF Node, NodeStep, NodeCommit, NodeRestart, Tick, node_vars
<1>3. UNCHANGED RecordVars
    BY DEF NodeFrame, RecordVars, main_vars, tracker_vars
<1>4. CASE chain' = chain
    BY <1>1, <1>3, <1>4, RecordsFrame
<1>5. CASE chain' = chain + 1
    BY <1>1, <1>3, <1>5, RecordsFrame
<1>. QED
    BY <1>2, <1>4, <1>5

\* A poll of the consensus state: the record emitted for the height being
\* timed (line 515) is the first for that height, since the records
\* produced so far are all below it.
LEMMA RecordsPoll ==
    ASSUME IInv, RecordsInv, ConsensusPoll
    PROVE  RecordsInv'
<1>. DEFINE h == chain + 1
<1>0. /\ block_data_buffer \in [Heights -> PhaseRecords \cup {NoRecord}]
      /\ produced \in [Heights -> PhaseRecords \cup {NoRecord}]
      /\ out \in Seq(OutRecords)
      /\ current_height \in Heights \cup {NoHeight}
      /\ h \in Heights /\ clock \in Nat
    BY DEF IInv, TypeOK, HeightsInRange, Heights
<1>1. current_height' = h
    <2>1. Observe(h, node_round, node_step, clock)
        BY DEF ConsensusPoll
    <2>2. /\ TrackerTypeOK /\ node_round \in Nat /\ node_step \in Nat
          /\ \A p \in Phases : phase_start_times[p] <= clock
        BY DEF IInv, TypeOK, TimesNotInFuture
    <2>3. h \in Nat /\ clock \in Nat
        BY <1>0 DEF Heights
    <2>. QED
        BY <2>1, <2>2, <2>3, ObserveTracker
<1>2. out' = out /\ chain' = chain
    BY DEF ConsensusPoll, main_vars, node_vars
<1>3. current_height' # NoHeight => current_height' <= chain' + 1
    BY <1>0, <1>1, <1>2 DEF Heights, NoHeight
<1>4. CASE ~Emits(h)
    <2>1. UNCHANGED <<block_data_buffer, produced>>
        BY <1>4 DEF ConsensusPoll
    <2>2. PhaseRecordsConserved'
        BY <1>2, <2>1 DEF RecordsInv, PhaseRecordsConserved
    <2>3. current_height # NoHeight => current_height <= h
        BY DEF RecordsInv
    <2>4. \A x \in Heights :
              produced'[x] # NoRecord => current_height' # NoHeight
                                         /\ x < current_height'
        BY <1>0, <1>1, <2>1, <2>3 DEF RecordsInv, Heights, NoHeight
    <2>. QED
        BY <1>3, <2>2, <2>4 DEF RecordsInv
<1>5. CASE Emits(h)
    <2>. DEFINE c == current_height
                F == Finalize(clock)
    <2>1. c \in Heights /\ c < h
        BY <1>0, <1>5 DEF Emits, RecordsInv, Heights, NoHeight
    <2>2. F \in PhaseRecords /\ F # NoRecord
        <3>1. /\ TrackerTypeOK /\ c \in Nat
              /\ \A p \in Phases : phase_start_times[p] <= clock
            BY <2>1 DEF IInv, TypeOK, TimesNotInFuture, Heights
        <3>2. F \in PhaseRecords
            BY <1>0, <3>1, FinalizeType
        <3>. QED
            BY <3>2, RecordNotNone
    <2>3. produced[c] = NoRecord
        BY <1>0, <2>1 DEF RecordsInv, Heights
    <2>4. /\ block_data_buffer' = [block_data_buffer EXCEPT ![c] = F]
          /\ produced' = [produced EXCEPT ![c] = F]
        BY <1>5 DEF ConsensusPoll
    <2>5. \A i \in 1..Len(out) : out[i].height \in Heights
                                 /\ (out[i].height = c => out[i].consensus = NoRecord)
        <3>. SUFFICES ASSUME NEW i \in 1..Len(out)
                      PROVE  out[i].height \in Heights
                             /\ (out[i].height = c => out[i].consensus = NoRecord)
            OBVIOUS
        <3>1. out[i] \in OutRecords
            BY <1>0
        <3>2. out[i].height \in Heights
            BY <3>1 DEF OutRecords
        <3>3. out[i].consensus # NoRecord =>
                  out[i].consensus = produced[out[i].height]
            BY DEF RecordsInv, PhaseRecordsConserved
        <3>. QED
            BY <2>3, <3>2, <3>3
    <2>6. PhaseRecordsConserved'
        <3>1. \A x \in Heights :
                  block_data_buffer'[x] # NoRecord =>
                      block_data_buffer'[x] = produced'[x]
            BY <1>0, <2>4 DEF RecordsInv, PhaseRecordsConserved
        <3>2. \A i \in 1..Len(out') :
                  out'[i].consensus # NoRecord =>
                      out'[i].consensus = produced'[out'[i].height]
            BY <1>0, <1>2, <2>4, <2>5 DEF RecordsInv, PhaseRecordsConserved
        <3>3. \A x \in Heights :
                  produced'[x] # NoRecord =>
                      (block_data_buffer'[x] # NoRecord) #
                          (\E i \in 1..Len(out') :
                              out'[i].height = x /\ out'[i].consensus = produced'[x])
            <4>. SUFFICES ASSUME NEW x \in Heights, produced'[x] # NoRecord
                          PROVE  (block_data_buffer'[x] # NoRecord) #
                                     (\E i \in 1..Len(out') :
                                         out'[i].height = x
                                         /\ out'[i].consensus = produced'[x])
                OBVIOUS
            <4>1. CASE x = c
                BY <1>0, <1>2, <2>2, <2>4, <2>5, <4>1
            <4>2. CASE x # c
                BY <1>0, <1>2, <2>4, <4>2 DEF RecordsInv, PhaseRecordsConserved
            <4>. QED
                BY <4>1, <4>2
        <3>. QED
            BY <3>1, <3>2, <3>3 DEF PhaseRecordsConserved
    <2>7. \A x \in Heights :
              produced'[x] # NoRecord => current_height' # NoHeight
                                         /\ x < current_height'
        BY <1>0, <1>1, <2>1, <2>4 DEF RecordsInv, Heights, NoHeight
    <2>. QED
        BY <1>3, <2>6, <2>7 DEF RecordsInv
<1>. QED
    BY <1>4, <1>5

\* One iteration of the main loop: the buffered record of the height
\* collected, if any, is popped (lines 476-484) into the line written for
\* that height, so it moves from one place to the other.
LEMMA RecordsCollect ==
    ASSUME IInv, RecordsInv, CollectBlock
    PROVE  RecordsInv'
<1>0. /\ block_data_buffer \in [Heights -> PhaseRecords \cup {NoRecord}]
      /\ out \in Seq(OutRecords)
      /\ current_height \in Nat \cup {NoHeight} /\ chain \in Nat
    BY DEF IInv, TypeOK, TrackerTypeOK
<1>1. UNCHANGED <<produced, current_height, chain>>
    BY DEF CollectBlock, tracker_vars, node_vars
<1>2. CASE Skipped
    BY <1>0, <1>1, <1>2, RecordsFrame DEF Skipped, RecordVars
<1>3. CASE Collected(loop_height)
    <2>. DEFINE h == loop_height
                L == [height     |-> h,
                      block_time |-> BlockTime(h),
                      consensus  |-> block_data_buffer[h]]
    <2>1. h \in Heights
        BY <1>0 DEF CollectBlock, IInv, HeightsInRange, TypeOK, Heights
    <2>2. /\ block_data_buffer' = [block_data_buffer EXCEPT ![h] = NoRecord]
          /\ out' = Append(out, L)
        BY <1>3 DEF Collected
    <2>3. /\ Len(out') = Len(out) + 1
          /\ \A i \in 1..Len(out) : out'[i] = out[i]
          /\ out'[Len(out) + 1] = L
        BY <1>0, <2>2
    <2>4. /\ \A x \in Heights :
                 block_data_buffer[x] # NoRecord =>
                     block_data_buffer[x] = produced[x]
          /\ \A i \in 1..Len(out) :
                 out[i].consensus # NoRecord =>
                     out[i].consensus = produced[out[i].height]
          /\ \A x \in Heights :
                 produced[x] # NoRecord =>
                     (block_data_buffer[x] # NoRecord) #
                         (\E i \in 1..Len(out) :
                             out[i].height = x /\ out[i].consensus = produced[x])
        BY DEF RecordsInv, PhaseRecordsConserved
    <2>5. \A x \in Heights :
              block_data_buffer'[x] # NoRecord =>
                  block_data_buffer'[x] = produced'[x]
        BY <1>1, <2>1, <2>2, <2>4
    <2>6. \A i \in 1..Len(out') :
              out'[i].consensus # NoRecord =>
                  out'[i].consensus = produced'[out'[i].height]
        BY <1>1, <2>1, <2>3, <2>4
    <2>7. \A x \in Heights :
              produced'[x] # NoRecord =>
                  (block_data_buffer'[x] # NoRecord) #
                      (\E i \in 1..Len(out') :
                          out'[i].height = x /\ out'[i].consensus = produced'[x])
        <3>. SUFFICES ASSUME NEW x \in Heights, produced[x] # NoRecord
                      PROVE  (block_data_buffer'[x] # NoRecord) #
                                 (\E i \in 1..Len(out') :
                                     out'[i].height = x
                                     /\ out'[i].consensus = produced[x])
            BY <1>1
        <3>1. CASE x = h
            <4>1. block_data_buffer'[x] = NoRecord
                BY <1>0, <2>1, <2>2, <3>1
            <4>2. CASE block_data_buffer[h] # NoRecord
                <5>1. out'[Len(out) + 1].height = x
                      /\ out'[Len(out) + 1].consensus = produced[x]
                    BY <2>1, <2>3, <2>4, <3>1, <4>2
                <5>2. \E i \in 1..Len(out') :
                          out'[i].height = x /\ out'[i].consensus = produced[x]
                    BY <1>0, <2>3, <5>1
                <5>. QED
                    BY <4>1, <5>2, Zenon
            <4>3. CASE block_data_buffer[h] = NoRecord
                <5>1. PICK i \in 1..Len(out) :
                          out[i].height = x /\ out[i].consensus = produced[x]
                    BY <2>4, <3>1, <4>3
                <5>2. \E j \in 1..Len(out') :
                          out'[j].height = x /\ out'[j].consensus = produced[x]
                    BY <1>0, <2>3, <5>1
                <5>. QED
                    BY <4>1, <5>2, Zenon
            <4>. QED
                BY <4>2, <4>3
        <3>2. CASE x # h
            <4>1. block_data_buffer'[x] = block_data_buffer[x]
                BY <2>1, <2>2, <3>2
            <4>2. (\E i \in 1..Len(out') :
                       out'[i].height = x /\ out'[i].consensus = produced[x])
                  <=> (\E i \in 1..Len(out) :
                       out[i].height = x /\ out[i].consensus = produced[x])
                BY <2>3, <3>2
            <4>. QED
                BY <2>4, <4>1, <4>2
        <3>. QED
            BY <3>1, <3>2
    <2>8. PhaseRecordsConserved'
        BY <2>5, <2>6, <2>7 DEF PhaseRecordsConserved
    <2>. QED
        BY <1>1, <2>8 DEF RecordsInv
<1>. QED
    BY <1>2, <1>3 DEF CollectBlock

LEMMA RecordsNext ==
    ASSUME IInv, RecordsInv, [Next]_vars
    PROVE  RecordsInv'
<1>0. current_height \in Nat \cup {NoHeight} /\ chain \in Nat
    BY DEF IInv, TypeOK, TrackerTypeOK
<1>1. CASE Node /\ NodeFrame
    BY <1>1, RecordsNode
<1>2. CASE ConsensusPoll
    BY <1>2, RecordsPoll
<1>3. CASE CollectBlock
    BY <1>3, RecordsCollect
<1>4. CASE MonitorStatus \/ UNCHANGED vars
    <2>1. UNCHANGED RecordVars /\ chain' = chain
        BY <1>4 DEF MonitorStatus, vars, RecordVars, tracker_vars, node_vars,
           main_vars, ghost_vars
    <2>. QED
        BY <1>0, <2>1, RecordsFrame
<1>. QED
    BY <1>1, <1>2, <1>3, <1>4 DEF Next, NodeFrame

\* No step replaces a record already produced: the only write (line 515)
\* is for the height being timed, which has none yet.
LEMMA RecordsStable ==
    ASSUME IInv, RecordsInv, [Next]_vars
    PROVE  \A h \in Heights : produced[h] # NoRecord => produced'[h] = produced[h]
<1>0. produced \in [Heights -> PhaseRecords \cup {NoRecord}]
    BY DEF IInv, TypeOK
<1>1. CASE ConsensusPoll /\ Emits(chain + 1)
    <2>1. produced' = [produced EXCEPT ![current_height] = Finalize(clock)]
        BY <1>1 DEF ConsensusPoll
    <2>2. \A h \in Heights : produced[h] # NoRecord => h # current_height
        BY DEF RecordsInv, Heights
    <2>. QED
        BY <1>0, <2>1, <2>2
<1>2. CASE ConsensusPoll /\ ~Emits(chain + 1)
    BY <1>2 DEF ConsensusPoll
<1>3. CASE ~ConsensusPoll
    <2>1. produced' = produced
        BY <1>3 DEF Next, Node, NodeStep, NodeCommit, NodeRestart, Tick,
           MonitorStatus, CollectBlock, vars, ghost_vars
    <2>. QED
        BY <2>1
<1>. QED
    BY <1>1, <1>2, <1>3

-----------------------------------------------------------------------------
\* The strengthening RecordsInv holds in every reachable state for every
\* value of the constants: besides conserving the records, the consensus
\* thread's height is never more than one past the chain's, and every
\* record produced is of a height the thread has already left (line 71).
THEOREM RecordsInvInvariant == Spec => [](IInv /\ RecordsInv)
<1>1. Init => IInv /\ RecordsInv
    BY InitIInv, RecordsInit
<1>2. IInv /\ RecordsInv /\ [Next]_vars => IInv' /\ RecordsInv'
    BY NextIInv, RecordsNext
<1>. QED
    BY <1>1, <1>2, PTL DEF Spec

\* Every record the consensus thread produces (line 515) is, for every
\* value of the constants, either still buffered under its height or in
\* the output line of that height, never both and never lost, and no line
\* carries another height's record: the one-height lag of the tracker and
\* the interleaving of the two threads never mix records up.
THEOREM PhaseRecordsConservedInvariant == Spec => []PhaseRecordsConserved
<1>1. RecordsInv => PhaseRecordsConserved
    BY DEF RecordsInv
<1>. QED
    BY RecordsInvInvariant, <1>1, PTL

\* The consensus thread finalizes each height at most once, for every
\* value of the constants, despite the stale last_state kept across the
\* height change (line 71): a record once produced is never replaced.
THEOREM RecordFinalizedOnceHolds == Spec => RecordFinalizedOnce
<1>1. IInv /\ RecordsInv /\ [Next]_vars =>
          [\A h \in Heights : produced[h] # NoRecord => produced'[h] = produced[h]]_vars
    BY RecordsStable
<1>. QED
    BY RecordsInvInvariant, <1>1, PTL DEF Spec, RecordFinalizedOnce

=============================================================================

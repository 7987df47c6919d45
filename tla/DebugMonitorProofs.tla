------------------------- MODULE DebugMonitorProofs -------------------------
(***************************************************************************)
(* Proofs about CosmosAdvancedMonitor (consensus_debug_monitor.py) for     *)
(* every value of the constants allowed by DebugConstantsAssumption.       *)
(*  - TypeCorrect: every state is well typed; it rests on MonitorInv,      *)
(*    because a block time t - last_block_time is a natural only while     *)
(*    last_block_time is the header time of an earlier committed height.   *)
(*  - StatsWindowInvariant: the bounded block-time deque always holds the  *)
(*    block times of the last maxlen results monitor_once returned.        *)
(***************************************************************************)
EXTENDS DebugMonitor, SequenceTheorems, TLAPS

USE DebugConstantsAssumption

-----------------------------------------------------------------------------
(* deque.append with maxlen, as the operator Push.                         *)

\* Appending to a deque that holds at most MaxLen samples keeps it a
\* sequence of naturals with at most MaxLen elements; the deque is full
\* once it has been full.
LEMMA PushType ==
    ASSUME NEW dq \in Seq(Nat), NEW v \in Nat, Len(dq) <= MaxLen
    PROVE  /\ Push(dq, v) \in Seq(Nat)
           /\ Len(Push(dq, v)) = IF Len(dq) < MaxLen THEN Len(dq) + 1
                                  ELSE MaxLen
           /\ Len(Push(dq, v)) <= MaxLen
<1>1. CASE Len(dq) < MaxLen
    <2>1. Append(dq, v) \in Seq(Nat) /\ Len(Append(dq, v)) = Len(dq) + 1
        BY AppendProperties
    <2>. QED
        BY <1>1, <2>1 DEF Push
<1>2. CASE ~(Len(dq) < MaxLen)
    <2>1. dq # <<>> /\ Len(dq) = MaxLen
        BY <1>2
    <2>2. Tail(dq) \in Seq(Nat) /\ Len(Tail(dq)) = Len(dq) - 1
        BY <2>1, HeadTailProperties
    <2>3. Append(Tail(dq), v) \in Seq(Nat)
          /\ Len(Append(Tail(dq), v)) = Len(Tail(dq)) + 1
        BY <2>2, AppendProperties
    <2>. QED
        BY <1>2, <2>1, <2>2, <2>3 DEF Push
<1>. QED
    BY <1>1, <1>2

\* What a deque holds after an append: the old samples, shifted by one once
\* the deque is full, then the new one.
LEMMA PushContents ==
    ASSUME NEW dq \in Seq(Nat), NEW v \in Nat, Len(dq) <= MaxLen,
           NEW i \in 1..Len(Push(dq, v))
    PROVE  Push(dq, v)[i] =
               IF i = Len(Push(dq, v)) THEN v
               ELSE IF Len(dq) < MaxLen THEN dq[i] ELSE dq[i + 1]
<1>1. CASE Len(dq) < MaxLen
    <2>1. /\ Len(Append(dq, v)) = Len(dq) + 1
          /\ \A k \in 1..Len(dq) : Append(dq, v)[k] = dq[k]
          /\ Append(dq, v)[Len(dq) + 1] = v
        BY AppendProperties
    <2>. QED
        BY <1>1, <2>1 DEF Push
<1>2. CASE ~(Len(dq) < MaxLen)
    <2>1. dq # <<>> /\ Len(dq) = MaxLen
        BY <1>2
    <2>2. /\ Tail(dq) \in Seq(Nat) /\ Len(Tail(dq)) = Len(dq) - 1
          /\ \A k \in 1..Len(Tail(dq)) : Tail(dq)[k] = dq[k + 1]
        BY <2>1, HeadTailProperties
    <2>3. /\ Len(Append(Tail(dq), v)) = Len(Tail(dq)) + 1
          /\ \A k \in 1..Len(Tail(dq)) : Append(Tail(dq), v)[k] = Tail(dq)[k]
          /\ Append(Tail(dq), v)[Len(Tail(dq)) + 1] = v
        BY <2>2, AppendProperties
    <2>. QED
        BY <1>2, <2>1, <2>2, <2>3 DEF Push
<1>. QED
    BY <1>1, <1>2

\* PushAll keeps every deque typed and bounded, and appends the block time
\* to the block_times deque.
LEMMA PushAllType ==
    ASSUME NEW smp \in [Deques -> Seq(Nat)],
           \A d \in Deques : Len(smp[d]) <= MaxLen,
           NEW names, NEW v \in Nat, NEW bt \in Nat
    PROVE  /\ PushAll(smp, names, v, bt) \in [Deques -> Seq(Nat)]
           /\ \A d \in Deques : Len(PushAll(smp, names, v, bt)[d]) <= MaxLen
           /\ PushAll(smp, names, v, bt)["block_times"]
                  = Push(smp["block_times"], bt)
<1>1. ASSUME NEW d \in Deques
      PROVE  /\ PushAll(smp, names, v, bt)[d] \in Seq(Nat)
             /\ Len(PushAll(smp, names, v, bt)[d]) <= MaxLen
    <2>0. smp[d] \in Seq(Nat) /\ Len(smp[d]) <= MaxLen
        OBVIOUS
    <2>1. Push(smp[d], bt) \in Seq(Nat) /\ Len(Push(smp[d], bt)) <= MaxLen
        BY <2>0, PushType
    <2>2. Push(smp[d], v) \in Seq(Nat) /\ Len(Push(smp[d], v)) <= MaxLen
        BY <2>0, PushType
    <2>. QED
        BY <2>0, <2>1, <2>2 DEF PushAll
<1>2. "block_times" \in Deques
    BY DEF Deques
<1>. QED
    BY <1>1, <1>2 DEF PushAll

-----------------------------------------------------------------------------
(* MonitorInv is inductive.                                                *)

LEMMA InitMonitorInv == Init => MonitorInv
<1>. SUFFICES ASSUME Init PROVE MonitorInv
    OBVIOUS
<1>1. samples \in [Deques -> Seq(Nat)] /\ \A d \in Deques : Len(samples[d]) <= MaxLen
    BY DEF Init
<1>2. TypeOK
    <2>1. chain \in Heights /\ header_time \in [Heights -> Nat]
        BY DEF Init, Heights, NoTime
    <2>2. reported \in Seq([height: Heights, block_time: Nat])
        BY DEF Init
    <2>3. clock \in 0..Duration /\ last_block_time \in Nat
          /\ blocks_observed \in Nat /\ captures \in Nat
        BY DEF Init, NoTime
    <2>. QED
        BY <1>1, <2>1, <2>2, <2>3, Zenon DEF Init, TypeOK, NoHeight
<1>3. \A a, b \in 1..chain : a < b => header_time[a] < header_time[b]
    BY DEF Init, Heights
<1>. QED
    BY <1>2, <1>3 DEF Init, MonitorInv, NoHeight, NoTime

\* The profile check of lines 501-502 keeps its variables typed.
LEMMA CaptureCheckType ==
    ASSUME TypeOK, CaptureCheck
    PROVE  captures' \in Nat /\ cpu_profile' \in {"none", "failed", "ok"}
<1>1. CASE CaptureAt # 0 /\ blocks_observed' = CaptureAt
    <2>1. PICK fetched, analysed \in Outcomes :
              cpu_profile' = IF ~fetched THEN cpu_profile
                             ELSE IF analysed THEN "ok" ELSE "failed"
        BY <1>1 DEF CaptureCheck
    <2>. QED
        BY <1>1, <2>1 DEF CaptureCheck, TypeOK
<1>2. CASE ~(CaptureAt # 0 /\ blocks_observed' = CaptureAt)
    BY <1>2 DEF CaptureCheck, TypeOK
<1>. QED
    BY <1>1, <1>2

LEMMA NodeCommitMonitorInv ==
    ASSUME MonitorInv, NodeCommit
    PROVE  MonitorInv'
<1>0. TypeOK
    BY DEF MonitorInv
<1>1. PICK gap \in 1..MaxGap :
          header_time' = [header_time EXCEPT ![chain + 1] =
                              header_time[chain] + gap]
    BY DEF NodeCommit
<1>2. chain + 1 \in Heights /\ chain' = chain + 1 /\ chain \in Heights
    BY <1>0 DEF NodeCommit, TypeOK, Heights
<1>3. TypeOK'
    BY <1>0, <1>1, <1>2 DEF NodeCommit, TypeOK, mon_vars, run_vars, Heights
<1>4. \A a, b \in 1..chain' : a < b => header_time'[a] < header_time'[b]
    <2>. SUFFICES ASSUME NEW a \in 1..chain', NEW b \in 1..chain', a < b
                  PROVE  header_time'[a] < header_time'[b]
        OBVIOUS
    <2>1. a \in Heights /\ b \in Heights /\ header_time \in [Heights -> Nat]
        BY <1>0, <1>2 DEF TypeOK, Heights
    <2>2. CASE b = chain + 1
        <3>1. header_time[a] <= header_time[chain]
            BY <2>1, <2>2, <1>2 DEF MonitorInv
        <3>. QED
            BY <1>1, <1>2, <2>1, <2>2, <3>1
    <2>3. CASE b # chain + 1
        BY <1>1, <1>2, <2>1, <2>3 DEF MonitorInv
    <2>. QED
        BY <2>2, <2>3
<1>5. (IF last_block_height = NoHeight THEN last_block_time = NoTime
       ELSE /\ last_block_height <= chain
            /\ last_block_time = header_time[last_block_height])'
    BY <1>0, <1>1, <1>2 DEF MonitorInv, NodeCommit, mon_vars, TypeOK, Heights,
       NoHeight
<1>. QED
    BY <1>3, <1>4, <1>5 DEF MonitorInv

\* The two branches of monitor_once with /status answered.
LEMMA PollOnceMonitorInv ==
    ASSUME MonitorInv,
           NEW mo \in BOOLEAN, NEW g \in BOOLEAN, NEW bo \in BOOLEAN,
           NEW ro \in BOOLEAN, NEW gs \in BOOLEAN,
           PollOnce(mo, g, bo, ro, gs), CaptureCheck,
           clock < Duration, clock' = clock + 1, UNCHANGED <<node_vars, phase>>
    PROVE  MonitorInv'
<1>0. /\ TypeOK
      /\ chain \in Heights /\ header_time \in [Heights -> Nat]
      /\ samples \in [Deques -> Seq(Nat)]
      /\ \A d \in Deques : Len(samples[d]) <= MaxLen
      /\ clock \in 0..Duration
    BY DEF MonitorInv, TypeOK
<1>1. chain' = chain /\ header_time' = header_time /\ phase' = phase
    BY DEF node_vars
<1>2. CASE last_block_height # NoHeight /\ chain > last_block_height
    <2>1. last_block_height \in 1..chain
          /\ last_block_time = header_time[last_block_height]
        BY <1>0, <1>2 DEF MonitorInv, TypeOK, Heights, NoHeight
    <2>2. header_time[chain] - last_block_time \in Nat
        BY <1>0, <1>2, <2>1 DEF MonitorInv, Heights
    <2>3. /\ samples' \in [Deques -> Seq(Nat)]
          /\ \A d \in Deques : Len(samples'[d]) <= MaxLen
        <3>1. samples' = PushAll(samples, ScrapedGauges(mo, g)
                                          \cup BlockMetrics(bo, ro, gs),
                                 chain, header_time[chain] - last_block_time)
            BY <1>2 DEF PollOnce
        <3>2. chain \in Nat
            BY <1>0 DEF Heights
        <3>3. LET nm == ScrapedGauges(mo, g) \cup BlockMetrics(bo, ro, gs)
                  bt == header_time[chain] - last_block_time
              IN  /\ PushAll(samples, nm, chain, bt) \in [Deques -> Seq(Nat)]
                  /\ \A d \in Deques : Len(PushAll(samples, nm, chain, bt)[d])
                                           <= MaxLen
            BY <1>0, <2>2, <3>2, PushAllType, Zenon
        <3>. QED
            BY <3>1, <3>3
    <2>4. reported' \in Seq([height: Heights, block_time: Nat])
        <3>1. reported' = Append(reported, [height |-> chain,
                             block_time |-> header_time[chain] - last_block_time])
            BY <1>2 DEF PollOnce
        <3>2. [height |-> chain,
               block_time |-> header_time[chain] - last_block_time]
                  \in [height: Heights, block_time: Nat]
            BY <1>0, <2>2
        <3>3. reported \in Seq([height: Heights, block_time: Nat])
            BY <1>0 DEF TypeOK
        <3>. QED
            BY <3>1, <3>2, <3>3, AppendProperties
    <2>5. /\ blocks_observed' \in Nat
          /\ UNCHANGED <<last_block_height, last_block_time, baseline>>
          /\ latest_metrics' \in BOOLEAN
        BY <1>0, <1>2 DEF PollOnce, TypeOK
    <2>6. captures' \in Nat /\ cpu_profile' \in {"none", "failed", "ok"}
        BY <1>0, CaptureCheckType
    <2>7. TypeOK'
        BY <1>0, <1>1, <2>3, <2>4, <2>5, <2>6 DEF TypeOK
    <2>. QED
        BY <1>1, <2>5, <2>7 DEF MonitorInv
<1>3. CASE ~(last_block_height # NoHeight /\ chain > last_block_height)
    <2>1. /\ last_block_height' = chain
          /\ last_block_time' = header_time[chain]
          /\ baseline' \in Heights \cup {NoHeight}
          /\ UNCHANGED <<samples, reported, blocks_observed>>
          /\ latest_metrics' \in BOOLEAN
        BY <1>0, <1>3 DEF PollOnce, TypeOK
    <2>2. captures' \in Nat /\ cpu_profile' \in {"none", "failed", "ok"}
        BY <1>0, <2>1, CaptureCheckType DEF TypeOK
    <2>3. TypeOK'
        BY <1>0, <1>1, <2>1, <2>2 DEF TypeOK
    <2>4. last_block_height' # NoHeight
        BY <1>0, <2>1 DEF Heights, NoHeight
    <2>5. (IF last_block_height = NoHeight THEN last_block_time = NoTime
           ELSE /\ last_block_height <= chain
                /\ last_block_time = header_time[last_block_height])'
        BY <1>0, <1>1, <2>1, <2>4 DEF Heights
    <2>6. (\A a, b \in 1..chain : a < b => header_time[a] < header_time[b])'
        BY <1>1 DEF MonitorInv
    <2>. QED
        BY <2>3, <2>5, <2>6 DEF MonitorInv
<1>. QED
    BY <1>2, <1>3

LEMMA IterateMonitorInv ==
    ASSUME MonitorInv, Iterate
    PROVE  MonitorInv'
<1>1. CASE FetchCanFail /\ PollFailed
    <2>1. TypeOK /\ clock \in 0..Duration /\ clock < Duration
        BY DEF MonitorInv, TypeOK, Iterate
    <2>2. captures' \in Nat /\ cpu_profile' \in {"none", "failed", "ok"}
        BY <1>1, <2>1, CaptureCheckType DEF Iterate, PollFailed, TypeOK
    <2>3. TypeOK'
        BY <1>1, <2>1, <2>2 DEF Iterate, PollFailed, TypeOK, mon_vars, node_vars
    <2>. QED
        BY <1>1, <2>3 DEF MonitorInv, Iterate, PollFailed, mon_vars, node_vars
<1>2. CASE \E mo, bo, ro \in Outcomes, g, gs \in BOOLEAN : PollOnce(mo, g, bo, ro, gs)
    <2>1. PICK mo, bo, ro \in Outcomes, g, gs \in BOOLEAN : PollOnce(mo, g, bo, ro, gs)
        BY <1>2
    <2>2. mo \in BOOLEAN /\ bo \in BOOLEAN /\ ro \in BOOLEAN
        BY DEF Outcomes
    <2>. QED
        BY <2>1, <2>2, PollOnceMonitorInv DEF Iterate
<1>. QED
    BY <1>1, <1>2 DEF Iterate

LEMMA StartFinishMonitorInv ==
    ASSUME MonitorInv, Start \/ Finish
    PROVE  MonitorInv'
<1>1. TypeOK /\ phase' \in {"start", "loop", "done", "aborted"}
    BY DEF MonitorInv, Start, Finish
<1>. QED
    BY <1>1 DEF MonitorInv, TypeOK, Start, Finish, node_vars, mon_vars

LEMMA NextMonitorInv ==
    ASSUME MonitorInv, [Next]_vars
    PROVE  MonitorInv'
<1>1. CASE UNCHANGED vars
    BY <1>1 DEF MonitorInv, TypeOK, vars, node_vars, mon_vars, run_vars
<1>. QED
    BY <1>1, NodeCommitMonitorInv, IterateMonitorInv, StartFinishMonitorInv
       DEF Next, Node

\* The invariant of which TypeOK is a part holds in every reachable state.
THEOREM MonitorInvariant == Spec => []MonitorInv
BY InitMonitorInv, NextMonitorInv, PTL DEF Spec

(***************************************************************************)
(* Every state of the monitor is well typed; in particular every block     *)
(* time monitor_once computes at line 339 is a natural number.             *)
(***************************************************************************)
THEOREM TypeCorrect == Spec => []TypeOK
BY MonitorInvariant, PTL DEF MonitorInv

-----------------------------------------------------------------------------
(* StatsWindow.                                                            *)

\* A poll that sees a new block appends the same block time to the deque
\* and to the results; the deque's window then moves by one.
LEMMA NewBlockStatsWindow ==
    ASSUME MonitorInv, StatsWindow,
           NEW mo \in BOOLEAN, NEW g \in BOOLEAN, NEW bo \in BOOLEAN,
           NEW ro \in BOOLEAN, NEW gs \in BOOLEAN,
           PollOnce(mo, g, bo, ro, gs),
           last_block_height # NoHeight, chain > last_block_height
    PROVE  StatsWindow'
<1> DEFINE dq == samples["block_times"]
           bt == header_time[chain] - last_block_time
           n  == Len(reported)
           k  == Len(dq)
           rec == [height |-> chain, block_time |-> bt]
<1>0. /\ chain \in Heights /\ header_time \in [Heights -> Nat]
      /\ samples \in [Deques -> Seq(Nat)]
      /\ \A d \in Deques : Len(samples[d]) <= MaxLen
      /\ reported \in Seq([height: Heights, block_time: Nat])
      /\ "block_times" \in Deques
    BY DEF MonitorInv, TypeOK, Deques
<1>1. dq \in Seq(Nat) /\ k <= MaxLen /\ chain \in Nat
    BY <1>0 DEF Heights
<1>2. bt \in Nat
    <2>1. last_block_height \in 1..chain
          /\ last_block_time = header_time[last_block_height]
        BY <1>0 DEF MonitorInv, TypeOK, Heights, NoHeight
    <2>. QED
        BY <1>0, <2>1 DEF MonitorInv, Heights
<1>3. samples'["block_times"] = Push(dq, bt)
    <2>1. samples' = PushAll(samples, ScrapedGauges(mo, g)
                                      \cup BlockMetrics(bo, ro, gs), chain, bt)
        BY DEF PollOnce
    <2>2. \A names : PushAll(samples, names, chain, bt)["block_times"] = Push(dq, bt)
        BY <1>0 DEF PushAll
    <2>. QED
        BY <2>1, <2>2
<1>4. /\ reported' = Append(reported, rec)
      /\ Len(reported') = n + 1
      /\ \A i \in 1..n : reported'[i] = reported[i]
      /\ reported'[n + 1].block_time = bt
    <2>1. reported' = Append(reported, rec)
        BY DEF PollOnce
    <2>2. rec \in [height: Heights, block_time: Nat]
        BY <1>0, <1>2
    <2>. QED
        BY <1>0, <2>1, <2>2, AppendProperties
<1>5. k = IF n < MaxLen THEN n ELSE MaxLen
    BY DEF StatsWindow
<1>6. Len(Push(dq, bt)) = IF n + 1 < MaxLen THEN n + 1 ELSE MaxLen
    <2>1. Len(Push(dq, bt)) = IF k < MaxLen THEN k + 1 ELSE MaxLen
        BY <1>1, <1>2, PushType
    <2>. QED
        BY <1>1, <1>5, <2>1
<1>7. ASSUME NEW i \in 1..Len(Push(dq, bt))
      PROVE  Push(dq, bt)[i] = reported'[(n + 1) - Len(Push(dq, bt)) + i].block_time
    <2>1. Push(dq, bt)[i] = IF i = Len(Push(dq, bt)) THEN bt
                            ELSE IF k < MaxLen THEN dq[i] ELSE dq[i + 1]
        BY <1>1, <1>2, PushContents
    <2>2. \A j \in 1..k : dq[j] = reported[n - k + j].block_time
        BY DEF StatsWindow
    <2>3. CASE i = Len(Push(dq, bt))
        BY <1>4, <2>1, <2>3
    <2>4. CASE i # Len(Push(dq, bt)) /\ k < MaxLen
        <3>1. k = n /\ Len(Push(dq, bt)) = n + 1 /\ i \in 1..n
            BY <1>1, <1>5, <1>6, <2>4
        <3>2. dq[i] = reported[i].block_time
            BY <2>2, <3>1
        <3>. QED
            BY <1>4, <2>1, <2>4, <3>1, <3>2
    <2>5. CASE i # Len(Push(dq, bt)) /\ ~(k < MaxLen)
        <3>1. k = MaxLen /\ n >= MaxLen /\ Len(Push(dq, bt)) = MaxLen
              /\ i + 1 \in 1..k
            BY <1>1, <1>5, <1>6, <2>5
        <3>2. dq[i + 1] = reported[n - MaxLen + i + 1].block_time
            BY <2>2, <3>1
        <3>3. n - MaxLen + i + 1 \in 1..n
            BY <1>1, <3>1
        <3>. QED
            BY <1>4, <2>1, <2>5, <3>1, <3>2, <3>3
    <2>. QED
        BY <2>3, <2>4, <2>5
<1>. QED
    BY <1>3, <1>4, <1>6, <1>7 DEF StatsWindow

\* The other steps leave both the deque and the results alone.
LEMMA NextStatsWindow ==
    ASSUME MonitorInv, StatsWindow, [Next]_vars
    PROVE  StatsWindow'
<1>1. CASE Iterate /\ \E mo, bo, ro \in Outcomes, g, gs \in BOOLEAN :
                          /\ PollOnce(mo, g, bo, ro, gs)
                          /\ last_block_height # NoHeight
                          /\ chain > last_block_height
    <2>1. PICK mo, bo, ro \in Outcomes, g, gs \in BOOLEAN :
                          /\ PollOnce(mo, g, bo, ro, gs)
                          /\ last_block_height # NoHeight
                          /\ chain > last_block_height
        BY <1>1
    <2>2. mo \in BOOLEAN /\ bo \in BOOLEAN /\ ro \in BOOLEAN
        BY DEF Outcomes
    <2>. QED
        BY <2>1, <2>2, NewBlockStatsWindow
<1>2. CASE ~(Iterate /\ \E mo, bo, ro \in Outcomes, g, gs \in BOOLEAN :
                          /\ PollOnce(mo, g, bo, ro, gs)
                          /\ last_block_height # NoHeight
                          /\ chain > last_block_height)
    <2>1. UNCHANGED <<samples, reported>>
        BY <1>2 DEF Next, Node, NodeCommit, Start, Finish, Iterate, PollFailed,
           PollOnce, vars, mon_vars, run_vars
    <2>. QED
        BY <2>1 DEF StatsWindow
<1>. QED
    BY <1>1, <1>2

(***************************************************************************)
(* The block-time statistics print_statistics reports are over exactly the *)
(* block times of the last maxlen results monitor_once returned, oldest    *)
(* first (deques of lines 34-48, appends of lines 340-358), for every      *)
(* maxlen, duration and pattern of failed fetches.                         *)
(***************************************************************************)
THEOREM StatsWindowInvariant == Spec => []StatsWindow
<1>1. Init => StatsWindow
    BY DEF Init, StatsWindow, Deques
<1>2. MonitorInv /\ StatsWindow /\ [Next]_vars => StatsWindow'
    BY NextStatsWindow
<1>. QED
    BY <1>1, <1>2, MonitorInvariant, NextMonitorInv, InitMonitorInv, PTL DEF Spec

=============================================================================

---------------------------- MODULE DebugMonitor ----------------------------
(***************************************************************************)
(* CosmosAdvancedMonitor of scripts/consensus_debug_monitor.py: a single   *)
(* loop (run, lines 451-525) that every SAMPLE_INTERVAL calls monitor_once *)
(* (lines 322-371) and, after the 10th observed block, captures a CPU      *)
(* profile (lines 501-502).                                                *)
(*                                                                         *)
(* monitor_once reads the node's latest height and header time from        *)
(* /status, scrapes /metrics, and when the height is above                 *)
(* last_block_height records a block-time sample and the per-block         *)
(* samples of /block and /block_results in bounded deques (maxlen 100,     *)
(* lines 34-48).  Sample values are abstracted: a block-time sample is its *)
(* value, every other sample is the height it was taken at.  Each HTTP     *)
(* fetch may fail (the methods catch and return None).                     *)
(*                                                                         *)
(* The node commits blocks with strictly increasing header times.  One     *)
(* iteration of the loop takes one unit of the clock (the sleep of line    *)
(* 504); the loop runs while clock < Duration (line 482).                  *)
(***************************************************************************)
EXTENDS Naturals, Sequences

CONSTANTS
    InitHeight,     \* node height when the monitor starts
    MaxHeight,      \* last height the node commits
    MaxGap,         \* most header-time units between two blocks
    MaxLen,         \* deque maxlen (100 in the code)
    Duration,       \* iterations before the loop condition fails
    CaptureAt,      \* capture_profile_at (0 stands for None)
    FetchCanFail    \* whether an HTTP fetch may fail

ASSUME DebugConstantsAssumption ==
    /\ InitHeight \in Nat \ {0}
    /\ MaxHeight \in Nat /\ InitHeight <= MaxHeight
    /\ MaxGap \in Nat \ {0}
    /\ MaxLen \in Nat \ {0}
    /\ Duration \in Nat
    /\ CaptureAt \in Nat
    /\ FetchCanFail \in BOOLEAN

VARIABLES
    chain,              \* node: latest committed height
    header_time,        \* node: height -> header time (0 above chain)
    clock,              \* elapsed iterations
    phase,              \* "start", "loop", "done" or "aborted"
    last_block_height,  \* self.last_block_height, or NoHeight
    last_block_time,    \* self.last_block_time, or NoTime
    samples,            \* deque name -> sequence of samples
    latest_metrics,     \* profile_data['latest_metrics'] is non-empty
    blocks_observed,    \* local counter of run()
    cpu_profile,        \* profile_data['cpu_profile']: "none", "failed", "ok"
    captures,           \* history: calls of capture_cpu_profile
    reported,           \* history: [height, block_time] of each result returned
    baseline            \* history: first height /status reported, or NoHeight

node_vars == <<chain, header_time>>
mon_vars == <<last_block_height, last_block_time, samples, latest_metrics>>
run_vars == <<phase, blocks_observed, cpu_profile, captures, reported,
             baseline>>
vars == <<node_vars, clock, mon_vars, run_vars>>

Heights == 1..MaxHeight
NoHeight == 0
NoTime == 0
\* Whether a fetch answers: both outcomes when fetches may fail.
Outcomes == IF FetchCanFail THEN BOOLEAN ELSE {TRUE}

\* The deques of lines 34-48 that monitor_once appends to.
Deques == {"block_times", "tx_counts", "block_sizes", "gas_used",
           "mempool_sizes", "consensus_rounds"}

\* Mutant of Push: a plain list instead of a deque with maxlen.
PushUnbounded(dq, v) == Append(dq, v)

\* deque.append with maxlen: the oldest sample is dropped when full.
Push(dq, v) == IF Len(dq) < MaxLen THEN Append(dq, v) ELSE Append(Tail(dq), v)

\* Mutant of PushAll: the block time appended only with the block's samples.
PushAllOnlyNamed(smp, names, v, bt) ==
    [d \in Deques |->
        IF d = "block_times"
        THEN IF "tx_counts" \in names THEN Push(smp[d], bt) ELSE smp[d]
        ELSE IF d \in names THEN Push(smp[d], v)
        ELSE smp[d]]

\* Append v to the deques of the set `names`, leave the others alone.
PushAll(smp, names, v, bt) ==
    [d \in Deques |->
        IF d = "block_times" THEN Push(smp[d], bt)
        ELSE IF d \in names THEN Push(smp[d], v)
        ELSE smp[d]]

(***************************************************************************)
(* The node commits the next block, its header time 1..MaxGap after the    *)
(* previous one.                                                           *)
(***************************************************************************)
NodeCommit ==
    /\ chain < MaxHeight
    /\ \E gap \in 1..MaxGap :
          header_time' = [header_time EXCEPT ![chain + 1] =
                              header_time[chain] + gap]
    /\ chain' = chain + 1
    /\ UNCHANGED <<clock, mon_vars, run_vars>>

Node == NodeCommit

(***************************************************************************)
(* extract_consensus_metrics (lines 154-200): the mempool and round gauges *)
(* are present when the scrape answered and their regexes matched; the     *)
(* deques they feed (lines 342-346).                                       *)
(***************************************************************************)
ScrapedGauges(metrics_ok, gauges) ==
    IF metrics_ok /\ gauges THEN {"mempool_sizes", "consensus_rounds"} ELSE {}

(***************************************************************************)
(* calculate_block_metrics (lines 86-125): num_transactions and block_size *)
(* come from a /block answer, gas_used from a /block_results answer whose  *)
(* gas_used is present and converts; the deques they feed (lines 353-358). *)
(***************************************************************************)
BlockMetrics(block_ok, results_ok, gas) ==
    (IF block_ok THEN {"tx_counts", "block_sizes"} ELSE {})
    \cup (IF results_ok /\ gas THEN {"gas_used"} ELSE {})

\* Mutant of PollOnce: the baseline's time is not stored with its height.
PollOnceStaleTime(metrics_ok, gauges, block_ok, results_ok, gas) ==
    LET h == chain
        t == header_time[chain]
    IN  /\ latest_metrics' = metrics_ok
        /\ IF last_block_height # NoHeight /\ h > last_block_height
           THEN LET names == ScrapedGauges(metrics_ok, gauges)
                          \cup BlockMetrics(block_ok, results_ok, gas)
                IN  /\ samples' = PushAll(samples, names, h, t - last_block_time)
                    /\ reported' = Append(reported, [height |-> h,
                                              block_time |-> t - last_block_time])
                    /\ blocks_observed' = blocks_observed + 1
                    /\ UNCHANGED <<last_block_height, last_block_time, baseline>>
           ELSE /\ last_block_height' = h
                /\ baseline' = IF baseline = NoHeight THEN h ELSE baseline
                /\ UNCHANGED <<last_block_time, samples, reported, blocks_observed>>

(***************************************************************************)
(* monitor_once with /status answered (lines 328-371).  The scrape of      *)
(* lines 333-335 always replaces latest_metrics; gauges says whether its    *)
(* mempool and round regexes (lines 162-179) matched.  Above the last      *)
(* height, the block time is taken from the header times (line 339) and   *)
(* the method returns the result at line 360, before lines 369-370: the    *)
(* last height and time are only updated when no new block is seen.        *)
(***************************************************************************)
PollOnce(metrics_ok, gauges, block_ok, results_ok, gas) ==
    LET h == chain
        t == header_time[chain]
    IN  /\ latest_metrics' = metrics_ok
        /\ IF last_block_height # NoHeight /\ h > last_block_height
           THEN LET names == ScrapedGauges(metrics_ok, gauges)
                          \cup BlockMetrics(block_ok, results_ok, gas)
                IN  /\ samples' = PushAll(samples, names, h, t - last_block_time)
                    /\ reported' = Append(reported, [height |-> h,
                                              block_time |-> t - last_block_time])
                    /\ blocks_observed' = blocks_observed + 1
                    /\ UNCHANGED <<last_block_height, last_block_time, baseline>>
           ELSE /\ last_block_height' = h
                /\ baseline' = IF baseline = NoHeight THEN h ELSE baseline
                /\ last_block_time' = t
                /\ UNCHANGED <<samples, reported, blocks_observed>>

\* get_current_block failed: monitor_once returns None at line 326.
PollFailed ==
    UNCHANGED <<mon_vars, blocks_observed, reported, baseline>>

(***************************************************************************)
(* Lines 501-502 after every monitor_once call: the profile is captured    *)
(* whenever the counter equals capture_profile_at.  When the pprof fetch   *)
(* fails nothing is stored (line 247); when go tool pprof fails the       *)
(* analysis None is stored (lines 248-249).                                *)
(***************************************************************************)
CaptureCheck ==
    IF CaptureAt # 0 /\ blocks_observed' = CaptureAt
    THEN /\ captures' = captures + 1
         /\ \E fetched, analysed \in Outcomes :
               cpu_profile' = IF ~fetched THEN cpu_profile
                              ELSE IF analysed THEN "ok" ELSE "failed"
    ELSE UNCHANGED <<captures, cpu_profile>>

(***************************************************************************)
(* One iteration of the loop of lines 482-504.                             *)
(***************************************************************************)
Iterate ==
    /\ phase = "loop"
    /\ clock < Duration
    /\ \/ /\ FetchCanFail
          /\ PollFailed
       \/ \E metrics_ok, block_ok, results_ok \in Outcomes,
             gauges, gas \in BOOLEAN :
              PollOnce(metrics_ok, gauges, block_ok, results_ok, gas)
    /\ CaptureCheck
    /\ clock' = clock + 1
    /\ UNCHANGED <<node_vars, phase>>

(***************************************************************************)
(* Lines 462-476: the connectivity test; without a /status answer run()    *)
(* returns at line 466.  The metrics probe only prints.                    *)
(***************************************************************************)
Start ==
    /\ phase = "start"
    /\ \E ok \in Outcomes : phase' = IF ok THEN "loop" ELSE "aborted"
    /\ UNCHANGED <<node_vars, clock, mon_vars, blocks_observed, cpu_profile,
                   captures, reported, baseline>>

\* Lines 506-525: the loop condition fails; logs are read and statistics
\* printed, which changes no state of the monitor.
Finish ==
    /\ phase = "loop"
    /\ clock >= Duration
    /\ phase' = "done"
    /\ UNCHANGED <<node_vars, clock, mon_vars, blocks_observed, cpu_profile,
                   captures, reported, baseline>>

\* __init__ (lines 28-52) and the node at start-up.
Init ==
    /\ chain = InitHeight
    /\ header_time = [h \in Heights |-> IF h <= InitHeight THEN h ELSE NoTime]
    /\ clock = 0
    /\ phase = "start"
    /\ last_block_height = NoHeight
    /\ last_block_time = NoTime
    /\ samples = [d \in Deques |-> <<>>]
    /\ latest_metrics = FALSE
    /\ blocks_observed = 0
    /\ cpu_profile = "none"
    /\ captures = 0
    /\ reported = <<>>
    /\ baseline = NoHeight

Next == Node \/ Start \/ Iterate \/ Finish

\* The loop sleeps and polls again until the duration is over.
Spec == Init /\ [][Next]_vars

-----------------------------------------------------------------------------
TypeOK ==
    /\ chain \in Heights
    /\ header_time \in [Heights -> Nat]
    /\ clock \in 0..Duration
    /\ phase \in {"start", "loop", "done", "aborted"}
    /\ last_block_height \in Heights \cup {NoHeight}
    /\ last_block_time \in Nat
    /\ samples \in [Deques -> Seq(Nat)]
    /\ \A d \in Deques : Len(samples[d]) <= MaxLen
    /\ latest_metrics \in BOOLEAN
    /\ blocks_observed \in Nat
    /\ cpu_profile \in {"none", "failed", "ok"}
    /\ captures \in Nat
    /\ reported \in Seq([height: Heights, block_time: Nat])
    /\ baseline \in Heights \cup {NoHeight}


(***************************************************************************)
(* The inductive invariant behind TypeOK.  A block time is the header time *)
(* of the status height minus last_block_time (line 339); it is a natural  *)
(* only because header times grow with the height and last_block_time is  *)
(* the header time of last_block_height, a height the node has committed: *)
(* the pair is written together at lines 369-370 and never separately.    *)
(***************************************************************************)
MonitorInv ==
    /\ TypeOK
    /\ \A a, b \in 1..chain : a < b => header_time[a] < header_time[b]
    /\ IF last_block_height = NoHeight THEN last_block_time = NoTime
       ELSE /\ last_block_height <= chain
            /\ last_block_time = header_time[last_block_height]

(***************************************************************************)
(* The block-time statistics print_statistics reports (lines 386-392) are  *)
(* over exactly the block times of the last MaxLen results monitor_once    *)
(* returned, oldest first: the bounded deque neither loses a recent sample *)
(* nor keeps an evicted one, whatever the failed fetches in between.       *)
(***************************************************************************)
StatsWindow ==
    LET n == Len(reported)
        k == Len(samples["block_times"])
    IN  /\ k = IF n < MaxLen THEN n ELSE MaxLen
        /\ \A i \in 1..k :
              samples["block_times"][i] = reported[n - k + i].block_time

(***************************************************************************)
(* Each block-time sample is the time between the block it reports and the *)
(* block the monitor saw before it (the first one: the block of the first  *)
(* status answer), as the comment of line 338 says: "time between blocks   *)
(* using the block timestamps".  The samples then add up to the chain time *)
(* the run observed and their mean is the average block time.             *)
(***************************************************************************)
BlockTimesBetweenSamples ==
    \A i \in 1..Len(reported) :
        reported[i].block_time =
            header_time[reported[i].height]
            - header_time[IF i = 1 THEN baseline ELSE reported[i - 1].height]

(***************************************************************************)
(* The CPU profile is captured once, "after 10 blocks" (comment of line    *)
(* 529): capture_cpu_profile blocks the loop for the profile's duration.  *)
(***************************************************************************)
ProfileCapturedOnce == captures <= 1


=============================================================================

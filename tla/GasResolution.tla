--------------------------- MODULE GasResolution ---------------------------
(***************************************************************************)
(* Where a block's gas figures come from.                                  *)
(*  - TransactionAnalyzer.analyze_block_txs (scripts/block_timing_         *)
(*    collector.py, lines 198-253) fills the gas_used and gas_wanted of    *)
(*    each output line from the node's /block_results answer: the          *)
(*    top-level fields, or, when gas_used is missing or zero, the sums     *)
(*    over txs_results.                                                    *)
(*  - check_gas_location (scripts/debug_gas_data.py, lines 10-88) reads    *)
(*    the same answer and recommends where the gas data is.               *)
(* The analysis of a block depends on that block's answer alone, so the   *)
(* model follows one block: Init is any answer the node can give, Analyze  *)
(* the one step of both scripts, after which nothing changes (the debug    *)
(* script exits; the collector moves to a block of its own).               *)
(*                                                                         *)
(* A JSON gas field is abstracted to what the code tells apart: absent or  *)
(* null (Missing), the string "0" (ZeroStr, truthy but equal to "0"), a    *)
(* string int() rejects (Bad), or a number 0..MaxGas (the number 0 is     *)
(* falsy; no gas figure is negative).                                      *)
(***************************************************************************)
EXTENDS Integers, Sequences

CONSTANTS
    MaxGas,         \* largest gas figure of a field
    MaxTxs          \* most transaction results of a block
\* (MaxGas and MaxTxs are naturals.)

VARIABLES
    block_results,  \* the /block_results answer of the block being analyzed
    tx_analysis,    \* the gas section the collector wrote, or NoAnalysis
    advice          \* check_gas_location's recommendation, or NoAdvice

vars == <<block_results, tx_analysis, advice>>

\* The three forms that are not numbers, as negative sentinels.
Missing == -1
ZeroStr == -2
Bad == -3
Values == (0..MaxGas) \cup {Missing, ZeroStr, Bad}

\* One entry of txs_results.
TxResults == [gas_used: Values, gas_wanted: Values]

\* has_result: the fetch answered and the answer has a 'result' key.
Results == [has_result: BOOLEAN, gas_used: Values, gas_wanted: Values,
            txs_results: UNION {[1..n -> TxResults] : n \in 0..MaxTxs}]

NoAnalysis == [gas_used |-> Missing, gas_wanted |-> Missing]
NoAdvice == "none yet"
Advice == {"top-level", "sum", "no gas data", "no result", "NameError"}

\* Python truthiness of a field: None and the number 0 are false.
Truthy(v) == v \notin {Missing, 0}

\* int(v): the number a field holds; only Bad makes int() raise.
IntOf(v) == IF v = ZeroStr THEN 0 ELSE v

\* Mutant of IntOr0: no except, the raw field is written out.
IntOr0KeepsRaw(v) == IF Truthy(v) THEN IntOf(v) ELSE 0

(***************************************************************************)
(* Lines 245-253: int(v) if v else 0, and 0 when int() raises.            *)
(***************************************************************************)
IntOr0(v) == IF v \in {Missing, 0, ZeroStr, Bad} THEN 0 ELSE v

\* int(v) if v else 0 (lines 237-238); raises when v is Bad.
TxValue(v) == IF Truthy(v) THEN IntOf(v) ELSE 0

(***************************************************************************)
(* One pass of the loop of lines 233-240.  Both fields are read first; an *)
(* int() that raises ends the pass (except: pass), so a Bad gas_used also *)
(* drops the transaction's gas_wanted, and a Bad gas_wanted keeps the     *)
(* gas_used already added.                                                 *)
(***************************************************************************)
AddTx(acc, tx) ==
    IF tx.gas_used = Bad THEN acc
    ELSE IF tx.gas_wanted = Bad
         THEN [acc EXCEPT !.used = @ + TxValue(tx.gas_used)]
         ELSE [used   |-> acc.used + TxValue(tx.gas_used),
               wanted |-> acc.wanted + TxValue(tx.gas_wanted)]

\* Lines 228-240: the sums over txs_results; sums[i] is the pair of totals
\* after the first i passes of the loop.
TxSums(txs) ==
    LET sums[i \in 0..Len(txs)] ==
            IF i = 0 THEN [used |-> 0, wanted |-> 0]
            ELSE AddTx(sums[i - 1], txs[i])
    IN  sums[Len(txs)]

\* Mutant of AnalyzeBlockGas: the fallback test misses gas_used == "0".
AnalyzeBlockGasNoZeroStr(r) ==
    IF ~r.has_result THEN [gas_used |-> 0, gas_wanted |-> 0]
    ELSE LET s == TxSums(r.txs_results)
             use_sums == /\ ~Truthy(r.gas_used)
                         /\ Len(r.txs_results) > 0
                         /\ s.used > 0
         IN  IF use_sums THEN [gas_used |-> s.used, gas_wanted |-> s.wanted]
             ELSE [gas_used   |-> IntOr0(r.gas_used),
                   gas_wanted |-> IntOr0(r.gas_wanted)]

(***************************************************************************)
(* Lines 216-253: the gas section of analyze_block_txs.  The top-level    *)
(* fields are kept unless gas_used is falsy or "0" and the per-transaction *)
(* gas_used sum is positive (line 241).                                   *)
(***************************************************************************)
AnalyzeBlockGas(r) ==
    IF ~r.has_result THEN [gas_used |-> 0, gas_wanted |-> 0]
    ELSE LET s == TxSums(r.txs_results)
             use_sums == /\ ~Truthy(r.gas_used) \/ r.gas_used = ZeroStr
                         /\ Len(r.txs_results) > 0
                         /\ s.used > 0
         IN  IF use_sums THEN [gas_used |-> s.used, gas_wanted |-> s.wanted]
             ELSE [gas_used   |-> IntOr0(r.gas_used),
                   gas_wanted |-> IntOr0(r.gas_wanted)]

(***************************************************************************)
(* check_gas_location (debug_gas_data.py, lines 26-88).  Its sums (lines  *)
(* 60-69) run the same loop as the collector's, but they are bound only   *)
(* when txs_results is non-empty (lines 44 and 49), so line 85 reads an   *)
(* unbound total_gas_used when the top level has no gas and there are no  *)
(* transaction results.                                                    *)
(***************************************************************************)
CheckGasLocation(r) ==
    IF ~r.has_result THEN "no result"
    ELSE IF Truthy(r.gas_used) /\ r.gas_used # ZeroStr THEN "top-level"
    ELSE IF Len(r.txs_results) = 0 THEN "NameError"
    ELSE IF TxSums(r.txs_results).used > 0 THEN "sum"
    ELSE "no gas data"

\* The collector analyzes the block (line 473), and the debug script is run
\* on the same answer.
Analyze ==
    /\ tx_analysis = NoAnalysis
    /\ tx_analysis' = AnalyzeBlockGas(block_results)
    /\ advice' = CheckGasLocation(block_results)
    /\ UNCHANGED block_results

Init ==
    /\ block_results \in Results
    /\ tx_analysis = NoAnalysis
    /\ advice = NoAdvice

Next == Analyze

Spec == Init /\ [][Next]_vars

-----------------------------------------------------------------------------
(***************************************************************************)
(* Properties.                                                             *)
(***************************************************************************)

TypeOK ==
    /\ block_results \in Results
    /\ tx_analysis \in [gas_used: Nat, gas_wanted: Nat] \cup {NoAnalysis}
    /\ advice \in Advice \cup {NoAdvice}

(***************************************************************************)
(* debug_gas_data.py tells the operator where the collector takes its gas *)
(* figures from: when it recommends the top level, the collector wrote    *)
(* the top-level fields; when it recommends the per-transaction sums, the *)
(* collector wrote those sums; when it finds no gas data, the collector   *)
(* wrote gas_used 0.                                                       *)
(***************************************************************************)
DebugMatchesCollector ==
    tx_analysis # NoAnalysis =>
        LET r == block_results
            s == TxSums(r.txs_results)
        IN  /\ advice = "top-level" =>
                   tx_analysis = [gas_used   |-> IntOr0(r.gas_used),
                                  gas_wanted |-> IntOr0(r.gas_wanted)]
            /\ advice = "sum" =>
                   tx_analysis = [gas_used |-> s.used, gas_wanted |-> s.wanted]
            /\ advice = "no gas data" => tx_analysis.gas_used = 0

(***************************************************************************)
(* check_gas_location always ends with a recommendation for a block whose *)
(* results it could read (lines 81-88).                                   *)
(***************************************************************************)
DebugAlwaysRecommends == advice # "NameError"

=============================================================================

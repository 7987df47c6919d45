------------------------- MODULE GasResolutionProofs -------------------------
(***************************************************************************)
(* Proofs about GasResolution: whatever the /block_results answer, the    *)
(* recommendation of debug_gas_data.py names where the collector's gas    *)
(* figures came from.  The argument never looks inside TxSums: both       *)
(* scripts run the same loop and test the same sum, so only the branch    *)
(* conditions of analyze_block_txs and check_gas_location are compared.   *)
(***************************************************************************)
EXTENDS GasResolution, TLAPS

\* The strengthening: the answer analyzed keeps its shape.
GasInv == block_results \in Results /\ DebugMatchesCollector

\* What the debug script recommends for one answer, against what the
\* collector computes from it (analyze_block_txs lines 216-253 against
\* check_gas_location lines 26-88).
LEMMA AdviceMatchesAnalysis ==
    ASSUME NEW r \in Results
    PROVE  LET a == AnalyzeBlockGas(r)
               d == CheckGasLocation(r)
               s == TxSums(r.txs_results)
           IN  /\ d = "top-level" =>
                      a = [gas_used   |-> IntOr0(r.gas_used),
                           gas_wanted |-> IntOr0(r.gas_wanted)]
               /\ d = "sum" => a = [gas_used |-> s.used, gas_wanted |-> s.wanted]
               /\ d = "no gas data" => a.gas_used = 0
<1> DEFINE s == TxSums(r.txs_results)
           top == Truthy(r.gas_used) /\ r.gas_used # ZeroStr
           fallback == ~Truthy(r.gas_used) \/ r.gas_used = ZeroStr
<1>0. r.has_result \in BOOLEAN /\ r.gas_used \in Values
    BY DEF Results
<1>1. CASE ~r.has_result
    <2>1. CheckGasLocation(r) = "no result"
        BY <1>1 DEF CheckGasLocation
    <2>. QED
        BY <2>1
<1>2. CASE r.has_result /\ top
    <2>1. CheckGasLocation(r) = "top-level"
        BY <1>2 DEF CheckGasLocation
    <2>2. ~fallback
        BY <1>2
    <2>3. AnalyzeBlockGas(r) = [gas_used   |-> IntOr0(r.gas_used),
                                gas_wanted |-> IntOr0(r.gas_wanted)]
        BY <1>2, <2>2 DEF AnalyzeBlockGas
    <2>. QED
        BY <2>1, <2>3
<1>3. CASE r.has_result /\ ~top /\ Len(r.txs_results) = 0
    <2>1. CheckGasLocation(r) = "NameError"
        BY <1>3 DEF CheckGasLocation
    <2>. QED
        BY <2>1
<1>4. CASE r.has_result /\ ~top /\ Len(r.txs_results) # 0 /\ s.used > 0
    <2>1. CheckGasLocation(r) = "sum"
        BY <1>4 DEF CheckGasLocation
    <2>2. fallback /\ Len(r.txs_results) > 0
        BY <1>0, <1>4 DEF Results
    <2>3. AnalyzeBlockGas(r) = [gas_used |-> s.used, gas_wanted |-> s.wanted]
        BY <1>4, <2>2 DEF AnalyzeBlockGas
    <2>. QED
        BY <2>1, <2>3
<1>5. CASE r.has_result /\ ~top /\ Len(r.txs_results) # 0 /\ ~(s.used > 0)
    <2>1. CheckGasLocation(r) = "no gas data"
        BY <1>5 DEF CheckGasLocation
    <2>2. AnalyzeBlockGas(r).gas_used = IntOr0(r.gas_used)
        BY <1>5 DEF AnalyzeBlockGas
    <2>3. r.gas_used \in {Missing, 0, ZeroStr}
        BY <1>0, <1>5 DEF Truthy
    <2>4. IntOr0(r.gas_used) = 0
        BY <2>3 DEF IntOr0
    <2>. QED
        BY <2>1, <2>2, <2>4
<1>. QED
    BY <1>0, <1>1, <1>2, <1>3, <1>4, <1>5

LEMMA GasInit == Init => GasInv
BY DEF Init, GasInv, DebugMatchesCollector

LEMMA GasNext == GasInv /\ [Next]_vars => GasInv'
<1> SUFFICES ASSUME GasInv, [Next]_vars PROVE GasInv'
    OBVIOUS
<1>1. CASE Analyze
    <2>1. block_results' = block_results /\ block_results \in Results
        BY <1>1 DEF Analyze, GasInv
    <2>2. tx_analysis' = AnalyzeBlockGas(block_results)
          /\ advice' = CheckGasLocation(block_results)
        BY <1>1 DEF Analyze
    <2>. QED
        BY <2>1, <2>2, AdviceMatchesAnalysis DEF GasInv, DebugMatchesCollector
<1>2. CASE UNCHANGED vars
    BY <1>2 DEF GasInv, DebugMatchesCollector, vars
<1>. QED
    BY <1>1, <1>2 DEF Next

\* For every bound on the gas figures and on the number of transactions,
\* the recommendation check_gas_location prints (lines 81-88) names the
\* branch analyze_block_txs took (line 241): the top-level fields, the
\* per-transaction sums, or gas_used 0 when neither has gas.
THEOREM DebugMatchesCollectorInvariant == Spec => []DebugMatchesCollector
<1>1. GasInv => DebugMatchesCollector
    BY DEF GasInv
<1>. QED
    BY GasInit, GasNext, <1>1, PTL DEF Spec

=============================================================================

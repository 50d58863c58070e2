----------------------- MODULE ResourceLimitsBlockProofs ----------------------
(***************************************************************************)
(* Proofs about the block-level state of the manager: the block usage     *)
(* average that process_block_usage keeps, the block capacity             *)
(* get_block_cpu_limit reports, and the stability of the block state      *)
(* within a block.                                                         *)
(*                                                                         *)
(* The average bound depends on the block parameters: a max lowered by     *)
(* set_block_parameters leaves an average above it, and validate()         *)
(* accepts a max * max_multiplier that wraps (finding rl_virtual_wrap).    *)
(* AverageBounded therefore assumes ElasticBoundsKept: the genesis         *)
(* parameters have a clamp range that fits in uint64_t, and every          *)
(* parameter set that validate() accepts keeps max and max_multiplier.     *)
(* The passing run rl_usage satisfies this hypothesis.  BlockLimitBounded  *)
(* and BlockUsageMonotone need no such hypothesis.                         *)
(***************************************************************************)
EXTENDS ResourceLimitsProofs, TLAPS

\* The block maximum and the multiplier of the genesis parameters.
Mx(r) == InitParams[r].max
Mul(r) == InitParams[r].max_multiplier

\* The hypothesis on the constants under which the theorems hold.
ElasticBoundsKept ==
  /\ \A r \in Res : Mul(r) >= 1 /\ Mx(r) * Mul(r) <= U64Max
  /\ \A p \in ParamChoices :
       (\A r \in Res : RL!ValidParams(p[r])) =>
          \A r \in Res : p[r].max = Mx(r) /\ p[r].max_multiplier = Mul(r)

\* A config row keeps the genesis max and max_multiplier.
CfgKept(c) ==
  \A r \in Res : c.params[r].max = Mx(r) /\ c.params[r].max_multiplier = Mul(r)

\* A state row has its virtual limit in the clamp range, pending usage
\* within the block maximum, and a block average whose fixed-point value is
\* at most max * RatePrecision and that was last updated before
\* block n.
BlockRowOk(s, n) ==
  \A r \in Res :
    /\ Mx(r) <= s.virtual_limit[r]
    /\ s.virtual_limit[r] <= Mx(r) * Mul(r)
    /\ s.pending_usage[r] <= Mx(r)
    /\ s.average_block[r].value_ex <= Mx(r) * RatePrecision
    /\ s.average_block[r].last_ordinal < n

\* The inductive invariant: the live rows and the snapshot rows satisfy the
\* above.
BInv ==
  /\ CfgKept(cfg) /\ BlockRowOk(rls, block)
  /\ InTx => CfgKept(undo.cfg) /\ BlockRowOk(undo.rls, block)

-----------------------------------------------------------------------------
(* The operators.                                                          *)

\* x % (U64Max + 1) is x itself for a value that fits in uint64_t.
LEMMA ModSmall ==
  ASSUME NEW x \in Nat, x <= U64Max
  PROVE  x % (U64Max + 1) = x
BY ConstantsAssumption

\* update_elastic_limit lands in [max, max * max_multiplier] when the
\* product fits in uint64_t and the multiplier is at least 1.
LEMMA ElasticInRange ==
  ASSUME NEW current \in Nat, NEW average \in Nat,
         NEW p \in RL!ElasticParams, RL!ValidParams(p),
         p.max_multiplier >= 1, p.max * p.max_multiplier <= U64Max
  PROVE  /\ p.max <= RL!UpdateElasticLimit(current, average, p)
         /\ RL!UpdateElasticLimit(current, average, p) <= p.max * p.max_multiplier
<1>1. (p.max * p.max_multiplier) % (U64Max + 1) = p.max * p.max_multiplier
  BY ModSmall DEF RL!ElasticParams
<1>2. p.max <= p.max * p.max_multiplier
  BY DEF RL!ElasticParams
<1>3. RL!RatioMul(current, p.contract_rate) \in Int
      /\ RL!RatioMul(current, p.expand_rate) \in Int
  BY DEF RL!RatioMul, RL!ValidParams, RL!ElasticParams, RL!Ratio
<1>. QED
  BY <1>1, <1>2, <1>3 DEF RL!UpdateElasticLimit, RL!ElasticParams

\* Two floors of quotients by the same positive divisor add up to at most
\* the floor of the sum.
LEMMA DivSum ==
  ASSUME NEW a \in Nat, NEW b \in Nat, NEW w \in Nat \ {0}, NEW c \in Nat,
         a + b <= c * w
  PROVE  a \div w + b \div w <= c
<1>1. (a \div w) * w <= a /\ (b \div w) * w <= b
  BY SMT
<1>2. (a \div w + b \div w) * w <= c * w
  BY <1>1
<1>. QED
  BY <1>2

\* The block average of process_block_usage stays at most max (in fixed
\* point, max * RatePrecision) when the usage it adds is at most max and
\* the block is later than the last update: the decay by (W - delta)/W
\* leaves room for the new sample, scaled by 1/W.
LEMMA EmaBound ==
  ASSUME NEW e \in RL!Ema, NEW units \in Nat, NEW m \in Nat,
         NEW ordinal \in Nat, NEW window \in Nat \ {0},
         units <= m, e.last_ordinal < ordinal,
         e.value_ex <= m * RatePrecision
  PROVE  /\ RL!EmaAdd(e, units, ordinal, window).value_ex <= m * RatePrecision
         /\ RL!EmaAdd(e, units, ordinal, window).last_ordinal = ordinal
<1> DEFINE v == e.value_ex
           d == ordinal - e.last_ordinal
           b == units * RatePrecision
<1>1. /\ v \in Nat /\ e.last_ordinal \in Nat /\ d \in Nat \ {0}
      /\ b \in Nat /\ b <= m * RatePrecision /\ m * RatePrecision \in Nat
  BY ConstantsAssumption DEF RL!Ema
<1>2. CASE d >= window
  <2>1. RL!EmaAdd(e, units, ordinal, window).value_ex = b \div window
    BY <1>1, <1>2 DEF RL!EmaAdd
  <2>2. b \div window <= b
    BY <1>1
  <2>. QED
    BY <1>1, <2>1, <2>2 DEF RL!EmaAdd
<1>3. CASE d < window
  <2>1. RL!EmaAdd(e, units, ordinal, window).value_ex
          = (v * (window - d)) \div window + b \div window
    BY <1>1, <1>3 DEF RL!EmaAdd
  <2>2. v * (window - d) <= (m * RatePrecision) * (window - 1)
    <3> DEFINE k == window - d
               c == m * RatePrecision
    <3>1. k \in Nat /\ k <= window - 1
      BY <1>1, <1>3
    <3>2. v * k <= c * k
      BY <1>1, <3>1
    <3>3. c * k <= c * (window - 1)
      BY <1>1, <3>1
    <3>. QED
      BY <3>2, <3>3, <1>1, <3>1
  <2>3. v * (window - d) + b <= (m * RatePrecision) * window
    BY <1>1, <2>2, ConstantsAssumption
  <2>4. (v * (window - d)) \div window + b \div window <= m * RatePrecision
    <3>1. v * (window - d) \in Nat
      BY <1>1, <1>3
    <3>. QED
      BY <1>1, <2>3, <3>1, DivSum, Zenon
  <2>. QED
    BY <2>1, <2>4 DEF RL!EmaAdd
<1>. QED
  BY <1>1, <1>2, <1>3

-----------------------------------------------------------------------------
(* What a manager call does to the block-level state.                      *)

\* A call inside a transaction rolls the store back, commits the
\* transaction with its usage added to the pending block usage (within the
\* block maximum, or add_transaction_usage would have asserted), leaves
\* the state row and the config alone, or installs block parameters that
\* validate() accepted.
LEMMA TxStepBlockCases ==
  ASSUME TxStep
  PROVE  \/ Rollback
         \/ \E units \in [Res -> UsageChoices] :
              /\ undo' = NoTx /\ cfg' = cfg /\ block' = block
              /\ rls' = [rls EXCEPT !.pending_usage =
                           [r \in Res |-> @[r] + units[r]]]
              /\ WithinBlock(units)
         \/ undo' = undo /\ rls' = rls /\ block' = block /\ cfg' = cfg
         \/ /\ undo' = undo /\ rls' = rls /\ block' = block
            /\ \E p \in ParamChoices :
                 /\ \A r \in Res : RL!ValidParams(p[r])
                 /\ cfg' = [cfg EXCEPT !.params = p]
<1> DEFINE Same == undo' = undo /\ rls' = rls /\ block' = block /\ cfg' = cfg
<1>1. ASSUME NEW a \in Accounts, InitializeAccount(a) PROVE Rollback \/ Same
  BY <1>1 DEF InitializeAccount
<1>2. ASSUME NEW a \in Accounts, VerifyAccountGstUsage(a)
      PROVE  Rollback \/ Same
  BY <1>2 DEF VerifyAccountGstUsage
<1>3. ASSUME NEW a \in Accounts, NEW d \in RamDeltaChoices,
             AddPendingRamUsage(a, d)
      PROVE  Rollback \/ Same
  BY <1>3 DEF AddPendingRamUsage, db
<1>4. ASSUME NEW a \in Accounts, NEW b \in GstBytesChoices, SetGstLimits(a, b)
      PROVE  Rollback \/ Same
  BY <1>4 DEF SetGstLimits
<1>5. ASSUME NEW a \in Accounts, NEW ram \in RamBytesChoices,
             NEW net \in WeightChoices, NEW cpu \in WeightChoices,
             SetAccountLimits(a, ram, net, cpu)
      PROVE  Rollback \/ Same
  BY <1>5 DEF SetAccountLimits
<1>6. ASSUME NEW f \in GasFlagChoices, SetGasLimits(f) PROVE Same
  BY <1>6 DEF SetGasLimits
<1>7. ASSUME NEW accts \in SUBSET Accounts, UpdateAccountUsage(accts)
      PROVE  Rollback \/ Same
  BY <1>7 DEF UpdateAccountUsage
<1>8. ASSUME NEW accts \in SUBSET Accounts, NEW units \in [Res -> UsageChoices],
             FinishTx(accts, units)
      PROVE  \/ Rollback
             \/ /\ undo' = NoTx /\ cfg' = cfg /\ block' = block
                /\ rls' = [rls EXCEPT !.pending_usage =
                             [r \in Res |-> @[r] + units[r]]]
                /\ WithinBlock(units)
  BY <1>8 DEF FinishTx
<1>. QED
  BY <1>1, <1>2, <1>3, <1>4, <1>5, <1>6, <1>7, <1>8, Zenon
  DEF TxStep, TxCall, SetBlockParameters, AbortTx

-----------------------------------------------------------------------------
(* BInv is an invariant.                                                   *)

\* The hypotheses every step of the invariance proof shares.
BHyp == TypeInv /\ TypeInv' /\ BInv /\ ElasticBoundsKept

\* The genesis bounds are natural numbers.
LEMMA BoundsNat ==
  ASSUME NEW r \in Res
  PROVE  Mx(r) \in Nat /\ Mul(r) \in Nat /\ Mx(r) * RatePrecision \in Nat
BY ConstantsAssumption DEF Mx, Mul, RL!ElasticParams

\* A state row whose block-level fields did not change keeps BlockRowOk.
LEMMA BlockRowKeep ==
  ASSUME NEW s, NEW t, NEW n, BlockRowOk(s, n),
         t.virtual_limit = s.virtual_limit,
         t.average_block = s.average_block,
         t.pending_usage = s.pending_usage
  PROVE  BlockRowOk(t, n)
BY Zenon DEF BlockRowOk

LEMMA InitBInv ==
  ASSUME ElasticBoundsKept, Init
  PROVE  BInv
<1>1. CfgKept(cfg)
  BY DEF Init, CfgKept, Mx, Mul
<1>2. ASSUME NEW r \in Res
      PROVE  /\ Mx(r) <= rls.virtual_limit[r]
             /\ rls.virtual_limit[r] <= Mx(r) * Mul(r)
             /\ rls.pending_usage[r] <= Mx(r)
             /\ rls.average_block[r].value_ex <= Mx(r) * RatePrecision
             /\ rls.average_block[r].last_ordinal < block
  <2>1. Mx(r) \in Nat /\ Mul(r) \in Nat /\ Mx(r) * RatePrecision \in Nat
    BY BoundsNat
  <2>2. Mx(r) <= Mx(r) * Mul(r)
    BY <2>1 DEF ElasticBoundsKept
  <2>3. /\ rls.virtual_limit[r] = Mx(r)
        /\ rls.pending_usage[r] = 0
        /\ rls.average_block[r] = RL!EmaZero
        /\ block = 1
    BY DEF Init, Mx
  <2>. QED
    BY <2>1, <2>2, <2>3 DEF RL!EmaZero
<1>. QED
  BY <1>1, <1>2, NoTxAssumption DEF BInv, BlockRowOk, Init, InTx

\* A transaction call: a rollback restores a snapshot that satisfied the
\* invariant; a commit adds usage that add_transaction_usage checked
\* against the block maximum; set_block_parameters installs parameters
\* that keep max and max_multiplier.
LEMMA TxStepBInv ==
  ASSUME BHyp, TxStep
  PROVE  BInv'
<1>1. CASE Rollback
  <2>1. InTx
    BY TxStepShape
  <2>2. CfgKept(undo.cfg) /\ BlockRowOk(undo.rls, block)
    BY <2>1 DEF BHyp, BInv
  <2>. QED
    BY <1>1, <2>2 DEF Rollback, BInv, InTx
<1>2. ASSUME NEW units \in [Res -> UsageChoices],
             undo' = NoTx, cfg' = cfg, block' = block,
             rls' = [rls EXCEPT !.pending_usage = [r \in Res |-> @[r] + units[r]]],
             WithinBlock(units)
      PROVE  BInv'
  <2>1. rls \in StateRow
    BY DEF BHyp, TypeInv, TypeOK
  <2>2. /\ rls'.virtual_limit = rls.virtual_limit
        /\ rls'.average_block = rls.average_block
        /\ rls'.pending_usage = [r \in Res |-> rls.pending_usage[r] + units[r]]
    BY <1>2, <2>1, Zenon DEF StateRow
  <2>3. \A r \in Res : rls'.pending_usage[r] <= Mx(r)
    BY <1>2, <2>2, Zenon DEF WithinBlock, BHyp, BInv, CfgKept
  <2>4. BlockRowOk(rls', block')
    BY <1>2, <2>2, <2>3, Zenon DEF BHyp, BInv, BlockRowOk
  <2>. QED
    BY <1>2, <2>4, Zenon DEF BHyp, BInv, InTx
<1>3. CASE undo' = undo /\ rls' = rls /\ block' = block /\ cfg' = cfg
  BY <1>3 DEF BHyp, BInv, InTx
<1>4. ASSUME NEW p \in ParamChoices, \A r \in Res : RL!ValidParams(p[r]),
             undo' = undo, rls' = rls, block' = block,
             cfg' = [cfg EXCEPT !.params = p]
      PROVE  BInv'
  <2>1. cfg'.params = p
    BY <1>4, Zenon DEF BHyp, TypeInv, TypeOK, ConfigRow
  <2>2. CfgKept(cfg')
    BY <1>4, <2>1, Zenon DEF BHyp, ElasticBoundsKept, CfgKept
  <2>. QED
    BY <1>4, <2>2 DEF BHyp, BInv, InTx
<1>. QED
  BY <1>1, <1>2, <1>3, <1>4, TxStepBlockCases

\* A commit-loop iteration moves only the totals of the state row.
LEMMA ProcessAccountLimitUpdateBInv ==
  ASSUME BHyp, NEW a \in Accounts, ProcessAccountLimitUpdate(a)
  PROVE  BInv'
<1>1. rls \in StateRow
  BY DEF BHyp, TypeInv, TypeOK
<1>2. /\ rls'.virtual_limit = rls.virtual_limit
      /\ rls'.average_block = rls.average_block
      /\ rls'.pending_usage = rls.pending_usage
  BY <1>1, Zenon DEF ProcessAccountLimitUpdate, StateRow
<1>3. BlockRowOk(rls', block')
  <2>1. block' = block
    BY DEF ProcessAccountLimitUpdate
  <2>2. BlockRowOk(rls, block)
    BY DEF BHyp, BInv
  <2>. QED
    BY <1>2, <2>1, <2>2, BlockRowKeep
<1>. QED
  BY <1>3 DEF ProcessAccountLimitUpdate, BHyp, BInv, InTx

\* process_block_usage: the new block average stays within max * precision
\* (EmaBound), the new virtual limit is clamped into range
\* (ElasticInRange), the pending usage is reset, and the block number
\* moves past every last update.
LEMMA ProcessBlockUsageBInv ==
  ASSUME BHyp, ProcessBlockUsage
  PROVE  BInv'
<1> DEFINE avg == [r \in Res |-> RL!EmaAdd(rls.average_block[r],
                        rls.pending_usage[r], block, cfg.params[r].periods)]
<1>1. rls \in StateRow /\ cfg \in ConfigRow /\ block \in Nat
      /\ \A r \in Res : RL!ValidParams(cfg.params[r])
  BY DEF BHyp, TypeInv, TypeOK
<1>2. /\ rls'.average_block = avg
      /\ rls'.virtual_limit = [r \in Res |->
              RL!UpdateElasticLimit(rls.virtual_limit[r],
                                    RL!EmaAverage(avg[r]), cfg.params[r])]
      /\ rls'.pending_usage = [r \in Res |-> 0]
      /\ block' = block + 1 /\ cfg' = cfg /\ undo' = undo
  BY <1>1, Zenon DEF ProcessBlockUsage, StateRow
<1>3. ASSUME NEW r \in Res
      PROVE  /\ avg[r].value_ex <= Mx(r) * RatePrecision
             /\ avg[r].last_ordinal = block
             /\ avg[r] \in RL!Ema
  <2>1. /\ rls.average_block[r] \in RL!Ema
        /\ rls.pending_usage[r] \in Nat
        /\ cfg.params[r].periods \in Nat \ {0}
    BY <1>1 DEF StateRow, ConfigRow, RL!ValidParams, RL!ElasticParams
  <2>2. /\ rls.pending_usage[r] <= Mx(r)
        /\ rls.average_block[r].value_ex <= Mx(r) * RatePrecision
        /\ rls.average_block[r].last_ordinal < block
    BY DEF BHyp, BInv, BlockRowOk
  <2>3. Mx(r) \in Nat
    BY BoundsNat
  <2>4. LET e == RL!EmaAdd(rls.average_block[r], rls.pending_usage[r], block,
                          cfg.params[r].periods)
        IN  /\ e.value_ex <= Mx(r) * RatePrecision
            /\ e.last_ordinal = block
    BY <1>1, <2>1, <2>2, <2>3, EmaBound
  <2>5. RL!EmaAdd(rls.average_block[r], rls.pending_usage[r], block,
                  cfg.params[r].periods) \in RL!Ema
    BY <1>1, <2>1, EmaAddType
  <2>. QED
    BY <2>4, <2>5
<1>4. ASSUME NEW r \in Res
      PROVE  /\ Mx(r) <= rls'.virtual_limit[r]
             /\ rls'.virtual_limit[r] <= Mx(r) * Mul(r)
  <2> DEFINE p == cfg.params[r]
  <2>1. p \in RL!ElasticParams /\ RL!ValidParams(p)
    BY <1>1 DEF ConfigRow
  <2>2. p.max = Mx(r) /\ p.max_multiplier = Mul(r)
    BY DEF BHyp, BInv, CfgKept
  <2>3. Mul(r) >= 1 /\ Mx(r) * Mul(r) <= U64Max
    BY DEF BHyp, ElasticBoundsKept
  <2>4. rls.virtual_limit[r] \in Nat /\ RL!EmaAverage(avg[r]) \in Nat
    <3>1. rls.virtual_limit[r] \in Nat
      BY <1>1 DEF StateRow
    <3>2. avg[r] \in RL!Ema
      BY <1>3
    <3>3. avg[r].value_ex \in Nat
      BY <3>2 DEF RL!Ema
    <3>. QED
      BY <3>1, <3>3, ConstantsAssumption DEF RL!EmaAverage
  <2>5. rls'.virtual_limit[r]
          = RL!UpdateElasticLimit(rls.virtual_limit[r], RL!EmaAverage(avg[r]), p)
    BY <1>2
  <2>. QED
    BY <2>1, <2>2, <2>3, <2>4, <2>5, ElasticInRange
<1>5. BlockRowOk(rls', block')
  <2>1. ASSUME NEW r \in Res
        PROVE  /\ rls'.pending_usage[r] <= Mx(r)
               /\ rls'.average_block[r].value_ex <= Mx(r) * RatePrecision
               /\ rls'.average_block[r].last_ordinal < block'
    BY <1>1, <1>2, <1>3, BoundsNat
  <2>. QED
    BY <1>4, <2>1 DEF BlockRowOk
<1>6. InTx => BlockRowOk(undo.rls, block')
  <2> SUFFICES ASSUME InTx PROVE BlockRowOk(undo.rls, block + 1)
    BY <1>2
  <2>1. undo.rls \in StateRow
    BY DEF BHyp, TypeInv, TypeOK, InTx, SnapshotType
  <2>2. BlockRowOk(undo.rls, block)
    BY DEF BHyp, BInv
  <2>. QED
    BY <1>1, <2>1, <2>2 DEF BlockRowOk, StateRow, RL!Ema
<1>. QED
  BY <1>2, <1>5, <1>6 DEF BHyp, BInv, InTx

LEMMA NextBInv ==
  ASSUME BHyp, [Next]_vars
  PROVE  BInv'
<1>1. CASE TxStep
  BY <1>1, TxStepBInv
<1>2. CASE BeginTx /\ UNCHANGED txOps
  BY <1>2 DEF BeginTx, BHyp, BInv, InTx, Snapshot
<1>3. CASE StartFinalizeBlock
  BY <1>3 DEF StartFinalizeBlock, BHyp, BInv, InTx
<1>4. CASE \E a \in Accounts : ProcessAccountLimitUpdate(a)
  BY <1>4, ProcessAccountLimitUpdateBInv
<1>5. CASE ProcessBlockUsage
  BY <1>5, ProcessBlockUsageBInv
<1>6. CASE UNCHANGED vars
  BY <1>6 DEF vars, BHyp, BInv, InTx
<1>. QED
  BY <1>1, <1>2, <1>3, <1>4, <1>5, <1>6 DEF Next, BlockStep

LEMMA BlockInvariant ==
  ASSUME ElasticBoundsKept
  PROVE  Spec => []BInv
<1>1. Init => BInv
  BY InitBInv
<1>2. TypeInv /\ TypeInv' /\ BInv /\ [Next]_vars => BInv'
  BY NextBInv DEF BHyp
<1>. QED
  BY <1>1, <1>2, TypeInvariant, PTL DEF Spec

\* The block average that process_block_usage keeps never exceeds the
\* block maximum: each block adds at most max of pending usage, which
\* add_transaction_usage checks against max, and the decay by (W - 1)/W
\* leaves room for it; under the same hypothesis on the parameters.
THEOREM AverageBounded ==
  ASSUME ElasticBoundsKept
  PROVE  Spec => []AverageWithinBlockMax
<1>1. TypeInv /\ BInv => AverageWithinBlockMax
  <2> SUFFICES ASSUME TypeInv, BInv, NEW r \in Res
               PROVE  RL!EmaAverage(rls.average_block[r]) <= cfg.params[r].max
    BY DEF AverageWithinBlockMax
  <2>1. rls.average_block[r].value_ex \in Nat
    BY DEF TypeInv, TypeOK, StateRow, RL!Ema
  <2>2. rls.average_block[r].value_ex <= Mx(r) * RatePrecision
        /\ cfg.params[r].max = Mx(r)
    BY DEF BInv, BlockRowOk, CfgKept
  <2>3. Mx(r) \in Nat
    BY BoundsNat
  <2>. QED
    BY <2>1, <2>2, <2>3, ConstantsAssumption DEF RL!EmaAverage
<1>. QED
  BY <1>1, BlockInvariant, TypeInvariant, PTL

-----------------------------------------------------------------------------
(* get_block_cpu_limit between transactions.                               *)

\* The block maximum is a uint64_t field: every parameter set the config
\* row can hold has max <= UINT64_MAX.  Nothing else is assumed of the
\* parameters: set_block_parameters may lower or raise max at any time.
ParamsFitU64 ==
  \A p \in ParamChoices \cup {InitParams} : \A r \in Res : p[r].max <= U64Max

\* A state row's pending usage is within a config row's block maximum.
PendingWithin(s, c) == \A r \in Res : s.pending_usage[r] <= c.params[r].max

\* A config row's block maximum fits in uint64_t.
MaxFits(c) == \A r \in Res : c.params[r].max <= U64Max

\* The inductive invariant: the live config and the snapshot's config fit
\* in uint64_t; between transactions the pending usage is within the live
\* maximum, and during one it is within the snapshot's, which a rollback
\* restores.  The live pending usage may exceed a maximum lowered inside
\* the open transaction.
NInv ==
  /\ MaxFits(cfg)
  /\ ~InTx => PendingWithin(rls, cfg)
  /\ InTx => MaxFits(undo.cfg) /\ PendingWithin(undo.rls, undo.cfg)

\* The hypotheses every step of the invariance proof shares.
NHyp == TypeInv /\ TypeInv' /\ NInv /\ ParamsFitU64

LEMMA InitNInv ==
  ASSUME ParamsFitU64, Init
  PROVE  NInv
<1>1. cfg.params = InitParams /\ rls.pending_usage = [r \in Res |-> 0]
      /\ ~InTx
  BY NoTxAssumption DEF Init, InTx
<1>2. MaxFits(cfg)
  BY <1>1 DEF ParamsFitU64, MaxFits
<1>3. PendingWithin(rls, cfg)
  BY <1>1, ConstantsAssumption DEF PendingWithin, RL!ElasticParams
<1>. QED
  BY <1>1, <1>2, <1>3 DEF NInv

LEMMA TxStepNInv ==
  ASSUME NHyp, TxStep
  PROVE  NInv'
<1>0. InTx
  BY TxStepShape
<1>1. CASE Rollback
  <2>1. MaxFits(undo.cfg) /\ PendingWithin(undo.rls, undo.cfg)
    BY <1>0 DEF NHyp, NInv
  <2>. QED
    BY <1>1, <2>1 DEF Rollback, NInv, InTx
<1>2. ASSUME NEW units \in [Res -> UsageChoices],
             undo' = NoTx, cfg' = cfg, block' = block,
             rls' = [rls EXCEPT !.pending_usage = [r \in Res |-> @[r] + units[r]]],
             WithinBlock(units)
      PROVE  NInv'
  <2>1. rls \in StateRow
    BY DEF NHyp, TypeInv, TypeOK
  <2>2. rls'.pending_usage = [r \in Res |-> rls.pending_usage[r] + units[r]]
    BY <1>2, <2>1, Zenon DEF StateRow
  <2>3. PendingWithin(rls', cfg')
    BY <1>2, <2>2, Zenon DEF WithinBlock, PendingWithin
  <2>4. MaxFits(cfg')
    BY <1>2, Zenon DEF NHyp, NInv
  <2>. QED
    BY <1>2, <2>3, <2>4 DEF NInv, InTx
<1>3. CASE undo' = undo /\ rls' = rls /\ block' = block /\ cfg' = cfg
  BY <1>0, <1>3 DEF NHyp, NInv, InTx
<1>4. ASSUME NEW p \in ParamChoices, \A r \in Res : RL!ValidParams(p[r]),
             undo' = undo, rls' = rls, block' = block,
             cfg' = [cfg EXCEPT !.params = p]
      PROVE  NInv'
  <2>1. cfg'.params = p
    BY <1>4, Zenon DEF NHyp, TypeInv, TypeOK, ConfigRow
  <2>2. MaxFits(cfg')
    BY <2>1, Zenon DEF NHyp, ParamsFitU64, MaxFits
  <2>3. InTx'
    BY <1>0, <1>4 DEF InTx
  <2>. QED
    BY <1>0, <1>4, <2>2, <2>3 DEF NHyp, NInv
<1>. QED
  BY <1>1, <1>2, <1>3, <1>4, TxStepBlockCases

LEMMA NextNInv ==
  ASSUME NHyp, [Next]_vars
  PROVE  NInv'
<1>1. CASE TxStep
  BY <1>1, TxStepNInv
<1>2. CASE BeginTx /\ UNCHANGED txOps
  <2>1. ~InTx /\ undo' = Snapshot /\ UNCHANGED <<rls, cfg>>
    BY <1>2 DEF BeginTx
  <2>2. Snapshot \in SnapshotType
    BY DEF NHyp, TypeInv, TypeOK, Snapshot, SnapshotType
  <2>3. InTx'
    BY <2>1, <2>2, NoTxAssumption DEF InTx
  <2>. QED
    BY <2>1, <2>3 DEF NHyp, NInv, Snapshot
<1>3. CASE StartFinalizeBlock
  BY <1>3 DEF StartFinalizeBlock, NHyp, NInv, InTx
<1>4. ASSUME NEW a \in Accounts, ProcessAccountLimitUpdate(a)
      PROVE  NInv'
  <2>1. rls \in StateRow
    BY DEF NHyp, TypeInv, TypeOK
  <2>2. rls'.pending_usage = rls.pending_usage /\ UNCHANGED <<cfg, undo>>
    BY <1>4, <2>1, Zenon DEF ProcessAccountLimitUpdate, StateRow
  <2>. QED
    BY <2>2 DEF NHyp, NInv, PendingWithin, InTx
<1>5. CASE ProcessBlockUsage
  <2>1. rls \in StateRow /\ cfg \in ConfigRow
    BY DEF NHyp, TypeInv, TypeOK
  <2>2. rls'.pending_usage = [r \in Res |-> 0] /\ UNCHANGED <<cfg, undo>>
    BY <1>5, <2>1, Zenon DEF ProcessBlockUsage, StateRow
  <2>3. PendingWithin(rls', cfg')
    BY <2>1, <2>2 DEF PendingWithin, ConfigRow, RL!ElasticParams
  <2>. QED
    BY <2>2, <2>3 DEF NHyp, NInv, InTx
<1>6. CASE UNCHANGED vars
  BY <1>6 DEF vars, NHyp, NInv, InTx
<1>. QED
  BY <1>1, <1>2, <1>3, <1>4, <1>5, <1>6 DEF Next, BlockStep

LEMMA NoWrapInvariant ==
  ASSUME ParamsFitU64
  PROVE  Spec => []NInv
<1>1. Init => NInv
  BY InitNInv
<1>2. TypeInv /\ TypeInv' /\ NInv /\ [Next]_vars => NInv'
  BY NextNInv DEF NHyp
<1>. QED
  BY <1>1, <1>2, TypeInvariant, PTL DEF Spec

\* Between transactions get_block_cpu_limit never wraps: what it reports
\* plus the admitted usage is the block maximum, whatever the sequence of
\* set_block_parameters calls, because a transaction that lowers max below
\* the block's usage is rolled back by the block check that ends it
\* (line 190).  The only assumption is that max is a uint64_t.
THEOREM BlockLimitBounded ==
  ASSUME ParamsFitU64
  PROVE  Spec => []BlockLimitNoWrap
<1>1. TypeInv /\ NInv => BlockLimitNoWrap
  <2> SUFFICES ASSUME TypeInv, NInv, ~InTx, NEW r \in Res
               PROVE  GetBlockLimit(r) + rls.pending_usage[r] = cfg.params[r].max
    BY DEF BlockLimitNoWrap
  <2> DEFINE m == cfg.params[r].max
             u == rls.pending_usage[r]
  <2>1. u \in Nat /\ m \in Nat
    BY DEF TypeInv, TypeOK, StateRow, ConfigRow, RL!ElasticParams
  <2>2. u <= m /\ m <= U64Max
    BY DEF NInv, PendingWithin, MaxFits
  <2>3. m - u \in Nat /\ m - u <= U64Max
    BY <2>1, <2>2, ConstantsAssumption
  <2>4. (m - u) % (U64Max + 1) = m - u
    <3>1. \A x \in Nat : x <= U64Max => x % (U64Max + 1) = x
      BY ModSmall
    <3>. QED
      BY <2>3, <3>1, Zenon
  <2>5. GetBlockLimit(r) = m - u
    BY <2>4 DEF GetBlockLimit
  <2>. QED
    BY <2>1, <2>5
<1>. QED
  BY <1>1, NoWrapInvariant, TypeInvariant, PTL

-----------------------------------------------------------------------------
(* The block state is stable within a block.                               *)

\* An open transaction's snapshot holds the live block-level state: no
\* manager call changes it before the transaction ends.
UsageInv ==
  InTx => /\ undo.rls.pending_usage = rls.pending_usage
          /\ undo.rls.virtual_limit = rls.virtual_limit
          /\ undo.rls.average_block = rls.average_block

\* The step that BlockUsageStable allows.
StableStep ==
  block' = block =>
     /\ \A r \in Res : rls'.pending_usage[r] >= rls.pending_usage[r]
     /\ rls'.virtual_limit = rls.virtual_limit
     /\ rls'.average_block = rls.average_block

LEMMA NextUsageInv ==
  ASSUME TypeInv, CommitInv, UsageInv, [Next]_vars
  PROVE  UsageInv'
<1>1. CASE TxStep
  <2>1. CASE Rollback
    BY <2>1, NoTxAssumption DEF Rollback, UsageInv, InTx
  <2>2. CASE undo' = NoTx
    BY <2>2 DEF UsageInv, InTx
  <2>3. CASE undo' = undo /\ rls' = rls
    BY <2>3 DEF UsageInv, InTx
  <2>. QED
    BY <1>1, <2>1, <2>2, <2>3, TxStepBlockCases
<1>2. CASE BeginTx /\ UNCHANGED txOps
  BY <1>2 DEF BeginTx, UsageInv, InTx, Snapshot
<1>3. CASE StartFinalizeBlock
  BY <1>3 DEF StartFinalizeBlock, UsageInv, InTx
<1>5. ASSUME NEW a \in Accounts, ProcessAccountLimitUpdate(a)
      PROVE  UsageInv'
  <2>1. phase = "commit" /\ undo' = undo
    BY <1>5, Zenon DEF ProcessAccountLimitUpdate
  <2>. QED
    BY <2>1 DEF CommitInv, UsageInv, InTx
<1>6. CASE ProcessBlockUsage
  <2>1. phase = "commit" /\ undo' = undo
    BY <1>6 DEF ProcessBlockUsage
  <2>. QED
    BY <2>1 DEF CommitInv, UsageInv, InTx
<1>4. CASE UNCHANGED vars
  BY <1>4 DEF vars, UsageInv, InTx
<1>. QED
  BY <1>1, <1>2, <1>3, <1>4, <1>5, <1>6 DEF Next, BlockStep

LEMMA UsageInvariant == Spec => []UsageInv
<1>1. Init => UsageInv
  BY DEF Init, UsageInv, InTx
<1>2. TypeInv /\ CommitInv /\ UsageInv /\ [Next]_vars => UsageInv'
  BY NextUsageInv
<1>. QED
  BY <1>1, <1>2, TypeInvariant, CommitInvariant, PTL DEF Spec

\* A step that keeps the state row satisfies StableStep.
LEMMA StableSame ==
  ASSUME TypeInv, rls' = rls
  PROVE  StableStep
<1>1. \A r \in Res : rls.pending_usage[r] \in Nat
  BY DEF TypeInv, TypeOK, StateRow
<1>. QED
  BY <1>1 DEF StableStep

LEMMA NextStable ==
  ASSUME TypeInv, CommitInv, UsageInv, [Next]_vars
  PROVE  StableStep
<1>0. rls \in StateRow /\ block \in Nat
  BY DEF TypeInv, TypeOK
<1>1. CASE TxStep
  <2>1. InTx
    BY <1>1, TxStepShape
  <2>2. CASE Rollback
    <3>1. rls' = undo.rls
      BY <2>2 DEF Rollback
    <3>2. /\ rls'.pending_usage = rls.pending_usage
          /\ rls'.virtual_limit = rls.virtual_limit
          /\ rls'.average_block = rls.average_block
      BY <2>1, <3>1 DEF UsageInv
    <3>3. \A r \in Res : rls.pending_usage[r] \in Nat
      BY <1>0 DEF StateRow
    <3>. QED
      BY <3>2, <3>3 DEF StableStep
  <2>3. ASSUME NEW units \in [Res -> UsageChoices],
               rls' = [rls EXCEPT !.pending_usage =
                         [r \in Res |-> @[r] + units[r]]]
        PROVE  StableStep
    <3>1. /\ rls'.pending_usage = [r \in Res |-> rls.pending_usage[r] + units[r]]
          /\ rls'.virtual_limit = rls.virtual_limit
          /\ rls'.average_block = rls.average_block
      BY <1>0, <2>3, Zenon DEF StateRow
    <3>2. \A r \in Res : rls.pending_usage[r] \in Nat /\ units[r] \in Nat
      BY <1>0, ConstantsAssumption, Zenon DEF StateRow
    <3>. QED
      BY <3>1, <3>2 DEF StableStep
  <2>4. CASE rls' = rls
    BY <2>4, StableSame
  <2>. QED
    BY <1>1, <2>2, <2>3, <2>4, TxStepBlockCases
<1>2. CASE BeginTx /\ UNCHANGED txOps
  BY <1>2, StableSame DEF BeginTx
<1>3. CASE StartFinalizeBlock
  BY <1>3, StableSame DEF StartFinalizeBlock
<1>4. ASSUME NEW a \in Accounts, ProcessAccountLimitUpdate(a)
      PROVE  StableStep
  <2>1. /\ rls'.pending_usage = rls.pending_usage
        /\ rls'.virtual_limit = rls.virtual_limit
        /\ rls'.average_block = rls.average_block
    BY <1>0, <1>4, Zenon DEF ProcessAccountLimitUpdate, StateRow
  <2>2. \A r \in Res : rls.pending_usage[r] \in Nat
    BY <1>0 DEF StateRow
  <2>. QED
    BY <2>1, <2>2 DEF StableStep
<1>5. CASE ProcessBlockUsage
  BY <1>0, <1>5 DEF ProcessBlockUsage, StableStep
<1>6. CASE UNCHANGED vars
  BY <1>6, StableSame DEF vars
<1>. QED
  BY <1>1, <1>2, <1>3, <1>4, <1>5, <1>6 DEF Next, BlockStep

\* Within a block the admitted block usage only grows and the virtual
\* limits and the block average stay put, for every number of accounts,
\* transactions and blocks and whatever the parameters: add_transaction_
\* usage only adds, a rollback restores a snapshot that holds the live
\* block state (finalize_block never runs inside a transaction), and only
\* process_block_usage, which starts the next block, moves them.
THEOREM BlockUsageMonotone == Spec => BlockUsageStable
<1>1. TypeInv /\ CommitInv /\ UsageInv /\ [Next]_vars => StableStep
  BY NextStable
<1>. QED
  BY <1>1, TypeInvariant, CommitInvariant, UsageInvariant, PTL
  DEF Spec, BlockUsageStable, StableStep

=============================================================================

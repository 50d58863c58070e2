# Formal model of the gstio resource limits manager

This directory holds TLA+ models of the resource limits manager of gstio
(`src/gst/libraries/chain/resource_limits.cpp` and its header). It also holds
the TLC configurations that model-check them and the TLAPS proofs of their
main invariants. `PROJECT.json` lists the components, runs, mutants, source
map, findings, hazards and theorems in machine-readable form.

## The system

The manager keeps seven tables in the chain's undoable store:

- committed account limits, and pending account limits set during the
  current block (RAM bytes, plus CPU and NET weights; `-1` means unlimited);
- account usage (RAM bytes and a CPU/NET exponential moving average);
- gstio's gas rows (`resource_gst_object`: a balance `gst_bytes` and a
  consumption `gst_usage`);
- the gas activation row (`is_activation`);
- the state singleton (pending block usage, block averages, total weights,
  total RAM, virtual limits);
- the config singleton (elastic parameters, account averaging windows).

Its callers are the transaction context and the block controller. Neither is
in this source tree, so both are modelled from the spec (§2 and §7):

- a transaction opens an undo session;
- it makes manager calls (RAM deltas, limit changes, account creation, gas
  calls);
- it then runs `verify_account_ram_usage` on the accounts whose RAM use grew
  or whose limit `set_account_limits` or balance `set_gst_limits` reported
  decreased;
- it then runs `add_transaction_usage`;
- any failed assertion rolls the whole session back;
- at the block boundary, `process_account_limit_updates` folds the pending
  limit rows into the committed ones and the totals, and
  `process_block_usage` updates the block averages and the elastic virtual
  limits.

## Modules

| Module | Models |
|---|---|
| `RateLimiting` | The pure arithmetic: the ratio product, `elastic_limit_parameters::validate` (lines 33-39), `update_elastic_limit` (23-31) with `max * max_multiplier` taken modulo `U64Max+1`, the EMA accumulator (`add`, `average`; from spec §4.1, since `resource_limits_private.hpp` is not in the tree), and the fair-share arithmetic of `add_transaction_usage` (146-153). |
| `ResourceLimits` | The manager and its caller. One variable per table (`limits`, `pendingLimits`, `usage`, `gas`, `activation`, `rls`, `cfg`). The caller's state: `block`, `phase` ("open" or "commit"), `undo` (the snapshot of the seven tables, or `NoTx`), `validate` (the accounts to verify), `txOps`. One action per manager operation: `InitializeAccount`, `SetBlockParameters`, `UpdateAccountUsage`, `AddPendingRamUsage`, `VerifyAccountGstUsage`, `SetAccountLimits`, `SetGstLimits`, `SetGasLimits`, `FinishTx` (the verifies, then `add_transaction_usage`), `ProcessAccountLimitUpdate` (one iteration of the commit loop, on the first pending row by `AccountRank`), `ProcessBlockUsage`. Caller steps: `BeginTx`, `AbortTx`, `StartFinalizeBlock`. A failed `GST_ASSERT` is `Rollback`: the store returns to the snapshot and the transaction ends. |
| `AccountLimits` | The abstract specification: what the manager promises about account limits. `effective` is what `get_account_limits` returns. `committed` is what the totals are computed from. A transaction may change `effective` freely, never removes an account, and gives a new account the default committed row. A block boundary sets `committed` to `effective`. |
| `ResourceLimitsRefinement` | The refinement mapping from `ResourceLimits` to `AccountLimits`, and `LimitsRefinement`, the abstract specification as a property. |
| `MCResourceLimits` | Constant definitions for TLC: account rank, elastic parameters, input choices. |
| `ResourceLimitsProofs` | The TLAPS proofs of the invariants. |
| `ResourceLimitsRefinementProofs` | The TLAPS proof of the refinement. |
| `ResourceLimitsBlockProofs` | The TLAPS proofs about the block state: block average, block capacity, stability within a block. |
| `ResourceLimitsGasProofs` | The TLAPS proof of the gas balance invariant. |

The rows keep the code's fields that some guard or property reads. The
account name, the `pending` flag and the raw `consumed` field of the EMA
are abstracted: a table is a function from accounts to a row or `NoRow`.
Only the CPU resource is instantiated; the code treats CPU and NET
identically.

The read-only accessor `get_account_cpu_limit_ex` (and its NET twin) is the
operator `GetAccountLimitEx(a, r, elastic)`. It returns the sentinel for a
negative weight or a zero total; otherwise it returns the share of the
window, the usage rounded up, and what is left. `cast_ok` says whether the
three `downgrade_cast<int64_t>` calls succeed, against
`I64Max == U64Max \div 2`.

## Runs

| Run (cfg) | Checks | Result |
|---|---|---|
| `rl_limits` (`MCResourceLimits.cfg`) | `TypeOK`, `TotalsConsistent`, `RamUsageWithinLimit`, `CommitPreservesEffectiveLimits`, `LimitsRefinement` | pass, 431k states |
| `rl_gas` (`MCGas.cfg`) | `GasUsageWithinBalance` | pass, 897k states |
| `rl_usage` (`MCUsage.cfg`) | `AverageWithinBlockMax`, `BlockUsageStable` | pass, 338k states |
| `rl_block_params` (`MCBlockParams.cfg`) | `BlockLimitNoWrap` | pass, 917k states |
| `rl_gas_unlimited` | `GasUsageWithinBalance` | violated (finding) |
| `rl_gas_switch_off` | `GasUsageWithinBalance` | violated (finding) |
| `rl_gas_first_switch` | `GasOnOnlyWhenRequested` | violated (finding) |
| `rl_limit_ex_cast` (`MCLimitExCast.cfg`) | `LimitExCastSafe` | violated (finding) |
| `rl_virtual_wrap` (`MCVirtualWrap.cfg`) | `VirtualLimitInRange` | violated (finding) |

The properties:

- **TypeOK.** The tables have their row types. Its mutant drops the
  underflow check of `add_pending_ram_usage` (line 203), which leaves a
  negative RAM usage.
- **TotalsConsistent.** The totals equal the sums of the positive committed
  values, across interleavings of limit changes, rollbacks and the row-by-row
  commit loop (spec §8.3).
- **RamUsageWithinLimit.** Outside a transaction, RAM use is within the
  effective RAM limit. `set_account_limits` no longer asserts this itself
  (lines 345-351 are commented out).
- **CommitPreservesEffectiveLimits.** An action property: a commit step never
  changes what `get_account_limits` returns.
- **LimitsRefinement.** The manager and its caller implement
  `AccountLimits` under this mapping:
  - inside a transaction, the abstract state is the state saved in the undo
    snapshot, so an open transaction is a stutter and its commit is one
    abstract `Transaction`;
  - during the commit loop, `committed` maps to the effective limits, so the
    start of `finalize_block` is the abstract `StartCommit` and every
    iteration of the loop is a stutter.
- **GasUsageWithinBalance.** Outside a transaction, gas usage is within a
  finite balance.
- **AverageWithinBlockMax.** The block EMA never exceeds the block max.
- **BlockUsageStable.** An action property: within a block (no step of
  `process_block_usage`), the admitted block usage never decreases and the
  virtual limits and block average never change. A rollback restores the
  snapshot's block state, so this would fail if `finalize_block` could run
  inside an open transaction's undo session; its mutant lets it.
- **BlockLimitNoWrap.** Between transactions, `get_block_cpu_limit` plus the
  pending usage is `max`, so the uint64_t subtraction (line 551) does not
  wrap. `rl_block_params` lets `set_block_parameters` lower `max` from 3 to 1
  after a block has admitted 3 units, in the same transaction as further
  usage or in one of its own. Such a transaction is always rolled back by the
  block check at its end (line 190), which reads the new maximum. Inside that
  transaction, before the check, the subtraction does wrap. Its mutant
  compares the block check against the maximum in force when the
  transaction began.
- **LimitExCastSafe** (violation run only). `get_account_cpu_limit_ex`
  never fails a `downgrade_cast`.
- **VirtualLimitInRange** (violation run only). The virtual limit lies in
  `[max, max*max_multiplier]`.
- **GasOnOnlyWhenRequested** (violation run only). Gas metering is on only if
  some `set_gas_limits` call asked for it.

Every property of a passing run has a mutant in `PROJECT.json`: a plausible
bug in the mapped code that TLC catches. Examples:

- dropping the underflow check of `add_pending_ram_usage`;
- not reverting the old value in the commit loop;
- treating only finite-to-smaller as a RAM decrease;
- dropping the 100-byte toll;
- not decaying the EMA;
- checking the block against a stale maximum.

**Bounds.**

In `rl_limit_ex_cast` the window is one block, so the whole capacity of the
window (at most 6) fits in `I64Max` = 7. Only a weight above the total can
overflow the share, and weights 1 and 7 are offered.

- 2 accounts. In `rl_limits`, one account is created inside a transaction,
  so creation, rollback of creation and commit of a new account all happen.
- Weights and RAM limits are chosen from {-1, 1}, covering the unlimited
  sentinel and a finite value.
- RAM deltas are chosen from {-1, 0, 1}.
- `U64Max` is 2 to 7. This is small enough that the overflow and underflow
  guards fire.
- 3 or 4 blocks, enough for an EMA to decay and the virtual limit to contract
  and expand.
- One or two manager calls per transaction. The gas findings need two: a
  charge and then a switch-off.

Each mutant run shows that these bounds reach the violating interleaving.

**Fairness.** None. The project has no liveness property. The commit loop of
`process_account_limit_updates` takes one pending row per step, so it ends by
construction. Its only way to stop is a fatal assertion (lines 488 and 493).
The assertion at 493 needs totals near `UINT64_MAX`, for example three
weights of `INT64_MAX`. These bounds do not reach that case, so a
"finalize_block completes" property or a "no fatal assertion" invariant would
hold only because of the bounds. Both were dropped.

## Findings

1. **Unlimited gas balance made finite.** `set_gst_limits` asserts
   `gst_bytes >= gst_usage` only when the stored balance compares larger
   (line 392). An unlimited balance is stored as -1, so a change from
   unlimited to a finite balance below the usage passes the assertion.
   - The function does return `decreased_limit = true` (lines 401-403).
     The modelled caller then verifies the account, as it does for
     `set_account_limits`.
   - `verify_account_ram_usage` checks gas only while metering is on
     (line 255).
   - With metering off, the account commits over its balance. Its usage
     comes from the toll of `verify_account_gst_usage`, which is charged
     whether metering is on or not.
   - The trace has five transactions: set balance 2, two tolls, set -1,
     set 1.
2. **Gas switched off mid-transaction.** `set_gas_limits(false)` in the same
   transaction as a gas charge skips the gas check of
   `verify_account_ram_usage` (line 255). The overdraft is committed.
3. **First `set_gas_limits` ignores its flag.** The first `set_gas_limits`
   creates the activation row switched on whatever its flag is (line 436).
   The spec says the flag is stored.
4. **Accessor cast overflow.** `get_account_cpu_limit_ex` reads the weight
   pending first but divides by the committed total (lines 572, 584). Within
   a block, a weight raised far above the committed total gives a share
   larger than the window's capacity. The share can exceed INT64_MAX, and
   `downgrade_cast` throws (line 594). The spec calls that overflow a fatal
   invariant violation. A committed weight never exceeds the total, so
   only the pending read reaches it. The trace: alice commits weight 1 (the
   total is 1), then sets weight 7 in a later block.
5. **Wrapping clamp bound.** `validate()` accepts any `max_multiplier`.
   `update_elastic_limit` computes `max * max_multiplier` in uint64_t
   (line 30), so a product that wraps clamps the virtual limit below `max`
   at the next `process_block_usage`. The spec's elastic clamp (§8.2) says
   this holds for all inputs.

## Proofs (TLAPS)

All theorems hold for every value of the constants satisfying
`AccountsAssumption`, `ConstantsAssumption` and `NoTxAssumption`.

- **`TypeCorrect`**: `Spec => []TypeOK`. `TypeOK` alone is not inductive. A
  rollback restores the snapshot, and an action reads `usage[a]` when
  `limits[a]` exists. The inductive invariant is therefore
  `TypeInv == TypeOK /\ RowsOk(Snapshot) /\ (InTx => RowsOk(undo))`, where
  `RowsOk` says:
  - a limits row exists exactly when a usage row exists;
  - a pending row has a committed one;
  - the config parameters are valid.

  There is one lemma per action, and one per operator result type
  (`EmaAdd`, `UpdateElasticLimit`, `UpdatedTotal`).
- **`RamQuota`**: `Spec => []RamUsageWithinLimit`. The inductive
  strengthening `RamInv` says:
  - accounts outside `validate` are within quota;
  - `validate` is empty between transactions;
  - the undo snapshot is within quota.

  The argument: every action that can push an account over quota (a positive
  RAM delta, a decreased limit, a rollback) either adds the account to
  `validate` or restores a snapshot within quota, and `FinishTx` commits only
  after verifying `validate`. `set_gst_limits` may also add its account to
  `validate`, which the lemma `RamFrameGrow` covers.
- **`CommitKeepsLimits`**: `Spec => CommitPreservesEffectiveLimits`, from
  `CommitInv` (no transaction is open while committing) and the type
  invariant.

- **`ImplementsAccountLimits`** (`ResourceLimitsRefinementProofs`):
  `Spec => LimitsRefinement`. It is proved from three lemmas:
  - `Init` maps to an abstract initial state;
  - a step outside a transaction maps to the matching abstract step;
  - every other step maps to a stutter.

  The stutter case needs `TxInv`. Inside a transaction, an account
  committed in the snapshot keeps its committed row, and a row created
  since has the default limits. The lemma `TxStepCases` classifies what a
  transaction call can do to `limits` and `undo`. `CommitInv` and
  `TypeInv` give the rest.

- **`AverageBounded`** (`ResourceLimitsBlockProofs`):
  `Spec => []AverageWithinBlockMax`, under the hypothesis
  `ElasticBoundsKept`:
  - the genesis parameters have `max_multiplier >= 1` and
    `max * max_multiplier <= U64Max`;
  - every parameter set that `validate()` accepts keeps `max` and
    `max_multiplier`.

  The hypothesis is needed. With the parameters of `rl_block_params`, a
  `max` lowered from 3 to 1 leaves the average of earlier blocks above it:
  TLC finds `AverageWithinBlockMax` violated there. The run `rl_usage`
  satisfies the hypothesis. The inductive invariant `BInv` says, for the
  live state and for the undo snapshot:
  - the config keeps the genesis `max` and `max_multiplier`;
  - each virtual limit lies in `[max, max * max_multiplier]`;
  - the pending block usage is at most `max`;
  - the block average's `value_ex` is at most `max * RatePrecision`;
  - its `last_ordinal` is below the current block.

  The argument rests on lemmas about the operators. `ElasticInRange`: the
  clamp of `update_elastic_limit` lands in the range when the product does
  not wrap. `EmaBound`: adding a value at most `m` to an average at most
  `m`, at a later ordinal, keeps it at most `m`. `DivSum` is the integer
  division fact under it. `FinishTx` only commits within
  `WithinBlock`, which bounds the pending usage.
- **`GasBalance`** (`ResourceLimitsGasProofs`):
  `Spec => []GasUsageWithinBalance`, under the hypothesis `GasInputsFinite`:
  - `set_gst_limits` is only given finite balances;
  - `set_gas_limits` is only asked to switch metering on.

  Without the first, `rl_gas_unlimited` shows an unlimited balance made
  finite below the usage while metering is off. Without the second, `rl_gas_switch_off` shows metering
  switched off before the final check. The run `rl_gas` satisfies the
  hypothesis. The inductive invariant `GInv` says:
  - every balance, live or in the snapshot, is finite;
  - an ordinary account outside `validate` is within its balance;
  - an account in `validate` is within its balance, or metering is on (so
    `verify_account_ram_usage` will check it);
  - the snapshot is within balance;
  - `validate` is empty between transactions.

  Gas grows in two places. `add_pending_ram_usage` charges only while
  metering is on, and puts the account in `validate`. The toll of
  `verify_account_gst_usage` is charged only when the balance covers it.
  `set_gst_limits` refuses a decrease below the usage from a finite balance.
- **`BlockLimitBounded`** (`ResourceLimitsBlockProofs`):
  `Spec => []BlockLimitNoWrap`, under `ParamsFitU64`. That hypothesis says
  only that `max` fits in its uint64_t field. Nothing else is assumed about
  the parameters, and `set_block_parameters` may lower or raise `max` in
  any transaction. The inductive invariant `NInv` says:
  - `max` fits in uint64_t, live and in the snapshot;
  - between transactions, the pending usage is within the live `max`;
  - during a transaction, the snapshot's pending usage is within the
    snapshot's `max`.

  The live pending usage may exceed a `max` lowered inside the open
  transaction, so the invariant has to talk about the snapshot. The steps:
  - a rollback restores the snapshot, which is within its `max`;
  - a commit passed `WithinBlock`, read against the config as it is at the
    end of the transaction;
  - `process_block_usage` resets the usage to 0.

  With `u <= max <= U64Max`, the `% (U64Max + 1)` of the uint64_t
  subtraction is the identity (`ModSmall`).
- **`BlockUsageMonotone`** (`ResourceLimitsBlockProofs`):
  `Spec => BlockUsageStable`, for every value of the constants and with no
  hypothesis. A rollback restores the block state saved in the undo
  snapshot, so the step needs the invariant `UsageInv`: while a transaction
  is open the snapshot's pending usage, virtual limits and average equal the
  live ones. It holds because transaction calls never write the block
  state, `BeginTx` copies the live state, and `CommitInv`
  keeps `finalize_block` (the only writer of the block state) out of a
  transaction. `NextStable` then proves the step case per action.

Each invariant was checked by TLC before it was proved: `TypeInv`,
`RamInv`, `CommitInv` and `TxInv` on `rl_limits`, `BInv` and `UsageInv` on
the configuration of `rl_usage`, `NInv` on that of `rl_block_params`, `GInv` on the configuration of `rl_gas`.

**Only model-checked:**

- **TotalsConsistent.** It rests on a sum over a set
  (`MapThenSumSet`). Relating the sum before and after a one-account
  update needs induction over finite sets. The library's induction
  theorems take an operator parameter, which the installed provers cannot
  instantiate.
- **The violation runs.** They show the properties fail on inputs the
  hypotheses above exclude.

## Not modelled

- Snapshot serialisation (lines 70-91, pure I/O).
- `get_account_limits2`, `get_account_ram_usage` and the `int64_t`
  wrappers `get_account_cpu/net_limit` (one-line reads that no property
  distinguishes).
- `block_state.cpp` (delegating constructors).
- `symbol.hpp` (a pure encoding).
- `transaction.hpp` and `reflect.hpp` (declarations).
- The `kgstd` main program and the API plugin headers.
- The test contract.

## Plan for later sittings

- Model `symbol` encoding and decoding against a reference definition.
- Check the fatal assertions of the commit loop (lines 488 and 493) with a
  third account and weights near `INT64_MAX`. The spec treats the overflow
  as fatal, so this needs a statement of what callers must keep the
  weights below.
- Model the NET resource alongside CPU in one run, to check that the two
  are kept apart.

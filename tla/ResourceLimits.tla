--------------------------- MODULE ResourceLimits ---------------------------
(***************************************************************************)
(* The resource limits manager (resource_limits.cpp) driven by the chain's *)
(* transaction loop.                                                       *)
(*                                                                         *)
(* The store's tables are variables: committed and pending account limits, *)
(* account usage, gas balances, the gas activation row, the state and the  *)
(* config singletons.  Each manager operation that runs inside a           *)
(* transaction is one action; when one of its assertions fails the caller  *)
(* rolls the store back to the transaction's undo snapshot (Rollback).     *)
(* The caller (transaction_context, not in this source tree) is modelled   *)
(* from the spec §2 and §7: BeginTx takes the snapshot, FinishTx runs      *)
(* verify_account_ram_usage on the accounts to validate and then           *)
(* add_transaction_usage, and either commits or rolls back.  At the block  *)
(* boundary process_account_limit_updates runs its loop one pending row at *)
(* a time (ProcessAccountLimitUpdate) while no transaction can run, then   *)
(* process_block_usage closes the block.                                   *)
(***************************************************************************)
EXTENDS Naturals, Integers, FiniteSets, FiniteSetsExt

CONSTANTS
  Accounts,        \* account names
  Resources,       \* a nonempty subset of {"cpu", "net"}
  GasAccount,      \* "gstio.gas"
  SysAccount,      \* "gstio"
  AccountRank,     \* the owner index order of account names
  NoRow,           \* absence of a row in a table
  NoTx,            \* no transaction open
  RatePrecision,   \* config::rate_limiting_precision
  U64Max,          \* UINT64_MAX, scaled down
  GasToll,         \* the per-transaction toll of verify_account_gst_usage
  InitParams,      \* default elastic limit parameters of the config row
  InitWindows,     \* default account usage average windows
  MaxBlock,        \* last block number the model reaches
  MaxTxOps,        \* most manager calls one transaction makes before finishing
  GenesisAccounts, \* accounts initialized at genesis
  \* inputs offered to the operations
  ParamChoices, RamBytesChoices, WeightChoices, GstBytesChoices,
  RamDeltaChoices, UsageChoices, GasFlagChoices

RL == INSTANCE RateLimiting

\* The rate-limited resources: "cpu" and "net" in the code; a model may
\* check one of them alone, the code treats both alike.
Res == Resources

ASSUME AccountsAssumption ==
  /\ IsFiniteSet(Accounts)
  /\ AccountRank \in [Accounts -> Nat]
  /\ \A a, b \in Accounts : AccountRank[a] = AccountRank[b] => a = b
ASSUME ConstantsAssumption ==
  /\ Resources \subseteq {"cpu", "net"} /\ Resources # {}
  /\ RatePrecision \in Nat \ {0}
  /\ U64Max \in Nat \ {0}
  /\ GasToll \in Nat
  /\ MaxBlock \in Nat \ {0}
  /\ MaxTxOps \in Nat
  /\ GenesisAccounts \subseteq Accounts
  /\ InitParams \in [Res -> RL!ElasticParams]
  /\ \A r \in Res : RL!ValidParams(InitParams[r])
  /\ InitWindows \in [Res -> Nat \ {0}]
  /\ ParamChoices \subseteq [Res -> RL!ElasticParams]
  /\ RamBytesChoices \subseteq Int /\ WeightChoices \subseteq Int
  /\ GstBytesChoices \subseteq Int /\ RamDeltaChoices \subseteq Int
  /\ UsageChoices \subseteq Nat /\ GasFlagChoices \subseteq BOOLEAN
  /\ NoRow \notin [ram_bytes : Int, weight : [Res -> Int]]
  /\ NoRow \notin [gst_bytes : Int, gst_usage : Nat]
  /\ NoRow \notin [ram_usage : Nat, ema : [Res -> RL!Ema]]
  /\ NoRow \notin BOOLEAN

LimitRow == [ram_bytes : Int, weight : [Res -> Int]]
UsageRow == [ram_usage : Nat, ema : [Res -> RL!Ema]]
GasRow   == [gst_bytes : Int, gst_usage : Nat]
StateRow == [pending_usage : [Res -> Nat], average_block : [Res -> RL!Ema],
             total_weight : [Res -> Nat], total_ram_bytes : Nat,
             virtual_limit : [Res -> Nat]]
ConfigRow == [params : [Res -> RL!ElasticParams], window : [Res -> Nat \ {0}]]

\* The undo snapshot of a transaction: a copy of every table.
SnapshotType ==
  [limits : [Accounts -> LimitRow \cup {NoRow}],
   pendingLimits : [Accounts -> LimitRow \cup {NoRow}],
   usage : [Accounts -> UsageRow \cup {NoRow}],
   gas : [Accounts -> GasRow \cup {NoRow}],
   activation : BOOLEAN \cup {NoRow},
   rls : StateRow,
   cfg : ConfigRow]

\* The "no transaction" marker is not a snapshot.
ASSUME NoTxAssumption == NoTx \notin SnapshotType

VARIABLES
  limits,         \* committed resource_limits_object rows (pending = false)
  pendingLimits,  \* pending resource_limits_object rows (pending = true)
  usage,          \* resource_usage_object rows
  gas,            \* resource_gst_object rows (always created pending)
  activation,     \* resource_activation_gst_object row of "gstio"
  rls,            \* resource_limits_state_object
  cfg,            \* resource_limits_config_object
  block,          \* number of the block being applied
  phase,          \* "open": transactions run; "commit": finalize_block runs
  undo,           \* the undo snapshot of the open transaction, or NoTx
  validate,       \* accounts to verify with verify_account_ram_usage
  txOps           \* manager calls made by the open transaction

db == <<limits, pendingLimits, usage, gas, activation, rls, cfg>>
vars == <<limits, pendingLimits, usage, gas, activation, rls, cfg,
          block, phase, undo, validate, txOps>>

Snapshot == [limits |-> limits, pendingLimits |-> pendingLimits,
             usage |-> usage, gas |-> gas, activation |-> activation,
             rls |-> rls, cfg |-> cfg]

InTx == undo # NoTx

\* The rows initialize_account creates: the limits keep their declared
\* default, -1 (unlimited), and the usage starts empty.
DefaultLimits == [ram_bytes |-> -1, weight |-> [r \in Res |-> -1]]
DefaultUsage == [ram_usage |-> 0, ema |-> [r \in Res |-> RL!EmaZero]]

Exists(a) == limits[a] # NoRow

\* get_account_limits: the pending row if there is one, else the committed.
EffectiveLimits(a) ==
  IF pendingLimits[a] # NoRow THEN pendingLimits[a] ELSE limits[a]

\* is_activation(): the activation row exists and is set.
IsActivation == activation = TRUE

\* get_virtual_block_cpu_limit / get_virtual_block_net_limit.
GetVirtualBlockLimit(r) == rls.virtual_limit[r]

\* get_block_cpu_limit / get_block_net_limit: the block maximum minus the
\* usage admitted so far, computed in uint64_t.
GetBlockLimit(r) == (cfg.params[r].max - rls.pending_usage[r]) % (U64Max + 1)

\* INT64_MAX: the values impl::downgrade_cast<int64_t> accepts.
I64Max == U64Max \div 2

\* get_account_cpu_limit_ex / get_account_net_limit_ex (lines 565-597): the
\* sentinel {-1,-1,-1} for an unlimited weight or a zero total; else the
\* account's share of the window (capacity * weight / total, with the
\* weight read pending first, the total committed), the usage rounded up,
\* and what is left.  cast_ok is FALSE when one of the three
\* downgrade_casts to int64_t throws.
GetAccountLimitEx(a, r, elastic) ==
  LET w        == EffectiveLimits(a).weight[r]
      capacity == IF elastic THEN rls.virtual_limit[r] ELSE cfg.params[r].max
      maxShare == RL!MaxUserUseInWindow(capacity, cfg.window[r], w,
                                        rls.total_weight[r])
      used     == RL!UsedInWindowCeil(usage[a].ema[r], cfg.window[r])
      avail    == IF maxShare <= used THEN 0 ELSE maxShare - used
  IN  IF w < 0 \/ rls.total_weight[r] = 0
        THEN [used |-> -1, available |-> -1, max |-> -1, cast_ok |-> TRUE]
        ELSE [used |-> used, available |-> avail, max |-> maxShare,
              cast_ok |-> \A x \in {avail, used, maxShare} : x <= I64Max]

-----------------------------------------------------------------------------
(* The undo session of the enclosing transaction.                          *)

\* A failed assertion: the caller restores the store to the snapshot.
Rollback ==
  /\ limits' = undo.limits
  /\ pendingLimits' = undo.pendingLimits
  /\ usage' = undo.usage
  /\ gas' = undo.gas
  /\ activation' = undo.activation
  /\ rls' = undo.rls
  /\ cfg' = undo.cfg
  /\ undo' = NoTx
  /\ validate' = {}
  /\ UNCHANGED <<block, phase>>

BeginTx ==
  /\ phase = "open"
  /\ ~InTx
  /\ undo' = Snapshot
  /\ validate' = {}
  /\ UNCHANGED <<limits, pendingLimits, usage, gas, activation, rls, cfg,
                 block, phase>>

\* The transaction fails for a reason outside the manager.
AbortTx ==
  /\ InTx
  /\ Rollback

-----------------------------------------------------------------------------
(* Operations called inside a transaction.                                 *)

\* initialize_account (lines 93-105): create the committed limits row with
\* the declared defaults (-1, unlimited) and an empty usage row; create
\* fails on the unique owner index when the rows exist.
InitializeAccount(a) ==
  /\ InTx
  /\ IF Exists(a) THEN Rollback
     ELSE /\ limits' = [limits EXCEPT ![a] = DefaultLimits]
          /\ usage' = [usage EXCEPT ![a] = DefaultUsage]
          /\ UNCHANGED <<pendingLimits, gas, activation, rls, cfg, block,
                         phase, undo, validate>>

\* set_block_parameters (lines 107-115).
SetBlockParameters(p) ==
  /\ InTx
  /\ IF ~\A r \in Res : RL!ValidParams(p[r]) THEN Rollback
     ELSE /\ cfg' = [cfg EXCEPT !.params = p]
          /\ UNCHANGED <<limits, pendingLimits, usage, gas, activation, rls,
                         block, phase, undo, validate>>

\* update_account_usage (lines 117-126): age both averages of every account.
UpdateAccountUsage(accts) ==
  /\ InTx
  /\ IF \E a \in accts : usage[a] = NoRow THEN Rollback
     ELSE /\ usage' = [a \in Accounts |->
                        IF a \in accts
                          THEN [usage[a] EXCEPT !.ema =
                                 [r \in Res |-> RL!EmaAdd(usage[a].ema[r], 0,
                                                  block, cfg.window[r])]]
                          ELSE usage[a]]
          /\ UNCHANGED <<limits, pendingLimits, gas, activation, rls, cfg,
                         block, phase, undo, validate>>

\* The gas row after add_pending_ram_usage (lines 211-239).
GasAfterRamDelta(a, delta) ==
  IF gas[a] # NoRow
    THEN [gas[a] EXCEPT !.gst_usage = IF @ + delta < 0 THEN 0 ELSE @ + delta]
    ELSE [gst_bytes |-> 0, gst_usage |-> IF delta < 0 THEN 0 ELSE delta]

\* Mutant: the underflow assertion (line 203) left out.
RamDeltaOkNoUnderflowCheck(a, delta) ==
  /\ usage[a] # NoRow
  /\ delta > 0 => U64Max - usage[a].ram_usage >= delta

\* The overflow and underflow assertions of add_pending_ram_usage
\* (lines 199-204), after _db.get of the usage row.
RamDeltaOk(a, delta) ==
  /\ usage[a] # NoRow
  /\ delta > 0 => U64Max - usage[a].ram_usage >= delta
  /\ delta < 0 => usage[a].ram_usage >= -delta

\* add_pending_ram_usage (lines 194-241), and the caller marking the account
\* for verification when the delta is positive.
AddPendingRamUsage(a, delta) ==
  /\ InTx
  /\ IF delta = 0 THEN UNCHANGED <<db, block, phase, undo, validate>>
     ELSE IF ~RamDeltaOk(a, delta) THEN Rollback
     ELSE /\ usage' = [usage EXCEPT ![a].ram_usage = @ + delta]
          /\ gas' = IF IsActivation
                      THEN [gas EXCEPT ![a] = GasAfterRamDelta(a, delta)]
                      ELSE gas
          /\ validate' = IF delta > 0 THEN validate \cup {a} ELSE validate
          /\ UNCHANGED <<limits, pendingLimits, activation, rls, cfg, block,
                         phase, undo>>

\* Mutant: the toll is not included in the balance check.
TollCoveredNoToll(a) == gas[a].gst_bytes >= gas[a].gst_usage

\* The balance check of verify_account_gst_usage (line 280).
TollCovered(a) == gas[a].gst_bytes >= gas[a].gst_usage + GasToll

\* verify_account_gst_usage (lines 271-290): charge the toll to accounts
\* with a finite balance.
VerifyAccountGstUsage(a) ==
  /\ InTx
  /\ IF \/ gas[a] = NoRow
        \/ gas[a].gst_bytes >= 0 /\ ~TollCovered(a)
       THEN Rollback
     ELSE /\ gas' = IF gas[a].gst_bytes >= 0
                      THEN [gas EXCEPT ![a].gst_usage = @ + GasToll]
                      ELSE gas
          /\ UNCHANGED <<limits, pendingLimits, usage, activation, rls, cfg,
                         block, phase, undo, validate>>

\* Mutant: an unlimited old limit (-1) is not seen as larger than any
\* finite new one.
DecreasedLimitFiniteOnly(old, new) == new >= 0 /\ new < old

\* set_account_limits (lines 313-361): find or create the pending row,
\* overwrite its fields; the caller verifies the account's RAM when the
\* returned flag says the RAM limit decreased.
DecreasedLimit(old, new) == new >= 0 /\ (old < 0 \/ new < old)

SetAccountLimits(a, ram, net, cpu) ==
  /\ InTx
  /\ IF ~Exists(a) THEN Rollback
     ELSE /\ pendingLimits' = [pendingLimits EXCEPT ![a] =
                 [ram_bytes |-> ram, weight |-> [r \in Res |->
                                        IF r = "cpu" THEN cpu ELSE net]]]
          /\ validate' = IF DecreasedLimit(EffectiveLimits(a).ram_bytes, ram)
                           THEN validate \cup {a} ELSE validate
          /\ UNCHANGED <<limits, usage, gas, activation, rls, cfg, block,
                         phase, undo>>

\* set_gst_limits (lines 363-427): find or create the pending gas row; a
\* decrease must leave room for the usage (the comparison is done in
\* uint64_t, so a negative new value always passes).  The returned flag
\* (lines 399-405, with -1 counting as infinity, as in set_account_limits)
\* makes the caller verify the account, as for set_account_limits.
SetGstLimits(a, bytes) ==
  LET row == IF gas[a] # NoRow THEN gas[a]
             ELSE [gst_bytes |-> bytes, gst_usage |-> 0]
  IN  /\ InTx
      /\ IF row.gst_bytes > bytes /\ bytes >= 0 /\ bytes < row.gst_usage
           THEN Rollback
         ELSE /\ gas' = [gas EXCEPT ![a] = [row EXCEPT !.gst_bytes = bytes]]
              /\ validate' = IF DecreasedLimit(row.gst_bytes, bytes)
                               THEN validate \cup {a} ELSE validate
              /\ UNCHANGED <<limits, pendingLimits, usage, activation, rls,
                             cfg, block, phase, undo>>

\* set_gas_limits (lines 429-449): the first call creates the row switched
\* on whatever the flag; later calls set the flag.
SetGasLimits(flag) ==
  /\ InTx
  /\ activation' = IF activation = NoRow THEN TRUE ELSE flag
  /\ UNCHANGED <<limits, pendingLimits, usage, gas, rls, cfg, block, phase,
                 undo, validate>>

-----------------------------------------------------------------------------
(* The end of a transaction.                                               *)

\* verify_account_ram_usage (lines 243-269).
RamUsageOk(a) ==
  /\ Exists(a)
  /\ EffectiveLimits(a).ram_bytes >= 0 =>
        usage[a].ram_usage <= EffectiveLimits(a).ram_bytes
GasUsageOk(a) ==
  IsActivation =>
    IF gas[a] # NoRow
      THEN (gas[a].gst_bytes >= 0 /\ a \notin {GasAccount, SysAccount})
              => gas[a].gst_usage <= gas[a].gst_bytes
      ELSE a = GasAccount
VerifyAccountRamUsage(a) == RamUsageOk(a) /\ GasUsageOk(a)

\* The account's averages after add_transaction_usage (lines 140-143).
TxEma(a, units) ==
  [r \in Res |-> RL!EmaAdd(usage[a].ema[r], units[r], block, cfg.window[r])]

\* The fair-share check of add_transaction_usage (lines 145-181).
WithinShare(a, units) ==
  \A r \in Res :
    LET w == EffectiveLimits(a).weight[r]
    IN  (w >= 0 /\ rls.total_weight[r] > 0) =>
          RL!UsedInWindow(TxEma(a, units)[r], cfg.window[r])
            <= RL!MaxUserUseInWindow(rls.virtual_limit[r], cfg.window[r],
                                     w, rls.total_weight[r])

\* The block check at the end of add_transaction_usage (lines 184-191).
\* Mutant: the block assert compares against the block maximum cached when
\* the transaction began, missing a set_block_parameters made since.
WithinBlockStaleMax(units) ==
  \A r \in Res : rls.pending_usage[r] + units[r] <= undo.cfg.params[r].max

WithinBlock(units) ==
  \A r \in Res : rls.pending_usage[r] + units[r] <= cfg.params[r].max

\* transaction_context::finalize: verify the RAM of the accounts to
\* validate, then add_transaction_usage(accts, cpu, net, block); the
\* transaction commits when every check passes.
FinishTx(accts, units) ==
  /\ InTx
  /\ IF \/ \E a \in validate : ~VerifyAccountRamUsage(a)
        \/ \E a \in accts : ~Exists(a)
        \/ \E a \in accts : ~WithinShare(a, units)
        \/ ~WithinBlock(units)
       THEN Rollback
     ELSE /\ usage' = [a \in Accounts |->
                        IF a \in accts THEN [usage[a] EXCEPT !.ema = TxEma(a, units)]
                                       ELSE usage[a]]
          /\ rls' = [rls EXCEPT !.pending_usage =
                        [r \in Res |-> @[r] + units[r]]]
          /\ undo' = NoTx
          /\ validate' = {}
          /\ UNCHANGED <<limits, pendingLimits, gas, activation, cfg, block,
                         phase>>

-----------------------------------------------------------------------------
(* The block boundary (finalize_block).                                    *)

\* Mutant: finalize_block may start while a transaction is still open.
StartFinalizeBlockInTx ==
  /\ phase = "open"
  /\ block < MaxBlock
  /\ phase' = "commit"
  /\ UNCHANGED <<limits, pendingLimits, usage, gas, activation, rls, cfg,
                 block, undo, validate>>

StartFinalizeBlock ==
  /\ phase = "open"
  /\ ~InTx
  /\ block < MaxBlock
  /\ phase' = "commit"
  /\ UNCHANGED <<limits, pendingLimits, usage, gas, activation, rls, cfg,
                 block, undo, validate>>

\* Mutant: the old contribution is never reverted.
UpdatedTotalNoRevert(total, value, new) ==
  IF new > 0 THEN total + new ELSE total

\* Mutant: value = pending_value placed inside the "pending_value > 0"
\* branch, so a field only changes when the new value is positive.
CommittedRowPositiveOnly(old, new) ==
  [ram_bytes |-> IF new.ram_bytes > 0 THEN new.ram_bytes ELSE old.ram_bytes,
   weight |-> [r \in Res |-> IF new.weight[r] > 0 THEN new.weight[r]
                                                 ELSE old.weight[r]]]

\* update_state_and_value (lines 486-498): revert the old contribution,
\* apply the new one; FALSE when the total would under- or overflow.
RevertOk(total, value) == value > 0 => total >= value
ApplyOk(total, value, new) ==
  LET t == IF value > 0 THEN total - value ELSE total
  IN  new > 0 => U64Max - t >= new
UpdatedTotal(total, value, new) ==
  LET t == IF value > 0 THEN total - value ELSE total
  IN  IF new > 0 THEN t + new ELSE t

\* The committed row after update_state_and_value has run on its three
\* fields: each takes the pending value (value = pending_value).
CommittedRow(old, new) == new

\* Mutant: lower_bound(true) on an index that orders pending rows before
\* committed ones lands on a committed row, and the loop breaks at once.
PendingOwnersNone == {a \in Accounts : FALSE}

\* The pending row the commit loop reaches first: lower_bound(true) on the
\* (pending, owner) index.
PendingOwners == {a \in Accounts : pendingLimits[a] # NoRow}
FirstPending(a) ==
  /\ a \in PendingOwners
  /\ \A b \in PendingOwners : AccountRank[a] <= AccountRank[b]

\* The loop body of process_account_limit_updates (lines 500-516) on the
\* first pending row: fold it into the totals and the committed row, then
\* remove it.  The assertions are fatal: no step is enabled then.
CommitOk(a) ==
  LET old == limits[a]
      new == pendingLimits[a]
  IN  /\ RevertOk(rls.total_ram_bytes, old.ram_bytes)
      /\ ApplyOk(rls.total_ram_bytes, old.ram_bytes, new.ram_bytes)
      /\ \A r \in Res : /\ RevertOk(rls.total_weight[r], old.weight[r])
                        /\ ApplyOk(rls.total_weight[r], old.weight[r], new.weight[r])

ProcessAccountLimitUpdate(a) ==
  LET old == limits[a]
      new == pendingLimits[a]
  IN  /\ phase = "commit"
      /\ FirstPending(a)
      /\ CommitOk(a)
      /\ rls' = [rls EXCEPT
                   !.total_ram_bytes = UpdatedTotal(@, old.ram_bytes, new.ram_bytes),
                   !.total_weight = [r \in Res |->
                        UpdatedTotal(@[r], old.weight[r], new.weight[r])]]
      /\ limits' = [limits EXCEPT ![a] = CommittedRow(old, new)]
      /\ pendingLimits' = [pendingLimits EXCEPT ![a] = NoRow]
      /\ UNCHANGED <<usage, gas, activation, cfg, block, phase, undo, validate>>

\* process_block_usage(block) (lines 520-536), once the commit loop has
\* found no pending row: fold the block's usage into the block averages,
\* update the virtual limits, reset the pending usage.
ProcessBlockUsage ==
  /\ phase = "commit"
  /\ PendingOwners = {}
  /\ LET avg == [r \in Res |-> RL!EmaAdd(rls.average_block[r],
                        rls.pending_usage[r], block, cfg.params[r].periods)]
     IN  rls' = [rls EXCEPT
                   !.average_block = avg,
                   !.virtual_limit = [r \in Res |->
                        RL!UpdateElasticLimit(@[r], RL!EmaAverage(avg[r]),
                                              cfg.params[r])],
                   !.pending_usage = [r \in Res |-> 0]]
  /\ block' = block + 1
  /\ phase' = "open"
  /\ UNCHANGED <<limits, pendingLimits, usage, gas, activation, cfg, undo,
                 validate>>

-----------------------------------------------------------------------------
(* initialize_database (lines 56-68): default config, and the chain starts *)
(* "congested" with the virtual limits at the block maximum.               *)
Init ==
  /\ limits = [a \in Accounts |-> IF a \in GenesisAccounts THEN DefaultLimits
                                                          ELSE NoRow]
  /\ pendingLimits = [a \in Accounts |-> NoRow]
  /\ usage = [a \in Accounts |-> IF a \in GenesisAccounts THEN DefaultUsage
                                                         ELSE NoRow]
  /\ gas = [a \in Accounts |-> NoRow]
  /\ activation = NoRow
  /\ cfg = [params |-> InitParams, window |-> InitWindows]
  /\ rls = [pending_usage |-> [r \in Res |-> 0],
            average_block |-> [r \in Res |-> RL!EmaZero],
            total_weight |-> [r \in Res |-> 0],
            total_ram_bytes |-> 0,
            virtual_limit |-> [r \in Res |-> InitParams[r].max]]
  /\ block = 1
  /\ phase = "open"
  /\ undo = NoTx
  /\ validate = {}
  /\ txOps = 0

\* One manager call inside the open transaction; a transaction makes at
\* most MaxTxOps of them before it finishes.
TxCall(A) ==
  /\ txOps < MaxTxOps
  /\ A
  /\ txOps' = IF undo' = NoTx THEN 0 ELSE txOps + 1

TxStep ==
  \/ \E a \in Accounts :
       \/ TxCall(InitializeAccount(a))
       \/ TxCall(VerifyAccountGstUsage(a))
       \/ \E d \in RamDeltaChoices : TxCall(AddPendingRamUsage(a, d))
       \/ \E b \in GstBytesChoices : TxCall(SetGstLimits(a, b))
       \/ \E ram \in RamBytesChoices, net, cpu \in WeightChoices :
            TxCall(SetAccountLimits(a, ram, net, cpu))
  \/ \E p \in ParamChoices : TxCall(SetBlockParameters(p))
  \/ \E f \in GasFlagChoices : TxCall(SetGasLimits(f))
  \/ \E accts \in SUBSET Accounts \ {{}} :
       TxCall(UpdateAccountUsage(accts))
  \/ /\ \E accts \in SUBSET Accounts \ {{}}, units \in [Res -> UsageChoices] :
          FinishTx(accts, units)
     /\ txOps' = 0
  \/ AbortTx /\ txOps' = 0

BlockStep ==
  /\ \/ StartFinalizeBlock
     \/ \E a \in Accounts : ProcessAccountLimitUpdate(a)
     \/ ProcessBlockUsage
  /\ UNCHANGED txOps

Next == (BeginTx /\ UNCHANGED txOps) \/ TxStep \/ BlockStep

Spec == Init /\ [][Next]_vars

-----------------------------------------------------------------------------
(* Properties.                                                             *)

TypeOK ==
  /\ limits \in [Accounts -> LimitRow \cup {NoRow}]
  /\ pendingLimits \in [Accounts -> LimitRow \cup {NoRow}]
  /\ usage \in [Accounts -> UsageRow \cup {NoRow}]
  /\ gas \in [Accounts -> GasRow \cup {NoRow}]
  /\ activation \in BOOLEAN \cup {NoRow}
  /\ rls \in StateRow
  /\ cfg \in ConfigRow
  /\ \A r \in Res : RL!ValidParams(cfg.params[r])
  /\ block \in Nat
  /\ phase \in {"open", "commit"}
  /\ undo \in SnapshotType \cup {NoTx}
  /\ validate \subseteq Accounts
  /\ txOps \in 0..MaxTxOps

\* The aggregate the state row keeps of a committed field: the sum of its
\* positive values over the accounts that have a committed row.
PositivePart(v) == IF v > 0 THEN v ELSE 0
CommittedTotal(field(_)) ==
  MapThenSumSet(LAMBDA a : PositivePart(field(limits[a])),
                {a \in Accounts : Exists(a)})

\* total_ram_bytes and total_*_weight equal the sums of the positive
\* committed values (spec §3.2 and §8.3), whatever interleaving of
\* set_account_limits, rolled-back transactions and the row-by-row commit
\* loop of process_account_limit_updates has run.
TotalsConsistent ==
  /\ rls.total_ram_bytes = CommittedTotal(LAMBDA row : row.ram_bytes)
  /\ \A r \in Res :
       rls.total_weight[r] = CommittedTotal(LAMBDA row : row.weight[r])

\* Outside a transaction, no account uses more RAM than its RAM limit, the
\* pending one if set (verify_account_ram_usage, lines 243-253).  RAM use
\* only grows through add_pending_ram_usage and limits only shrink through
\* set_account_limits, and both leave the check to the end of the
\* transaction; the assertions that set_account_limits once made itself
\* (lines 345-351) are commented out.
RamUsageWithinLimit ==
  ~InTx =>
    \A a \in Accounts :
      (Exists(a) /\ EffectiveLimits(a).ram_bytes >= 0)
        => usage[a].ram_usage <= EffectiveLimits(a).ram_bytes

\* Outside a transaction, no account other than "gstio" and "gstio.gas"
\* has used more gas than its finite balance (verify_account_ram_usage,
\* lines 255-262, and verify_account_gst_usage, lines 279-289): gas usage
\* grows in add_pending_ram_usage and the toll, balances change in
\* set_gst_limits, and the check runs only at the end of the transaction
\* and only while gas metering is on.
GasUsageWithinBalance ==
  ~InTx =>
    \A a \in Accounts \ {GasAccount, SysAccount} :
      (gas[a] # NoRow /\ gas[a].gst_bytes >= 0)
        => gas[a].gst_usage <= gas[a].gst_bytes

\* Gas metering is on only if some call of set_gas_limits asked for it
\* (spec §4.3: set_gas_limits upserts the row with is_activation = flag).
GasOnOnlyWhenRequested == IsActivation => TRUE \in GasFlagChoices

\* The block average that drives the elastic controller never exceeds the
\* block maximum (spec §8.1): each block's usage is bounded by the
\* admission check of add_transaction_usage (line 190), and the average
\* decays it over cfg.params.periods blocks (process_block_usage, line 526).
AverageWithinBlockMax ==
  \A r \in Res : RL!EmaAverage(rls.average_block[r]) <= cfg.params[r].max

\* The virtual limit lies in [max, max * max_multiplier] (spec §3.2 and
\* §8.2): it starts at max (initialize_database, lines 64-66) and every
\* process_block_usage contracts or expands it and clamps it, while
\* set_block_parameters may change max in between.
VirtualLimitInRange ==
  \A r \in Res :
    /\ cfg.params[r].max <= GetVirtualBlockLimit(r)
    /\ GetVirtualBlockLimit(r) <= cfg.params[r].max * cfg.params[r].max_multiplier

\* Between transactions, the block capacity get_block_cpu_limit reports
\* (lines 548-552) is what is left of the block maximum, so its uint64_t
\* subtraction does not wrap (spec §3.2: pending usage <= max), even though
\* set_block_parameters (lines 107-115) may lower max below the usage the
\* block has admitted: a transaction that does so is rolled back by the
\* block check that ends it (add_transaction_usage, line 190), which reads
\* the new maximum.
BlockLimitNoWrap ==
  ~InTx =>
    \A r \in Res : GetBlockLimit(r) + rls.pending_usage[r] = cfg.params[r].max

\* Within a block the admitted block usage only grows and the elastic state
\* (virtual limits and block average) stays put: add_transaction_usage
\* only adds to pending_usage (lines 184-191), a rolled-back transaction
\* restores the snapshot taken when it began, and only process_block_usage
\* (lines 520-536), which starts the next block, resets the usage and
\* moves the averages and the virtual limits.
BlockUsageStable ==
  [][block' = block =>
       /\ \A r \in Res : rls'.pending_usage[r] >= rls.pending_usage[r]
       /\ rls'.virtual_limit = rls.virtual_limit
       /\ rls'.average_block = rls.average_block]_vars

\* get_account_cpu_limit_ex (lines 565-597) answers for every account
\* without a failing downgrade_cast: spec §3 (Accessors) calls an overflow
\* of the cast a fatal invariant violation.
LimitExCastSafe ==
  \A a \in Accounts, r \in Res, elastic \in BOOLEAN :
    Exists(a) => GetAccountLimitEx(a, r, elastic).cast_ok

\* A step of finalize_block never changes any account's effective limits:
\* folding a pending row into the committed one (lines 508-515) keeps
\* what get_account_limits returns.
CommitPreservesEffectiveLimits ==
  [][phase = "commit" =>
       \A a \in Accounts : Exists(a) => EffectiveLimits(a)' = EffectiveLimits(a)]_vars
=============================================================================

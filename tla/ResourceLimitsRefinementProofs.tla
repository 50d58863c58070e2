--------------------- MODULE ResourceLimitsRefinementProofs ---------------------
(***************************************************************************)
(* Proof that the resource limits manager, driven by its caller,           *)
(* implements AccountLimits under the mapping of ResourceLimitsRefinement. *)
(*                                                                         *)
(* The mapping reads the abstract limits from the undo snapshot during a   *)
(* transaction.  So a step that commits a transaction must show that the   *)
(* committed table it leaves differs from the snapshot's only by accounts  *)
(* created with the default row.  TxInv states that of every state inside *)
(* a transaction.                                                          *)
(***************************************************************************)
EXTENDS ResourceLimitsProofs, ResourceLimitsRefinement, TLAPS

\* Inside a transaction the committed table differs from the snapshot's
\* only by rows initialize_account created, which hold the defaults.
TxInv ==
  InTx =>
    \A a \in Accounts :
      /\ undo.limits[a] # NoRow => limits[a] = undo.limits[a]
      /\ (undo.limits[a] = NoRow /\ limits[a] # NoRow) => limits[a] = DefaultLimits

\* What a manager call can do to the committed table and the snapshot: roll
\* back, commit the transaction with the committed table unchanged, leave
\* both alone, or create one account's committed row.
LEMMA TxStepCases ==
  ASSUME TxStep
  PROVE  \/ Rollback
         \/ undo' = NoTx /\ limits' = limits /\ pendingLimits' = pendingLimits
         \/ undo' = undo /\ limits' = limits
         \/ /\ undo' = undo
            /\ \E a \in Accounts :
                 ~Exists(a) /\ limits' = [limits EXCEPT ![a] = DefaultLimits]
<1>1. ASSUME NEW a \in Accounts, InitializeAccount(a)
      PROVE  \/ Rollback
             \/ /\ undo' = undo
                /\ \E b \in Accounts :
                     ~Exists(b) /\ limits' = [limits EXCEPT ![b] = DefaultLimits]
  BY <1>1 DEF InitializeAccount
<1>2. ASSUME NEW a \in Accounts, VerifyAccountGstUsage(a)
      PROVE  Rollback \/ (undo' = undo /\ limits' = limits)
  BY <1>2 DEF VerifyAccountGstUsage
<1>3. ASSUME NEW a \in Accounts, NEW d \in RamDeltaChoices,
             AddPendingRamUsage(a, d)
      PROVE  Rollback \/ (undo' = undo /\ limits' = limits)
  BY <1>3 DEF AddPendingRamUsage, db
<1>4. ASSUME NEW a \in Accounts, NEW b \in GstBytesChoices, SetGstLimits(a, b)
      PROVE  Rollback \/ (undo' = undo /\ limits' = limits)
  BY <1>4 DEF SetGstLimits
<1>5. ASSUME NEW a \in Accounts, NEW ram \in RamBytesChoices,
             NEW net \in WeightChoices, NEW cpu \in WeightChoices,
             SetAccountLimits(a, ram, net, cpu)
      PROVE  Rollback \/ (undo' = undo /\ limits' = limits)
  BY <1>5 DEF SetAccountLimits
<1>6. ASSUME NEW p \in ParamChoices, SetBlockParameters(p)
      PROVE  Rollback \/ (undo' = undo /\ limits' = limits)
  BY <1>6 DEF SetBlockParameters
<1>7. ASSUME NEW f \in GasFlagChoices, SetGasLimits(f)
      PROVE  undo' = undo /\ limits' = limits
  BY <1>7 DEF SetGasLimits
<1>8. ASSUME NEW accts \in SUBSET Accounts, UpdateAccountUsage(accts)
      PROVE  Rollback \/ (undo' = undo /\ limits' = limits)
  BY <1>8 DEF UpdateAccountUsage
<1>9. ASSUME NEW accts \in SUBSET Accounts, NEW units \in [Res -> UsageChoices],
             FinishTx(accts, units)
      PROVE  Rollback \/ (undo' = NoTx /\ limits' = limits /\ pendingLimits' = pendingLimits)
  BY <1>9 DEF FinishTx
<1>10. ASSUME AbortTx PROVE Rollback
  BY <1>10 DEF AbortTx
<1>. QED
  BY <1>1, <1>2, <1>3, <1>4, <1>5, <1>6, <1>7, <1>8, <1>9, <1>10, Zenon
  DEF TxStep, TxCall

-----------------------------------------------------------------------------
(* TxInv is an invariant.                                                  *)

LEMMA InitTxInv == Init => TxInv
BY DEF Init, TxInv, InTx

\* The step: the snapshot is taken with the committed table as it is; a
\* call either ends the transaction, keeps the table, or creates a row for
\* an account that the snapshot, which is older, cannot have either.
LEMMA NextTxInv ==
  ASSUME TypeInv, CommitInv, TxInv, [Next]_vars
  PROVE  TxInv'
<1>1. CASE BeginTx /\ UNCHANGED txOps
  BY <1>1 DEF BeginTx, TxInv, Snapshot
<1>2. CASE TxStep
  <2>1. InTx
    BY <1>2, TxStepShape
  <2>2. CASE Rollback
    BY <2>2 DEF Rollback, TxInv, InTx
  <2>3. CASE undo' = NoTx /\ limits' = limits /\ pendingLimits' = pendingLimits
    BY <2>3 DEF TxInv, InTx
  <2>4. CASE undo' = undo /\ limits' = limits
    BY <2>4 DEF TxInv, InTx
  <2>5. CASE /\ undo' = undo
             /\ \E a \in Accounts :
                  ~Exists(a) /\ limits' = [limits EXCEPT ![a] = DefaultLimits]
    <3>1. PICK a \in Accounts :
            ~Exists(a) /\ limits' = [limits EXCEPT ![a] = DefaultLimits]
      BY <2>5, Zenon
    <3>2. undo.limits[a] = NoRow
      BY <2>1, <3>1 DEF TxInv, Exists
    <3>3. limits'[a] = DefaultLimits
      BY <3>1 DEF TypeInv, TypeOK
    <3>4. \A b \in Accounts \ {a} : limits'[b] = limits[b]
      BY <3>1 DEF TypeInv, TypeOK
    <3>. QED
      BY <2>1, <2>5, <3>2, <3>3, <3>4 DEF TxInv, InTx
  <2>. QED
    BY <1>2, <2>2, <2>3, <2>4, <2>5, TxStepCases
<1>3. CASE BlockStep
  <2>1. ~InTx /\ undo' = undo
    BY <1>3, Zenon DEF BlockStep, StartFinalizeBlock, ProcessAccountLimitUpdate,
                ProcessBlockUsage, CommitInv
  <2>. QED
    BY <2>1 DEF TxInv, InTx
<1>4. CASE UNCHANGED vars
  BY <1>4 DEF vars, TxInv, InTx
<1>. QED
  BY <1>1, <1>2, <1>3, <1>4 DEF Next

LEMMA TxInvariant == Spec => []TxInv
<1>1. TypeInv /\ CommitInv /\ TxInv /\ [Next]_vars => TxInv'
  BY NextTxInv
<1>. QED
  BY <1>1, InitTxInv, TypeInvariant, CommitInvariant, PTL DEF Spec

-----------------------------------------------------------------------------
(* The refinement.                                                         *)

\* The abstract tables are functions over the accounts.
LEMMA BarsAreFunctions ==
  /\ effectiveBar = [a \in Accounts |-> effectiveBar[a]]
  /\ committedBar = [a \in Accounts |-> committedBar[a]]
  /\ effectiveBar' = [a \in Accounts |-> effectiveBar'[a]]
  /\ committedBar' = [a \in Accounts |-> committedBar'[a]]
BY DEF effectiveBar, committedBar

\* A step that changes neither abstract table nor the phase is a stutter.
LEMMA StutterStep ==
  ASSUME \A a \in Accounts : effectiveBar'[a] = effectiveBar[a],
         \A a \in Accounts : committedBar'[a] = committedBar[a],
         phase' = phase
  PROVE  UNCHANGED LA!vars
BY DEF effectiveBar, committedBar, LA!vars

\* In the initial state nothing is pending and no transaction is open.
LEMMA InitRefines == Init => LA!Init
<1> SUFFICES ASSUME Init PROVE LA!Init
  OBVIOUS
<1>1. TypeOK
  BY InitTypeInv DEF TypeInv
<1>2. ~InTx /\ phase = "open" /\ \A a \in Accounts : pendingLimits[a] = NoRow
  BY DEF Init, InTx
<1>3. \A a \in Accounts : effectiveBar[a] = limits[a] /\ committedBar[a] = limits[a]
  BY <1>2 DEF effectiveBar, committedBar, EffectiveLimits
<1>4. committedBar \in LA!Table
  BY <1>1, <1>3 DEF TypeOK, committedBar, LA!Table
<1>. QED
  BY <1>2, <1>3, <1>4 DEF LA!Init, effectiveBar, committedBar

\* A transaction that commits is the abstract Transaction step: what
\* get_account_limits returns afterwards becomes the effective table; an
\* account never disappears; the committed rows are the snapshot's, plus
\* default rows for the accounts the transaction created.
LEMMA CommitTxRefines ==
  ASSUME TypeInv, TypeInv', CommitInv, TxInv, InTx, phase' = phase,
         undo' = NoTx, limits' = limits, pendingLimits' = pendingLimits
  PROVE  LA!Transaction
<1>1. phase = "open"
  BY DEF CommitInv, TypeInv, TypeOK
<1>2. ~InTx'
  BY DEF InTx
<1>3. \A a \in Accounts : effectiveBar'[a] = EffectiveLimits(a)
  BY <1>2 DEF effectiveBar, EffectiveLimits
<1>4. \A a \in Accounts : committedBar'[a] = limits[a]
  BY <1>1, <1>2 DEF committedBar
<1>5. \A a \in Accounts : effectiveBar[a] = EffectiveIn(undo, a)
                          /\ committedBar[a] = undo.limits[a]
  BY DEF effectiveBar, committedBar
<1>6. effectiveBar' \in LA!Table
  <2>1. \A a \in Accounts : EffectiveLimits(a) \in LimitRow \cup {NoRow}
    BY DEF TypeInv, TypeOK, EffectiveLimits
  <2>. QED
    BY <1>3, <2>1 DEF effectiveBar, LA!Table
<1>7. ASSUME NEW a \in Accounts, effectiveBar[a] # NoRow
      PROVE  effectiveBar'[a] # NoRow
  <2>1. undo.limits[a] # NoRow
    BY <1>5, <1>7 DEF TypeInv, RowsOk, EffectiveIn
  <2>2. limits[a] # NoRow
    BY <2>1 DEF TxInv
  <2>. QED
    BY <1>3, <2>2 DEF EffectiveLimits
<1>8. ASSUME NEW a \in Accounts
      PROVE  committedBar'[a] =
               IF committedBar[a] = NoRow /\ effectiveBar'[a] # NoRow
                 THEN DefaultLimits ELSE committedBar[a]
  <2>1. CASE undo.limits[a] # NoRow
    BY <1>4, <1>5, <2>1 DEF TxInv
  <2>2. CASE undo.limits[a] = NoRow /\ limits[a] # NoRow
    <3>1. effectiveBar'[a] # NoRow
      BY <1>3, <2>2 DEF EffectiveLimits
    <3>. QED
      BY <1>4, <1>5, <2>2, <3>1 DEF TxInv
  <2>3. CASE undo.limits[a] = NoRow /\ limits[a] = NoRow
    <3>1. pendingLimits[a] = NoRow
      BY <2>3, Zenon DEF TypeInv, RowsOk, Snapshot
    <3>2. effectiveBar'[a] = NoRow
      BY <1>3, <2>3, <3>1 DEF EffectiveLimits
    <3>. QED
      BY <1>4, <1>5, <2>3, <3>2
  <2>. QED
    BY <2>1, <2>2, <2>3
<1>9. committedBar' = [a \in Accounts |->
                        IF committedBar[a] = NoRow /\ effectiveBar'[a] # NoRow
                          THEN DefaultLimits ELSE committedBar[a]]
  BY <1>8, BarsAreFunctions
<1>. QED
  BY <1>1, <1>6, <1>7, <1>9 DEF LA!Transaction

\* Every step of the manager and its caller is a step of AccountLimits or
\* leaves its variables alone.
LEMMA StepRefines ==
  ASSUME TypeInv, TypeInv', CommitInv, TxInv, [Next]_vars
  PROVE  [LA!Next]_LA!vars
<1>1. CASE BeginTx /\ UNCHANGED txOps
  \* The snapshot is the store as it is: the abstract tables read the same.
  <2>1. ~InTx /\ InTx' /\ phase = "open" /\ phase' = phase /\ undo' = Snapshot
    <3>1. Snapshot \in SnapshotType
      BY DEF TypeInv, TypeOK, Snapshot, SnapshotType
    <3>. QED
      BY <1>1, <3>1, NoTxAssumption DEF BeginTx, InTx
  <2>2. /\ limits' = limits /\ pendingLimits' = pendingLimits
    BY <1>1 DEF BeginTx
  <2>3. \A a \in Accounts : effectiveBar'[a] = effectiveBar[a]
    BY <2>1, <2>2 DEF effectiveBar, EffectiveIn, EffectiveLimits, Snapshot
  <2>4. \A a \in Accounts : committedBar'[a] = committedBar[a]
    BY <2>1, <2>2 DEF committedBar, Snapshot
  <2>. QED
    BY <2>1, <2>3, <2>4, StutterStep DEF LA!Next
<1>2. CASE TxStep
  <2>1. InTx /\ phase' = phase
    BY <1>2, TxStepShape
  <2>2. phase = "open"
    BY <2>1 DEF CommitInv, TypeInv, TypeOK
  <2>3. CASE Rollback
    \* The store returns to the snapshot the abstract tables were read from.
    <3>1. ~InTx'
      BY <2>3 DEF Rollback, InTx
    <3>2. \A a \in Accounts : effectiveBar'[a] = effectiveBar[a]
      BY <2>1, <2>3, <3>1 DEF Rollback, effectiveBar, EffectiveIn, EffectiveLimits
    <3>3. \A a \in Accounts : committedBar'[a] = committedBar[a]
      BY <2>1, <2>2, <2>3, <3>1 DEF Rollback, committedBar
    <3>. QED
      BY <2>1, <3>2, <3>3, StutterStep
  <2>4. CASE undo' = NoTx /\ limits' = limits /\ pendingLimits' = pendingLimits
    BY <2>1, <2>4, CommitTxRefines DEF LA!Next
  <2>5. CASE undo' = undo
    \* The transaction goes on: the abstract tables are still the snapshot's.
    <3>1. InTx'
      BY <2>1, <2>5 DEF InTx
    <3>2. \A a \in Accounts : effectiveBar'[a] = effectiveBar[a]
      BY <2>1, <2>5, <3>1 DEF effectiveBar
    <3>3. \A a \in Accounts : committedBar'[a] = committedBar[a]
      BY <2>1, <2>5, <3>1 DEF committedBar
    <3>. QED
      BY <2>1, <3>2, <3>3, StutterStep
  <2>. QED
    BY <1>2, <2>3, <2>4, <2>5, TxStepCases
<1>3. CASE StartFinalizeBlock
  \* The boundary starts: the committed tables become the effective ones.
  <2>1. ~InTx /\ ~InTx' /\ phase = "open" /\ phase' = "commit"
    BY <1>3 DEF StartFinalizeBlock, InTx
  <2>2. limits' = limits /\ pendingLimits' = pendingLimits
    BY <1>3 DEF StartFinalizeBlock
  <2>3. \A a \in Accounts : /\ effectiveBar'[a] = effectiveBar[a]
                            /\ committedBar'[a] = effectiveBar[a]
    BY <2>1, <2>2 DEF effectiveBar, committedBar, EffectiveLimits
  <2>4. effectiveBar' = effectiveBar /\ committedBar' = effectiveBar
    BY <2>3, BarsAreFunctions
  <2>. QED
    BY <2>1, <2>4 DEF LA!Next, LA!StartCommit
<1>4. ASSUME NEW a \in Accounts, ProcessAccountLimitUpdate(a)
      PROVE  [LA!Next]_LA!vars
  \* One iteration of the commit loop: get_account_limits returns the same
  \* for every account, and the committed tables are read as the effective
  \* ones throughout the boundary.
  <2>1. phase = "commit" /\ phase' = phase /\ ~InTx /\ ~InTx'
    BY <1>4 DEF ProcessAccountLimitUpdate, CommitInv, InTx
  <2>2. pendingLimits[a] # NoRow
    BY <1>4 DEF ProcessAccountLimitUpdate, FirstPending, PendingOwners
  <2>3. /\ limits' = [limits EXCEPT ![a] = pendingLimits[a]]
        /\ pendingLimits' = [pendingLimits EXCEPT ![a] = NoRow]
    BY <1>4 DEF ProcessAccountLimitUpdate, CommittedRow
  <2>4. \A b \in Accounts : EffectiveLimits(b)' = EffectiveLimits(b)
    BY <2>2, <2>3 DEF EffectiveLimits, TypeInv, TypeOK
  <2>5. \A b \in Accounts : /\ effectiveBar'[b] = effectiveBar[b]
                            /\ committedBar'[b] = committedBar[b]
    BY <2>1, <2>4 DEF effectiveBar, committedBar
  <2>. QED
    BY <2>1, <2>5, StutterStep
<1>5. CASE ProcessBlockUsage
  \* The loop has found no pending row: the committed table is the
  \* effective one, and the boundary ends.
  <2>1. phase = "commit" /\ phase' = "open" /\ ~InTx /\ ~InTx'
    BY <1>5 DEF ProcessBlockUsage, CommitInv, InTx
  <2>2. \A b \in Accounts : pendingLimits[b] = NoRow
    BY <1>5 DEF ProcessBlockUsage, PendingOwners
  <2>3. limits' = limits /\ pendingLimits' = pendingLimits
    BY <1>5 DEF ProcessBlockUsage
  <2>4. \A b \in Accounts : /\ effectiveBar'[b] = effectiveBar[b]
                            /\ committedBar'[b] = committedBar[b]
    BY <2>1, <2>2, <2>3 DEF effectiveBar, committedBar, EffectiveLimits
  <2>5. effectiveBar' = effectiveBar /\ committedBar' = committedBar
    BY <2>4, BarsAreFunctions
  <2>. QED
    BY <2>1, <2>5 DEF LA!Next, LA!EndCommit
<1>6. CASE UNCHANGED vars
  <2>1. \A b \in Accounts : /\ effectiveBar'[b] = effectiveBar[b]
                            /\ committedBar'[b] = committedBar[b]
    BY <1>6, Zenon DEF vars, effectiveBar, committedBar, EffectiveIn, EffectiveLimits, InTx
  <2>. QED
    BY <1>6, <2>1, StutterStep DEF vars
<1>. QED
  BY <1>1, <1>2, <1>3, <1>4, <1>5, <1>6 DEF Next, BlockStep

\* The manager and its caller implement AccountLimits: a transaction's
\* changes to account limits appear at once when it commits and not at all
\* when it rolls back, accounts are never removed, and the committed limits
\* of an existing account change only at a block boundary, where
\* process_account_limit_updates makes them the effective ones.
THEOREM ImplementsAccountLimits == Spec => LimitsRefinement
<1>1. TypeInv /\ TypeInv' /\ CommitInv /\ TxInv /\ [Next]_vars => [LA!Next]_LA!vars
  BY StepRefines
<1>. QED
  BY <1>1, InitRefines, TypeInvariant, CommitInvariant, TxInvariant, PTL
     DEF Spec, LimitsRefinement, LA!Spec
=============================================================================

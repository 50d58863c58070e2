----------------------- MODULE ResourceLimitsRefinement -----------------------
(***************************************************************************)
(* The resource limits manager implements AccountLimits.                  *)
(*                                                                         *)
(* Inside a transaction the abstract limits are those of the undo          *)
(* snapshot: nothing the transaction did is visible until it commits, and  *)
(* a rollback is a stuttering step.  While finalize_block runs, the        *)
(* committed limits are already the effective ones: the commit loop of     *)
(* process_account_limit_updates, one pending row per step, is a           *)
(* sequence of stuttering steps after StartCommit.                         *)
(***************************************************************************)
EXTENDS ResourceLimits

\* get_account_limits on the tables of a store d.
EffectiveIn(d, a) ==
  IF d.pendingLimits[a] # NoRow THEN d.pendingLimits[a] ELSE d.limits[a]

effectiveBar ==
  [a \in Accounts |-> IF InTx THEN EffectiveIn(undo, a) ELSE EffectiveLimits(a)]

committedBar ==
  [a \in Accounts |-> IF InTx THEN undo.limits[a]
                      ELSE IF phase = "commit" THEN EffectiveLimits(a)
                      ELSE limits[a]]

LA == INSTANCE AccountLimits
        WITH Rows <- LimitRow, DefaultRow <- DefaultLimits,
             effective <- effectiveBar, committed <- committedBar

\* Every behaviour of the manager and its caller is one of AccountLimits:
\* transactions change the limits get_account_limits returns atomically
\* (rollbacks restore them), set_account_limits only ever reaches the
\* committed rows through process_account_limit_updates at the next block
\* boundary, and that loop (lines 500-516) leaves with every pending row
\* folded in.
LimitsRefinement == LA!Spec
=============================================================================

--------------------------- MODULE AccountLimits ----------------------------
(***************************************************************************)
(* What the resource limits manager promises about account limits, seen    *)
(* from outside a transaction and outside the block boundary (spec §3 and  *)
(* §4: "set_account_limits ... pending ... materialized at the next block  *)
(* boundary").                                                             *)
(*                                                                         *)
(*   - effective: the limits get_account_limits returns for each account;  *)
(*   - committed: the limits the totals and the fair share are computed    *)
(*     from;                                                               *)
(*   - phase: "open" while transactions run, "commit" at a block boundary. *)
(*                                                                         *)
(* A transaction changes the effective limits at once, may create         *)
(* accounts (whose committed row takes the defaults) and never removes     *)
(* one; it never changes the committed limits of an existing account.  A   *)
(* block boundary makes the committed limits the effective ones.           *)
(***************************************************************************)
CONSTANTS
  Accounts,    \* account names
  NoRow,       \* no row for the account
  Rows,        \* the possible limits rows
  DefaultRow   \* the row an account is created with

VARIABLES effective, committed, phase

vars == <<effective, committed, phase>>

Table == [Accounts -> Rows \cup {NoRow}]

Init ==
  /\ committed \in Table
  /\ effective = committed
  /\ phase = "open"

\* A committed transaction: any new effective table that keeps every
\* existing account; accounts it creates get the default committed row.
Transaction ==
  /\ phase = "open"
  /\ effective' \in Table
  /\ \A a \in Accounts : effective[a] # NoRow => effective'[a] # NoRow
  /\ committed' = [a \in Accounts |->
                     IF committed[a] = NoRow /\ effective'[a] # NoRow
                       THEN DefaultRow ELSE committed[a]]
  /\ UNCHANGED phase

\* The block boundary starts: every pending change becomes committed.
StartCommit ==
  /\ phase = "open"
  /\ phase' = "commit"
  /\ committed' = effective
  /\ UNCHANGED effective

\* The block boundary ends and transactions run again.
EndCommit ==
  /\ phase = "commit"
  /\ phase' = "open"
  /\ UNCHANGED <<effective, committed>>

Next == Transaction \/ StartCommit \/ EndCommit

Spec == Init /\ [][Next]_vars
=============================================================================

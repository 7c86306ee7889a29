-------------------------------- MODULE Chain --------------------------------
(***************************************************************************)
(* The chain the contracts of the DAO live on, as far as they can tell: a  *)
(* block number, which the token and the governor use as their clock, and  *)
(* a block timestamp, which the timelock measures its delays with.         *)
(*                                                                         *)
(* A transaction executes at once and in full, or reverts and changes      *)
(* nothing.  In the contract modules an external function is therefore one *)
(* action, its arguments and msg.sender are the parameters, and a revert   *)
(* is an action that is not enabled.                                       *)
(***************************************************************************)
EXTENDS Integers

CONSTANTS
  Account,            \* the externally owned accounts
  Zero,               \* address(0)
  Deployer,           \* the account that deployed the contracts
  GovernorAddress,    \* where MyGovernor is deployed
  TimeLockAddress,    \* where TimeLock is deployed
  BlockTime,          \* the seconds that may pass from a block to the next
  MaxClock            \* bound: the last block in which anything new begins

ASSUME ChainConstants ==
  /\ Deployer \in Account
  /\ {Zero, GovernorAddress, TimeLockAddress} \cap Account = {}
  /\ Zero # GovernorAddress
  /\ Zero # TimeLockAddress
  /\ GovernorAddress # TimeLockAddress
  /\ BlockTime \subseteq Nat \ {0}
  /\ MaxClock \in Nat

VARIABLES
  clock,  \* the number of the block the next transaction is in
  now     \* the timestamp of that block

chainVars == <<clock, now>>

(* The timelock marks operations with the timestamps 0 and 1; every real   *)
(* block is later than both.                                               *)
ChainInit ==
  /\ clock = 1
  /\ now = 2

ChainTypeOK ==
  /\ clock \in Nat \ {0}
  /\ now \in Nat \ {0, 1}

NextBlock ==
  /\ clock' = clock + 1
  /\ \E seconds \in BlockTime : now' = now + seconds
=============================================================================

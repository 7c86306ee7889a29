\* Three accounts, one of them a contract that accepts no payment; a minimum
\* balance of one, so that three units can be spent down to it; a register with
\* room for an account to enter twice.
CONSTANTS
  Account = {owner, user, contract}
  Zero = Zero
  Owner = owner
  Refusing = {contract}
  Amount = {0, 1, 3}
  MinBalance = 1
  MaxCount = 4
  MaxOwed = 6
SPECIFICATION Spec
INVARIANTS
  TypeOK
  OwedIsEtherAndTransfers
  DepositorsAreRegistered
  RegisterIsDense
  LoopPaysEachOnce

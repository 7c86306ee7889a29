\* An ether of two wei, prices of nothing and of one ether, and payments of less
\* than one ether, just one, and between one and two; three blocks, of which
\* one may be skipped.
CONSTANTS
  Account = {a, b}
  Zero = Zero
  Unit = 2
  Price = {0, 1}
  Value = {0, 1, 2, 3}
  LastTime = 3
  MaxVault = 4
SPECIFICATION Spec
INVARIANTS
  OwnersAddedOrPaid
PROPERTY ItemsSettleWithTheirBlock

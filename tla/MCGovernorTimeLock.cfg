\* One proposal issues a certificate and does away with the delay, another
\* gives the certificates to the deployer and makes it a canceller.  The
\* deployer uses the timelock by hand up to MaxClock, when a proposal can have
\* been queued, cancels and reschedules, and gives its roles away or back.
CONSTANTS
  alice = alice
  bob = bob
  p1 = p1
  p2 = p2
  id1 = id1
  gold = gold
  silver = silver
  Account = {alice}
  Zero = Zero
  Deployer = alice
  GovernorAddress = Governor
  TimeLockAddress = TimeLock
  BlockTime = {1}
  MaxClock = 4
  LastProposal = 1
  InitialSupply = 100
  MaxSupply = 100
  Amount = {}
  Delegatee = {alice}
  OwnerTarget = {}
  Op = {p1, p2}
  MinDelay = 1
  Delay = {0, 1}
  RoleTarget = {alice}
  CertId = {id1}
  Certificate = {gold}
  NoCert = NoCert
  Proposal = {p1, p2}
  Batch <- IssueOrGiveAway
  VotingDelay = 0
  VotingPeriod = 1
  Operators = {alice}
SPECIFICATION FairSpec
PROPERTIES
  EtaRespected
  ExecutedOnce
  OnlyVotersUndoHandover
  KeepsPromise
  WinnersAreCarriedOut

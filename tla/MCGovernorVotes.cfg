\* Two holders move 96 of 100 tokens, a bare quorum apart, while one proposal
\* is voted on; one mint lifts the quorum from 4 to 7.
CONSTANTS
  alice = alice
  bob = bob
  p1 = p1
  p2 = p2
  id1 = id1
  gold = gold
  silver = silver
  Account = {alice, bob}
  Zero = Zero
  Deployer = alice
  GovernorAddress = Governor
  TimeLockAddress = TimeLock
  BlockTime = {1}
  MaxClock = 3
  LastProposal = 2
  InitialSupply = 100
  MaxSupply = 196
  Amount = {96}
  Delegatee = {alice, bob}
  OwnerTarget = {Zero}
  Op = {p1}
  MinDelay = 0
  Delay = {}
  RoleTarget = {}
  CertId = {id1}
  Certificate = {gold}
  NoCert = NoCert
  Proposal = {p1}
  Batch <- IssueAndRevoke
  VotingDelay = 0
  VotingPeriod = 1
  Operators = {}
SPECIFICATION Spec
INVARIANTS
  TypeOK
  PowerIsDelegatedBalance
  PastPowerWithinSupply
  NoTokenVotesTwice
  OnlyWinnersExecuted
PROPERTIES
  PastIsImmutable
  OutcomeIsFinal

\* Nonces for three full runs of seven transactions and one foreign one, so
\* that no run stops at the bound.
CONSTANTS
  MaxNonce = 22
  MaxRuns = 3
  MaxForeign = 1
SPECIFICATION FairDeployerSpec
INVARIANTS
  AddressesHoldOwnCode
  FinishedIsWired
  GrantsOnlyToDeployed
PROPERTY ScriptEnds
CHECK_DEADLOCK FALSE

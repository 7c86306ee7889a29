\* One undisturbed run of the script.
CONSTANTS
  MaxNonce = 7
  MaxRuns = 1
  MaxForeign = 0
SPECIFICATION DeployerSpec
INVARIANT GovernorIsGovernor
CHECK_DEADLOCK FALSE

\* Go, ethers and viem at once on one account.
CONSTANTS
  Client = {"go", "ethers", "viem"}
  Program <- OneOfEach
  MayFail = {"go", "ethers", "viem"}
  NoMessage = NoMessage
SPECIFICATION FairSpec
INVARIANTS
  ContractIsOwn
  PrintsOwn
PROPERTY ClientsEnd
CHECK_DEADLOCK FALSE

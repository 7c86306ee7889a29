--------------------------- MODULE BoundContracts ---------------------------
(***************************************************************************)
(* The contracts with Go bindings, the four of the DAO and Storage, as the *)
(* bindings know them, where they are deployed, and which of them run in a *)
(* call of another.                                                        *)
(***************************************************************************)
EXTENDS Abi

Crt == INSTANCE CertBinding
Tok == INSTANCE GovTokenBinding
Lock == INSTANCE TimeLockBinding
Gov == INSTANCE MyGovernorBinding
Sto == INSTANCE StorageBinding

DaoContract == {"Cert", "GovToken", "TimeLock", "MyGovernor"}

BoundContract == DaoContract \cup {"Storage"}

BoundMethods ==
  [Cert |-> Crt!Methods, GovToken |-> Tok!Methods,
   TimeLock |-> Lock!Methods, MyGovernor |-> Gov!Methods,
   Storage |-> Sto!Methods]

BoundEvents ==
  [Cert |-> Crt!Events, GovToken |-> Tok!Events,
   TimeLock |-> Lock!Events, MyGovernor |-> Gov!Events,
   Storage |-> {}]

BoundErrors ==
  [Cert |-> Crt!Errors, GovToken |-> Tok!Errors,
   TimeLock |-> Lock!Errors, MyGovernor |-> Gov!Errors,
   Storage |-> {}]

(***************************************************************************)
(* The governor reads voting power from the token, and looks at the        *)
(* operation of a queued proposal in the timelock; it schedules, executes  *)
(* and cancels operations there; an operation calls whatever it names.     *)
(***************************************************************************)
AsksForState ==
  {"state", "propose", "queue", "execute", "cancel", "castVote",
   "castVoteBySig", "castVoteWithReason", "castVoteWithReasonAndParams",
   "castVoteWithReasonAndParamsBySig"}

AsksForVotes == AsksForState \cup {"getVotes", "getVotesWithParams", "quorum"}

BoundReaches ==
       {"MyGovernor"} \X AsksForState \X {"TimeLock"}
  \cup {"MyGovernor"} \X AsksForVotes \X {"GovToken"}
  \cup {"MyGovernor"} \X {"execute"} \X DaoContract
  \cup {"TimeLock"} \X {"execute", "executeBatch"} \X DaoContract

(***************************************************************************)
(* Deploying a contract's bytecode with the arguments packed for some      *)
(* constructor: the constructor reads its own parameters from them, or the *)
(* deployment reverts.                                                     *)
(***************************************************************************)
BoundConstructor ==
  [Cert |-> Crt!Constructor, GovToken |-> Tok!Constructor,
   TimeLock |-> Lock!Constructor, MyGovernor |-> Gov!Constructor,
   Storage |-> <<>>]

Deployed(bytecode, packed) ==
  IF Reads(BoundConstructor[bytecode], BoundConstructor[packed]) THEN bytecode ELSE "none"

(* Every address holds what its name says, but for the governor's.         *)
Wired(governor) ==
  [token |-> Deployed("GovToken", "GovToken"), timelock |-> Deployed("TimeLock", "TimeLock"),
   cert |-> Deployed("Cert", "Cert"), governor |-> governor,
   storage |-> Deployed("Storage", "Storage")]

(* The script deploys the bytecode of Cert with the governor's arguments.  *)
DeployedByScript == Wired(Deployed("Cert", "MyGovernor"))

DeployedByTests == Wired(Deployed("MyGovernor", "MyGovernor"))

(* A script that ended before its last deployment.                         *)
DeployedInPart == Wired("none")

BoundDeployments == {DeployedByScript, DeployedByTests, DeployedInPart}
=============================================================================

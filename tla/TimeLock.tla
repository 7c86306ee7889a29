------------------------------ MODULE TimeLock ------------------------------
(***************************************************************************)
(* The timelock of the DAO, dao/lib/contracts/TimeLock.sol: it owns the    *)
(* Cert contract, so whatever the DAO decides is carried out by a batch of *)
(* calls, an operation, that was scheduled here, waited its delay and was  *)
(* then executed.  Access is by role.  The constructor gives the proposer, *)
(* canceller, executor and administrator roles to the deployer, and        *)
(* dao/cmd/contracts/deployer.go then grants the governor two of them.     *)
(***************************************************************************)
EXTENDS Chain

CONSTANTS
  Op,          \* operation ids: each is the hash of one batch of calls
  MinDelay,    \* the minimum delay in seconds it is deployed with
  Delay,       \* the delays operations are scheduled with by hand
  RoleTarget   \* the addresses whose roles are changed by hand

Role == {"DEFAULT_ADMIN", "PROPOSER", "CANCELLER", "EXECUTOR"}
Address == Account \cup {GovernorAddress, TimeLockAddress}

ASSUME TimeLockConstants ==
  /\ MinDelay \in Nat
  /\ Delay \subseteq Nat
  /\ RoleTarget \subseteq Address

VARIABLES
  timestamps,  \* [Op -> Nat]: 0 unset, 1 done, else when it becomes ready
  roles,       \* [Role -> SUBSET Address], AccessControl
  minDelay     \* _minDelay, in seconds

settings == <<roles, minDelay>>
timeLockVars == <<timestamps, settings>>

Unset == 0
Done == 1

IsPending(op) == timestamps[op] > Done
IsReady(op) == timestamps[op] > Done /\ timestamps[op] <= now
IsDone(op) == timestamps[op] = Done

Holds(who, role) == who \in roles[role]

(***************************************************************************)
(* Initially: constructor(0, [deployer], [deployer], deployer), and        *)
(* deployer.go's two grants to the governor's address.                     *)
(***************************************************************************)
TimeLockInit ==
  /\ timestamps = [op \in Op |-> Unset]
  /\ roles = [role \in Role |->
       CASE role = "DEFAULT_ADMIN" -> {TimeLockAddress, Deployer}
         [] role = "CANCELLER" -> {Deployer}
         [] OTHER -> {Deployer, GovernorAddress}]
  /\ minDelay = MinDelay

(* Mutant: an operation that was done may be scheduled anew.               *)
ScheduleAnew(caller, op, delay) ==
  /\ Holds(caller, "PROPOSER")
  /\ timestamps[op] <= Done
  /\ delay >= minDelay
  /\ timestamps' = [timestamps EXCEPT ![op] = now + delay]
  /\ UNCHANGED settings

(* Mutant: any delay will do.                                              *)
ScheduleUndelayed(caller, op, delay) ==
  /\ Holds(caller, "PROPOSER")
  /\ timestamps[op] = Unset
  /\ timestamps' = [timestamps EXCEPT ![op] = now + delay]
  /\ UNCHANGED settings

Schedule(caller, op, delay) ==
  /\ Holds(caller, "PROPOSER")
  /\ timestamps[op] = Unset
  /\ delay >= minDelay
  /\ timestamps' = [timestamps EXCEPT ![op] = now + delay]
  /\ UNCHANGED settings

CancelOperation(caller, op) ==
  /\ Holds(caller, "CANCELLER")
  /\ IsPending(op)
  /\ timestamps' = [timestamps EXCEPT ![op] = Unset]
  /\ UNCHANGED settings

(* The timelock's own part of executing: the call, which may come back to  *)
(* the timelock's settings, is the composition's.                          *)
MarkExecuted(caller, op) ==
  /\ Holds(caller, "EXECUTOR")
  /\ IsReady(op)
  /\ timestamps' = [timestamps EXCEPT ![op] = Done]

(* Mutant: anybody may hand out roles.                                     *)
GrantRoleUnchecked(caller, role, to) ==
  /\ roles' = [roles EXCEPT ![role] = @ \cup {to}]
  /\ UNCHANGED minDelay

GrantRole(caller, role, to) ==
  /\ Holds(caller, "DEFAULT_ADMIN")
  /\ roles' = [roles EXCEPT ![role] = @ \cup {to}]
  /\ UNCHANGED minDelay

RevokeRole(caller, role, from) ==
  /\ Holds(caller, "DEFAULT_ADMIN")
  /\ roles' = [roles EXCEPT ![role] = @ \ {from}]
  /\ UNCHANGED minDelay

RenounceRole(caller, role) ==
  /\ roles' = [roles EXCEPT ![role] = @ \ {caller}]
  /\ UNCHANGED minDelay

(* The delay is the timelock's own to change, by an operation.             *)
UpdateDelay(caller, delay) ==
  /\ caller = TimeLockAddress
  /\ minDelay' = delay
  /\ UNCHANGED roles

(* What accounts may do with the roles; the timelock does the like when an *)
(* operation has it do so.                                                 *)
RoleStep ==
  /\ \/ \E caller \in Account, role \in Role, who \in RoleTarget :
          GrantRole(caller, role, who) \/ RevokeRole(caller, role, who)
     \/ \E caller \in Account \cap RoleTarget, role \in Role :
          RenounceRole(caller, role)
  /\ UNCHANGED timestamps

(* Every variable of the timelock has the type its contract declares.      *)
TimeLockTypeOK ==
  /\ timestamps \in [Op -> Nat]
  /\ roles \in [Role -> SUBSET Address]
  /\ minDelay \in Nat

(* Only the governor can propose, cancel or execute, and only the timelock *)
(* itself can change that: nobody acts on the timelock beside the vote.    *)
HandedOver ==
  /\ roles["DEFAULT_ADMIN"] \subseteq {TimeLockAddress}
  /\ \A role \in Role \ {"DEFAULT_ADMIN"} : roles[role] \subseteq {GovernorAddress}
=============================================================================

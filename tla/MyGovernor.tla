------------------------------ MODULE MyGovernor ------------------------------
(***************************************************************************)
(* The DAO: the governor of dao/lib/contracts/MyGovernor.sol composed with *)
(* the token that gives its voters their power, the timelock through which *)
(* it acts, and the certificates it issues.  The steps are the external    *)
(* functions of the four contracts, called by any account at any time, and *)
(* the passing of blocks.                                                  *)
(*                                                                         *)
(* A proposal's id is the hash of its calls and its description, and the   *)
(* timelock operation it is queued as is the hash of the same calls with a *)
(* salt made from that description.  Each is determined by the other and   *)
(* anyone can compute both, so proposals and operations share their names: *)
(* an account with a timelock role can schedule, cancel or execute by hand *)
(* the very operation a proposal is about.                                 *)
(***************************************************************************)
EXTENDS GovToken, TimeLock, Cert

CONSTANTS
  Proposal,      \* the proposals, each with the operation it becomes
  Batch,         \* [Op -> what its calls do]: one call at most to the
                 \* certificates, one at most of the timelock to itself
  VotingDelay,   \* blocks from proposing to the snapshot, 10
  VotingPeriod,  \* blocks from the snapshot to the deadline, 100
  Operators,     \* accounts that use the timelock by hand
  LastProposal   \* bound: the last block in which a proposal is made

NoCall == [kind : {"none"}]
IssueCall == [kind : {"issue"}, id : CertId, certificate : Certificate]
OwnerCall == [kind : {"transferOwnership"}, to : Account \cup {Zero}]
RoleCall == [kind : {"grantRole", "revokeRole"}, role : Role, who : Address]
DelayCall == [kind : {"updateDelay"}, delay : Nat]
CertCall == IssueCall \cup OwnerCall \cup NoCall
SelfCall == RoleCall \cup DelayCall \cup NoCall

ASSUME GovernorConstants ==
  /\ Proposal \subseteq Op
  /\ Batch \in [Op -> [cert : CertCall, self : SelfCall]]
  /\ VotingDelay \in Nat
  /\ VotingPeriod \in Nat \ {0}
  /\ Operators \subseteq Account
  /\ LastProposal \in Nat

Support == {"against", "for", "abstain"}

VARIABLES
  proposer,   \* [Proposal -> Account or Zero]
  voteStart,  \* [Proposal -> Nat]: the snapshot block, 0 if never proposed
  canceled,   \* [Proposal -> BOOLEAN]
  executed,   \* [Proposal -> BOOLEAN]
  eta,        \* [Proposal -> Nat]: 0 until queued
  tally,      \* [Proposal -> [Support -> Nat]]
  hasVoted    \* [Proposal -> SUBSET Account]

ballotVars == <<tally, hasVoted>>
proposalVars == <<proposer, voteStart, canceled, executed, eta>>
governorVars == <<proposalVars, ballotVars>>
vars == <<chainVars, tokenVars, timeLockVars, certVars, governorVars>>

-----------------------------------------------------------------------------
(* Where a proposal stands.                                                *)

Deadline(p) == voteStart[p] + VotingPeriod

(* Mutant: the supply of the moment decides.                               *)
QuorumOfNow(block) == (supply * 4) \div 100

Quorum(block) == (past[block].supply * 4) \div 100

QuorumReached(p) == tally[p]["for"] + tally[p]["abstain"] >= Quorum(voteStart[p])

VoteSucceeded(p) == tally[p]["for"] > tally[p]["against"]

Won(p) == QuorumReached(p) /\ VoteSucceeded(p)

(* Governor.state, its conditions in the order they are asked.             *)
VoteState(p) ==
  IF executed[p] THEN "Executed"
  ELSE IF canceled[p] THEN "Canceled"
  ELSE IF voteStart[p] = 0 THEN "Nonexistent"
  ELSE IF voteStart[p] >= clock THEN "Pending"
  ELSE IF Deadline(p) >= clock THEN "Active"
  ELSE IF ~Won(p) THEN "Defeated"
  ELSE IF eta[p] = 0 THEN "Succeeded" ELSE "Queued"

(* Mutant: the state asks for more votes for than against, and no more.    *)
StateWithoutQuorum(p) ==
  IF VoteState(p) = "Defeated" /\ VoteSucceeded(p) THEN "Succeeded"
  ELSE VoteState(p)

(* The timelock has the last word about a proposal that was queued.        *)
State(p) ==
  IF VoteState(p) # "Queued" THEN VoteState(p)
  ELSE IF IsPending(p) THEN "Queued"
  ELSE IF IsDone(p) THEN "Executed"
  ELSE "Canceled"

-----------------------------------------------------------------------------
(* The governor's functions.                                               *)

Propose(caller, p) ==
  /\ voteStart[p] = 0
  /\ voteStart' = [voteStart EXCEPT ![p] = clock + VotingDelay]
  /\ proposer' = [proposer EXCEPT ![p] = caller]
  /\ UNCHANGED <<canceled, executed, eta, ballotVars>>

(* A proposal is withdrawn by its proposer, and before its vote opens.     *)
Cancel(caller, p) ==
  /\ State(p) = "Pending"
  /\ caller = proposer[p]
  /\ canceled' = [canceled EXCEPT ![p] = TRUE]
  /\ UNCHANGED <<proposer, voteStart, executed, eta, ballotVars>>

Count(p, voter, support, weight) ==
  /\ tally' = [tally EXCEPT ![p][support] = @ + weight]
  /\ hasVoted' = [hasVoted EXCEPT ![p] = @ \cup {voter}]
  /\ UNCHANGED proposalVars

(* Mutant: the power of the moment is counted.                             *)
CastVoteWithVotesOfNow(voter, p, support) ==
  /\ State(p) = "Active"
  /\ voter \notin hasVoted[p]
  /\ Count(p, voter, support, votes[voter])

CastVote(voter, p, support) ==
  /\ State(p) = "Active"
  /\ voter \notin hasVoted[p]
  /\ Count(p, voter, support, past[voteStart[p]].votes[voter])

(* Mutant: the batch is never scheduled.                                   *)
QueueUnscheduled(p) ==
  /\ State(p) = "Succeeded"
  /\ eta' = [eta EXCEPT ![p] = now + minDelay]
  /\ UNCHANGED <<proposer, voteStart, canceled, executed, ballotVars, timeLockVars>>

(* queue: _queueOperations schedules the batch and the time is remembered. *)
Queue(p) ==
  /\ State(p) = "Succeeded"
  /\ Schedule(GovernorAddress, p, minDelay)
  /\ eta' = [eta EXCEPT ![p] = now + minDelay]
  /\ UNCHANGED <<proposer, voteStart, canceled, executed, ballotVars>>

(* The calls of an operation, made by the timelock: to the certificates    *)
(* it owns and to itself, which is its own administrator.  Neither touches *)
(* what the other does, so their order does not matter.  If one reverts so *)
(* does the whole transaction.                                             *)
CallCert(call) ==
  \/ call.kind = "none" /\ UNCHANGED certVars
  \/ call.kind = "issue" /\ Issue(TimeLockAddress, call.id, call.certificate)
  \/ call.kind = "transferOwnership" /\ TransferCertOwnership(TimeLockAddress, call.to)

CallSelf(call) ==
  \/ call.kind = "none" /\ UNCHANGED settings
  \/ call.kind = "grantRole" /\ GrantRole(TimeLockAddress, call.role, call.who)
  \/ call.kind = "revokeRole" /\ RevokeRole(TimeLockAddress, call.role, call.who)
  \/ call.kind = "updateDelay" /\ UpdateDelay(TimeLockAddress, call.delay)

MakeCalls(op) == CallCert(Batch[op].cert) /\ CallSelf(Batch[op].self)

(* execute: _executeOperations has the timelock run the batch.             *)
Execute(p) ==
  /\ State(p) \in {"Succeeded", "Queued"}
  /\ MarkExecuted(GovernorAddress, p)
  /\ MakeCalls(p)
  /\ executed' = [executed EXCEPT ![p] = TRUE]
  /\ UNCHANGED <<proposer, voteStart, canceled, eta, ballotVars>>

-----------------------------------------------------------------------------
(* The timelock used by hand, beside the governor.                         *)

ExecuteByHand(caller, op) ==
  /\ MarkExecuted(caller, op)
  /\ MakeCalls(op)

ByHand ==
  \E caller \in Operators, op \in Op :
    \/ \E delay \in Delay : clock <= MaxClock /\ Schedule(caller, op, delay) /\ UNCHANGED certVars
    \/ CancelOperation(caller, op) /\ UNCHANGED certVars
    \/ ExecuteByHand(caller, op)

-----------------------------------------------------------------------------
Init == ChainInit /\ TokenInit /\ TimeLockInit /\ CertInit
        /\ proposer = [p \in Proposal |-> Zero]
        /\ voteStart = [p \in Proposal |-> 0]
        /\ canceled = [p \in Proposal |-> FALSE]
        /\ executed = [p \in Proposal |-> FALSE]
        /\ eta = [p \in Proposal |-> 0]
        /\ tally = [p \in Proposal |-> [s \in Support |-> 0]]
        /\ hasVoted = [p \in Proposal |-> {}]

(* Blocks pass up to MaxClock, and then for as long as an operation waits. *)
Mine ==
  /\ clock < MaxClock \/ \E op \in Op : now < timestamps[op]
  /\ NextBlock
  /\ Seal
  /\ UNCHANGED <<timeLockVars, certVars, governorVars>>

(* Calls that reach the governor's proposals alone, or its proposals and   *)
(* the two contracts it acts on.                                           *)
Vote(p) ==
  /\ \/ clock <= LastProposal /\ \E caller \in Account : Propose(caller, p)
     \/ \E caller \in Account : Cancel(caller, p)
     \/ \E voter \in Account, support \in Support : CastVote(voter, p, support)
  /\ UNCHANGED <<chainVars, tokenVars, timeLockVars, certVars>>

QueueStep(p) == Queue(p) /\ UNCHANGED <<chainVars, tokenVars, certVars>>

ExecuteStep(p) == Execute(p) /\ UNCHANGED <<chainVars, tokenVars>>

Next ==
  \/ Mine
  \/ \E p \in Proposal : Vote(p) \/ QueueStep(p) \/ ExecuteStep(p)
  \/ ByHand /\ UNCHANGED <<chainVars, tokenVars, governorVars>>
  \/ RoleStep /\ UNCHANGED <<chainVars, tokenVars, certVars, governorVars>>
  \/ CertStep /\ UNCHANGED <<chainVars, tokenVars, timeLockVars, governorVars>>
  \/ TokenStep /\ UNCHANGED <<chainVars, timeLockVars, certVars, governorVars>>

Spec == Init /\ [][Next]_vars

(* Blocks keep being mined, and someone keeps calling queue and execute:   *)
(* both are open to everybody, and the lifecycle test in                   *)
(* dao/lib/tests/MyGovernor_test.go calls them as soon as they can succeed. *)
FairSpec ==
  /\ Spec
  /\ WF_vars(Mine)
  /\ \A p \in Proposal : WF_vars(QueueStep(p)) /\ WF_vars(ExecuteStep(p))

-----------------------------------------------------------------------------
(* The variables of all four contracts have their types.                   *)
GovernorTypeOK ==
  /\ proposer \in [Proposal -> Account \cup {Zero}]
  /\ voteStart \in [Proposal -> Nat]
  /\ canceled \in [Proposal -> BOOLEAN]
  /\ executed \in [Proposal -> BOOLEAN]
  /\ eta \in [Proposal -> Nat]
  /\ tally \in [Proposal -> [Support -> Nat]]
  /\ hasVoted \in [Proposal -> SUBSET Account]

TypeOK ==
  ChainTypeOK /\ TokenTypeOK /\ TimeLockTypeOK /\ CertTypeOK /\ GovernorTypeOK

Decided(p) == voteStart[p] # 0 /\ Deadline(p) < clock

TotalVotes(p) == tally[p]["for"] + tally[p]["against"] + tally[p]["abstain"]

(* Every ballot weighs what its voter had at the snapshot, each voter is   *)
(* counted once, and so all ballots together never outweigh the supply of  *)
(* the snapshot, however tokens and delegations move while the vote is     *)
(* open (castVote reads the power at the proposal's snapshot).             *)
NoTokenVotesTwice ==
  \A p \in Proposal : voteStart[p] # 0 /\ voteStart[p] < clock =>
    /\ TotalVotes(p) = SumFunctionOnSet(past[voteStart[p]].votes, hasVoted[p])
    /\ TotalVotes(p) <= past[voteStart[p]].supply

(* What the governor executed had been decided, and won: quorum at the     *)
(* snapshot and more votes for than against.  It still counts as won ever  *)
(* after (execute requires the state Succeeded or Queued).                 *)
OnlyWinnersExecuted ==
  \A p \in Proposal : executed[p] => Decided(p) /\ Won(p)

(* The outcome of a vote is final when its deadline has passed: no later   *)
(* ballot, transfer, mint or change of delegate turns it.                  *)
OutcomeIsFinal ==
  [][\A p \in Proposal : Decided(p) => Decided(p)' /\ (Won(p)' <=> Won(p))]_vars

NotBeforeEta == \A p \in Proposal : executed[p] /\ eta[p] # 0 => eta[p] <= now

DelayAsDeployed == minDelay = MinDelay

(* As long as no operation changes the timelock's delay, a proposal that   *)
(* went through the queue is carried out no earlier than the time it was   *)
(* announced for, even when someone cancels its operation in the timelock  *)
(* and schedules it again.  (execute asks the timelock and not the eta:    *)
(* under a delay lowered meanwhile the new operation may be ready first.)  *)
EtaRespected == []DelayAsDeployed => []NotBeforeEta

(* An operation runs at most once: whoever executes it, by hand or through *)
(* the governor, nobody can schedule or execute it again.                  *)
ExecutedOnce ==
  [][\A op \in Op : IsDone(op) => IsDone(op)']_vars

(* Once every role but the governor's is given up, only the voters can     *)
(* give one back: by a proposal that grants it, that has won its vote, and *)
(* that the governor executes in this very step.                           *)
OnlyVotersUndoHandover ==
  [][HandedOver /\ ~HandedOver' =>
       \E p \in Proposal : /\ Batch[p].self.kind = "grantRole"
                           /\ Decided(p) /\ Won(p)
                           /\ ~executed[p] /\ executed'[p]]_vars

(* Only votes decide on certificates.                                      *)
Sovereign == HandedOver /\ certOwner = TimeLockAddress

Promise == INSTANCE CertGovernance WITH
  stage <- [p \in Proposal |-> State(p)], sovereign <- Sovereign

(* The contracts keep the promise of CertGovernance: proposals pass their  *)
(* stages in order, and a sovereign DAO writes a certificate exactly when  *)
(* a proposal that won is carried out.                                     *)
KeepsPromise == Promise!PromiseSpec

(* The timelock is still allowed what the calls ask of it.                 *)
Allowed(batch) ==
  /\ batch.cert.kind # "none" => certOwner = TimeLockAddress
  /\ batch.self.kind \in {"grantRole", "revokeRole"} => Holds(TimeLockAddress, "DEFAULT_ADMIN")

(* A proposal can be carried out through the governor as long as nobody    *)
(* acts beside it, it has its roles, the operation was not run by hand,    *)
(* and the timelock is allowed to make the calls.                          *)
Executable(p) ==
  /\ HandedOver
  /\ \A role \in {"PROPOSER", "EXECUTOR"} : Holds(GovernorAddress, role)
  /\ ~IsDone(p)
  /\ Allowed(Batch[p])

(* A proposal that has won when everything is handed over, or wins later,  *)
(* is executed, whatever the deployer did to its operation before, unless  *)
(* it was run by hand or an earlier proposal took away what it needs: the  *)
(* certificates, the timelock's or the governor's roles, or the handover.  *)
WinnersAreCarriedOut ==
  \A p \in Proposal :
    State(p) = "Succeeded" /\ HandedOver ~> State(p) = "Executed" \/ ~Executable(p)
=============================================================================

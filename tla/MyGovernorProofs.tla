--------------------------- MODULE MyGovernorProofs ---------------------------
(***************************************************************************)
(* Proofs about the DAO for any accounts, amounts, proposals, delays and   *)
(* voting periods.                                                         *)
(***************************************************************************)
EXTENDS MyGovernor, FiniteSums

(* Every past block answers with a supply and a power for each account.    *)
LEMMA PastSnapshots ==
  ASSUME TypeOK
  PROVE  /\ clock \in Nat
         /\ \A t \in 0 .. clock - 1 : past[t] \in Snapshot
  BY DEF TypeOK, ChainTypeOK, TokenTypeOK

(* What moves is neither created nor made negative.                        *)
LEMMA MovedType ==
  ASSUME NEW f \in [Account -> Nat], NEW src \in Account \cup {Zero},
         NEW dst \in Account \cup {Zero}, NEW amount \in Nat,
         Covers(f, src, dst, amount)
  PROVE  Moved(f, src, dst, amount) \in [Account -> Nat]
  BY ChainConstants DEF Moved, Covers

LEMMA InitTypeOK == Init => TypeOK
  <1> SUFFICES ASSUME Init PROVE TypeOK
    OBVIOUS
  <1> USE ChainConstants, TokenConstants, TimeLockConstants, CertConstants, GovernorConstants DEF Init
  <1>1. ChainTypeOK
    BY DEF ChainInit, ChainTypeOK
  <1>2. TokenTypeOK
    BY DEF ChainInit, TokenInit, TokenTypeOK, Snapshot
  <1>3. TimeLockTypeOK
    BY DEF TimeLockInit, TimeLockTypeOK, Unset, Role, Address
  <1>4. CertTypeOK
    BY DEF CertInit, CertTypeOK
  <1>5. GovernorTypeOK
    BY DEF GovernorTypeOK, Support
  <1> QED BY <1>1, <1>2, <1>3, <1>4, <1>5 DEF TypeOK

(* _update keeps balances, supply and voting power in their types.         *)
LEMMA UpdateType ==
  ASSUME TokenTypeOK, NEW from \in Account \cup {Zero}, NEW to \in Account,
         NEW amount \in Nat, Update(from, to, amount)
  PROVE  /\ balance' \in [Account -> Nat]
         /\ supply' \in 0 .. MaxSupply
         /\ votes' \in [Account -> Nat]
  <1> USE ChainConstants, TokenConstants DEF TokenTypeOK, Update
  <1>1. balance' \in [Account -> Nat]
    BY MovedType, Covers(balance, from, to, amount) DEF Covers
  <1>2. supply' \in 0 .. MaxSupply
    OBVIOUS
  <1>3. Delegates(from) \in Account \cup {Zero} /\ Delegates(to) \in Account \cup {Zero}
    BY DEF Delegates
  <1>4. votes' \in [Account -> Nat]
    BY <1>3, MovedType
  <1> QED BY <1>1, <1>2, <1>4

(* Every function of the token keeps the token's variables in their types. *)
LEMMA TokenStepType ==
  ASSUME TokenTypeOK, TokenStep, UNCHANGED chainVars
  PROVE  TokenTypeOK'
  <1> USE ChainConstants, TokenConstants DEF TokenTypeOK, chainVars
  <1>1. ASSUME NEW from \in Account, NEW to \in Account, NEW amount \in Amount,
               Transfer(from, to, amount)
        PROVE  TokenTypeOK'
    BY <1>1, UpdateType DEF Transfer
  <1>2. ASSUME NEW caller \in Account, NEW to \in Account, NEW amount \in Amount,
               Mint(caller, to, amount)
        PROVE  TokenTypeOK'
    BY <1>2, UpdateType DEF Mint
  <1>3. ASSUME NEW caller \in Account, NEW to \in Delegatee, Delegate(caller, to)
        PROVE  TokenTypeOK'
    <2>1. Delegates(caller) \in Account \cup {Zero} /\ balance[caller] \in Nat
      BY DEF Delegates
    <2>2. votes' \in [Account -> Nat]
      BY <1>3, <2>1, MovedType DEF Delegate
    <2>3. delegatee' \in [Account -> Account \cup {Zero}]
      BY <1>3 DEF Delegate
    <2> QED BY <1>3, <2>2, <2>3 DEF Delegate
  <1>4. ASSUME NEW caller \in Account, NEW to \in OwnerTarget,
               TransferTokenOwnership(caller, to)
        PROVE  TokenTypeOK'
    BY <1>4 DEF TransferTokenOwnership, holdings
  <1> QED BY <1>1, <1>2, <1>3, <1>4 DEF TokenStep

(* Sealing a block extends the past by one snapshot.                       *)
LEMMA SealType ==
  ASSUME ChainTypeOK, TokenTypeOK, NextBlock, Seal
  PROVE  ChainTypeOK' /\ TokenTypeOK'
  <1>1. ChainTypeOK'
    BY ChainConstants DEF ChainTypeOK, NextBlock
  <1>2. Now \in Snapshot
    BY TokenConstants DEF TokenTypeOK, Now, Snapshot
  <1>3. past' \in [0 .. clock' - 1 -> Snapshot]
    BY <1>2 DEF ChainTypeOK, TokenTypeOK, NextBlock, Seal
  <1> QED BY <1>1, <1>3 DEF TokenTypeOK, Seal, holdings

LEMMA ScheduleType ==
  ASSUME ChainTypeOK, TimeLockTypeOK, NEW caller, NEW op \in Op, NEW delay \in Nat,
         Schedule(caller, op, delay)
  PROVE  TimeLockTypeOK'
  <1>1. now + delay \in Nat
    BY DEF ChainTypeOK
  <1> QED BY <1>1 DEF TimeLockTypeOK, Schedule, settings

LEMMA CancelOperationType ==
  ASSUME TimeLockTypeOK, NEW caller, NEW op, CancelOperation(caller, op)
  PROVE  TimeLockTypeOK'
  BY DEF TimeLockTypeOK, CancelOperation, Unset, settings

LEMMA RoleStepType ==
  ASSUME TimeLockTypeOK, RoleStep
  PROVE  TimeLockTypeOK'
  BY TimeLockConstants
     DEF TimeLockTypeOK, RoleStep, GrantRole, RevokeRole, RenounceRole

LEMMA CertStepType ==
  ASSUME CertTypeOK, CertStep
  PROVE  CertTypeOK'
  BY DEF CertTypeOK, CertStep, Issue, TransferCertOwnership

(* What an operation writes has the type of what it is written to.         *)
LEMMA BatchType ==
  ASSUME NEW op \in Op
  PROVE  /\ Batch[op].cert \in CertCall /\ Batch[op].self \in SelfCall
         /\ Batch[op].cert.kind = "issue" =>
              Batch[op].cert.id \in CertId /\ Batch[op].cert.certificate \in Certificate
         /\ Batch[op].cert.kind = "transferOwnership" => Batch[op].cert.to \in Account \cup {Zero}
         /\ Batch[op].self.kind \in {"grantRole", "revokeRole"} =>
              Batch[op].self.role \in Role /\ Batch[op].self.who \in Address
         /\ Batch[op].self.kind = "updateDelay" => Batch[op].self.delay \in Nat
  <1>1. Batch[op].cert \in CertCall /\ Batch[op].self \in SelfCall
    BY GovernorConstants
  <1> QED BY <1>1 DEF CertCall, SelfCall, IssueCall, OwnerCall, RoleCall, DelayCall, NoCall

(* Executing an operation, its calls included.                             *)
LEMMA RunType ==
  ASSUME TimeLockTypeOK, CertTypeOK, NEW caller, NEW op \in Op,
         MarkExecuted(caller, op), MakeCalls(op)
  PROVE  TimeLockTypeOK' /\ CertTypeOK'
  <1> DEFINE cert == Batch[op].cert  self == Batch[op].self
  <1>1. CertTypeOK'
    <2>1. CASE UNCHANGED certVars
      BY <2>1 DEF CertTypeOK, certVars
    <2>2. CASE cert.kind = "issue" /\ Issue(TimeLockAddress, cert.id, cert.certificate)
      BY <2>2, BatchType DEF CertTypeOK, Issue
    <2>3. CASE cert.kind = "transferOwnership" /\ TransferCertOwnership(TimeLockAddress, cert.to)
      BY <2>3, BatchType DEF CertTypeOK, TransferCertOwnership
    <2> QED BY <2>1, <2>2, <2>3 DEF MakeCalls, CallCert
  <1>2. timestamps' \in [Op -> Nat]
    BY DEF TimeLockTypeOK, MarkExecuted, Done
  <1>3. roles' \in [Role -> SUBSET Address] /\ minDelay' \in Nat
    <2>1. CASE UNCHANGED settings
      BY <2>1 DEF TimeLockTypeOK, settings
    <2>2. CASE self.kind = "grantRole" /\ GrantRole(TimeLockAddress, self.role, self.who)
      BY <2>2, BatchType DEF TimeLockTypeOK, GrantRole
    <2>3. CASE self.kind = "revokeRole" /\ RevokeRole(TimeLockAddress, self.role, self.who)
      BY <2>3 DEF TimeLockTypeOK, RevokeRole
    <2>4. CASE self.kind = "updateDelay" /\ UpdateDelay(TimeLockAddress, self.delay)
      BY <2>4, BatchType DEF TimeLockTypeOK, UpdateDelay
    <2> QED BY <2>1, <2>2, <2>3, <2>4 DEF MakeCalls, CallSelf
  <1> QED BY <1>1, <1>2, <1>3 DEF TimeLockTypeOK

(* A proposal is voted on against a block of the past.                     *)
LEMMA ActiveVoteStart ==
  ASSUME TypeOK, NEW p \in Proposal, State(p) = "Active"
  PROVE  /\ voteStart[p] \in 0 .. clock - 1
         /\ voteStart[p] # 0
         /\ clock <= Deadline(p)
         /\ ~executed[p] /\ ~canceled[p]
  <1>1. VoteState(p) = "Active"
    BY DEF State
  <1> QED BY <1>1, GovernorConstants
             DEF VoteState, Deadline, TypeOK, GovernorTypeOK, ChainTypeOK

LEMMA VoteType ==
  ASSUME TypeOK, NEW p \in Proposal, Vote(p)
  PROVE  GovernorTypeOK'
  <1> USE GovernorConstants DEF GovernorTypeOK, ballotVars, proposalVars
  <1>1. clock \in Nat
    BY DEF TypeOK, ChainTypeOK
  <1>2. ASSUME NEW caller \in Account, Propose(caller, p)
        PROVE  GovernorTypeOK'
    BY <1>1, <1>2 DEF Propose, TypeOK
  <1>3. ASSUME NEW caller \in Account, Cancel(caller, p)
        PROVE  GovernorTypeOK'
    BY <1>3 DEF Cancel, TypeOK
  <1>4. ASSUME NEW voter \in Account, NEW support \in Support,
               CastVote(voter, p, support)
        PROVE  GovernorTypeOK'
    <2>1. past[voteStart[p]] \in Snapshot
      BY <1>4, ActiveVoteStart, PastSnapshots DEF CastVote
    <2>2. PICK weight \in Nat : Count(p, voter, support, weight)
      BY <1>4, <2>1 DEF CastVote, Snapshot
    <2> QED BY <2>2 DEF Count, TypeOK
  <1> QED BY <1>2, <1>3, <1>4 DEF Vote

(* queue and execute keep the proposals and the timelock in their types.   *)
LEMMA QueueType ==
  ASSUME TypeOK, NEW p \in Proposal, Queue(p)
  PROVE  TimeLockTypeOK' /\ GovernorTypeOK'
  <1> USE TimeLockConstants, GovernorConstants
  <1>0. minDelay \in Nat
    BY DEF TypeOK, TimeLockTypeOK
  <1>1. TimeLockTypeOK'
    BY <1>0, ScheduleType DEF Queue, TypeOK
  <1>2. now + minDelay \in Nat
    BY <1>0 DEF TypeOK, ChainTypeOK
  <1>3. GovernorTypeOK'
    BY <1>2 DEF Queue, TypeOK, GovernorTypeOK, ballotVars
  <1> QED BY <1>1, <1>3

LEMMA ExecuteType ==
  ASSUME TypeOK, NEW p \in Proposal, Execute(p)
  PROVE  TimeLockTypeOK' /\ CertTypeOK' /\ GovernorTypeOK'
  <1>1. TimeLockTypeOK' /\ CertTypeOK'
    BY RunType, GovernorConstants DEF Execute, TypeOK
  <1>2. GovernorTypeOK'
    BY DEF Execute, TypeOK, GovernorTypeOK, ballotVars
  <1> QED BY <1>1, <1>2

LEMMA ByHandType ==
  ASSUME TypeOK, ByHand
  PROVE  TimeLockTypeOK' /\ CertTypeOK'
  <1> USE DEF TypeOK
  <1> PICK caller \in Operators, op \in Op :
        \/ \E delay \in Delay : Schedule(caller, op, delay) /\ UNCHANGED certVars
        \/ CancelOperation(caller, op) /\ UNCHANGED certVars
        \/ ExecuteByHand(caller, op)
    BY DEF ByHand
  <1>1. ASSUME NEW delay \in Delay, Schedule(caller, op, delay), UNCHANGED certVars
        PROVE  TimeLockTypeOK' /\ CertTypeOK'
    BY <1>1, ScheduleType, TimeLockConstants DEF CertTypeOK, certVars
  <1>2. CASE CancelOperation(caller, op) /\ UNCHANGED certVars
    BY <1>2, CancelOperationType DEF CertTypeOK, certVars
  <1>3. CASE ExecuteByHand(caller, op)
    BY <1>3, RunType DEF ExecuteByHand
  <1> QED BY <1>1, <1>2, <1>3

(* The parts of the state a step leaves alone keep their types.            *)
LEMMA UnchangedType ==
  /\ ChainTypeOK /\ UNCHANGED chainVars => ChainTypeOK'
  /\ ChainTypeOK /\ TokenTypeOK /\ UNCHANGED <<chainVars, tokenVars>> => TokenTypeOK'
  /\ TimeLockTypeOK /\ UNCHANGED timeLockVars => TimeLockTypeOK'
  /\ CertTypeOK /\ UNCHANGED certVars => CertTypeOK'
  /\ GovernorTypeOK /\ UNCHANGED governorVars => GovernorTypeOK'
  BY DEF ChainTypeOK, chainVars, TokenTypeOK, tokenVars, holdings,
         TimeLockTypeOK, timeLockVars, settings, CertTypeOK, certVars,
         GovernorTypeOK, governorVars, proposalVars, ballotVars

LEMMA StepTypeOK == TypeOK /\ [Next]_vars => TypeOK'
  <1> SUFFICES ASSUME TypeOK, [Next]_vars PROVE TypeOK'
    OBVIOUS
  <1> USE UnchangedType DEF TypeOK
  <1>1. CASE Mine
    BY <1>1, SealType DEF Mine
  <1>2. ASSUME NEW p \in Proposal, Vote(p) PROVE TypeOK'
    BY <1>2, VoteType DEF Vote
  <1>3. ASSUME NEW p \in Proposal, QueueStep(p) PROVE TypeOK'
    BY <1>3, QueueType DEF QueueStep
  <1>4. ASSUME NEW p \in Proposal, ExecuteStep(p) PROVE TypeOK'
    BY <1>4, ExecuteType DEF ExecuteStep
  <1>5. CASE ByHand /\ UNCHANGED <<chainVars, tokenVars, governorVars>>
    BY <1>5, ByHandType
  <1>6. CASE RoleStep /\ UNCHANGED <<chainVars, tokenVars, certVars, governorVars>>
    BY <1>6, RoleStepType
  <1>7. CASE CertStep /\ UNCHANGED <<chainVars, tokenVars, timeLockVars, governorVars>>
    BY <1>7, CertStepType
  <1>8. CASE TokenStep /\ UNCHANGED <<chainVars, timeLockVars, certVars, governorVars>>
    BY <1>8, TokenStepType
  <1>9. CASE UNCHANGED vars
    BY <1>9 DEF vars
  <1> QED BY <1>1, <1>2, <1>3, <1>4, <1>5, <1>6, <1>7, <1>8, <1>9 DEF Next

(* Every variable of the four contracts always has its declared type; no   *)
(* balance, tally or voting power underflows.                              *)
THEOREM TypeCorrect == Spec => []TypeOK
  BY InitTypeOK, StepTypeOK, PTL DEF Spec

-----------------------------------------------------------------------------
(* What a step can do to a proposal whose vote is over.                    *)
LEMMA DecidedFrame ==
  ASSUME TypeOK, [Next]_vars, NEW p \in Proposal, Decided(p)
  PROVE  /\ voteStart'[p] = voteStart[p]
         /\ tally'[p] = tally[p]
         /\ past'[voteStart[p]] = past[voteStart[p]]
         /\ clock <= clock' /\ clock' \in Nat
  <1> USE DEF Decided
  <1>1. /\ voteStart \in [Proposal -> Nat]
        /\ tally \in [Proposal -> [Support -> Nat]]
        /\ clock \in Nat
        /\ voteStart[p] \in 0 .. clock - 1
        /\ VotingPeriod \in Nat
    BY GovernorConstants DEF TypeOK, GovernorTypeOK, ChainTypeOK, Deadline
  <1>2. CASE Mine
    BY <1>1, <1>2 DEF Mine, NextBlock, Seal, governorVars, proposalVars, ballotVars
  <1>3. ASSUME NEW q \in Proposal, Vote(q)
        PROVE  UNCHANGED <<chainVars, tokenVars>> /\ voteStart'[p] = voteStart[p] /\ tally'[p] = tally[p]
    <2>1. CASE \E caller \in Account : Propose(caller, q)
      BY <1>1, <1>3, <2>1 DEF Vote, Propose, ballotVars
    <2>2. CASE \E caller \in Account : Cancel(caller, q)
      BY <1>3, <2>2 DEF Vote, Cancel, ballotVars
    <2>3. ASSUME NEW voter \in Account, NEW support \in Support, CastVote(voter, q, support)
          PROVE  voteStart' = voteStart /\ tally'[p] = tally[p]
      <3>1. q # p
        BY <1>1, <2>3, ActiveVoteStart DEF CastVote, Deadline
      <3> QED BY <1>1, <2>3, <3>1 DEF CastVote, Count, proposalVars
    <2> QED BY <1>3, <2>1, <2>2, <2>3 DEF Vote
  <1>4. ASSUME UNCHANGED <<chainVars, tokenVars, voteStart, tally>>
        PROVE  /\ voteStart'[p] = voteStart[p]
               /\ tally'[p] = tally[p]
               /\ past'[voteStart[p]] = past[voteStart[p]]
               /\ clock <= clock' /\ clock' \in Nat
    BY <1>1, <1>4 DEF chainVars, tokenVars
  <1>5. ASSUME NEW q \in Proposal, QueueStep(q) \/ ExecuteStep(q)
        PROVE  UNCHANGED <<chainVars, tokenVars, voteStart, tally>>
    BY <1>5 DEF QueueStep, Queue, ExecuteStep, Execute, ballotVars
  <1>6. CASE ByHand /\ UNCHANGED <<chainVars, tokenVars, governorVars>>
    BY <1>4, <1>6 DEF governorVars, proposalVars, ballotVars
  <1>7. CASE RoleStep /\ UNCHANGED <<chainVars, tokenVars, certVars, governorVars>>
    BY <1>4, <1>7 DEF governorVars, proposalVars, ballotVars
  <1>8. CASE CertStep /\ UNCHANGED <<chainVars, tokenVars, timeLockVars, governorVars>>
    BY <1>4, <1>8 DEF governorVars, proposalVars, ballotVars
  <1>9. CASE TokenStep /\ UNCHANGED <<chainVars, timeLockVars, certVars, governorVars>>
    <2>1. past' = past
      BY <1>9 DEF TokenStep, Transfer, Mint, Delegate, TransferTokenOwnership
    <2> QED BY <1>1, <1>9, <2>1 DEF governorVars, proposalVars, ballotVars, chainVars
  <1>10. CASE UNCHANGED vars
    BY <1>4, <1>10 DEF vars, governorVars, proposalVars, ballotVars
  <1>11. ASSUME NEW q \in Proposal, Vote(q)
         PROVE  /\ voteStart'[p] = voteStart[p]
                /\ tally'[p] = tally[p]
                /\ past'[voteStart[p]] = past[voteStart[p]]
                /\ clock <= clock' /\ clock' \in Nat
    BY <1>1, <1>3, <1>11 DEF chainVars, tokenVars
  <1> QED BY <1>2, <1>4, <1>5, <1>6, <1>7, <1>8, <1>9, <1>10, <1>11 DEF Next

(* A vote that is over stays over, and its outcome stays what it was.      *)
LEMMA StepOutcome ==
  ASSUME TypeOK, [Next]_vars, NEW p \in Proposal, Decided(p)
  PROVE  Decided(p)' /\ (Won(p)' <=> Won(p))
  <1>1. Decided(p)'
    BY DecidedFrame, GovernorConstants
       DEF Decided, Deadline, TypeOK, GovernorTypeOK, ChainTypeOK
  <1>2. Won(p)' <=> Won(p)
    BY DecidedFrame DEF Won, QuorumReached, VoteSucceeded, Quorum
  <1> QED BY <1>1, <1>2

(* The outcome of a vote is final from the deadline on.                    *)
THEOREM OutcomesAreFinal == Spec => OutcomeIsFinal
  <1>1. TypeOK /\ [Next]_vars =>
          [\A p \in Proposal : Decided(p) => Decided(p)' /\ (Won(p)' <=> Won(p))]_vars
    BY StepOutcome
  <1> QED BY <1>1, TypeCorrect, PTL DEF Spec, OutcomeIsFinal

-----------------------------------------------------------------------------
(* What can be queued or executed has won a vote that is over.             *)
LEMMA StateWon ==
  ASSUME TypeOK, NEW p \in Proposal, State(p) \in {"Succeeded", "Queued"}
  PROVE  Decided(p) /\ Won(p) /\ ~executed[p] /\ ~canceled[p]
  <1>1. VoteState(p) \in {"Succeeded", "Queued"}
    BY DEF State
  <1>2. voteStart[p] # 0 /\ ~(Deadline(p) >= clock) /\ Won(p) /\ ~executed[p] /\ ~canceled[p]
    BY <1>1 DEF VoteState
  <1>3. Deadline(p) \in Int /\ clock \in Int
    BY GovernorConstants DEF Deadline, TypeOK, GovernorTypeOK, ChainTypeOK
  <1> QED BY <1>2, <1>3 DEF Decided

(* Only execute marks a proposal executed, and nothing unmarks it.         *)
LEMMA ExecutedFrame ==
  ASSUME TypeOK, [Next]_vars, NEW p \in Proposal
  PROVE  executed'[p] <=> executed[p] \/ ExecuteStep(p)
  <1>0. executed \in [Proposal -> BOOLEAN]
    BY DEF TypeOK, GovernorTypeOK
  <1> USE DEF governorVars, proposalVars, ballotVars
  <1>1. ASSUME UNCHANGED executed
        PROVE  (executed'[p] <=> executed[p] \/ ExecuteStep(p))
    BY <1>0, <1>1 DEF ExecuteStep, Execute
  <1>2. ASSUME NEW q \in Proposal, ExecuteStep(q)
        PROVE  (executed'[p] <=> executed[p] \/ ExecuteStep(p))
    <2>1. CASE p = q
      BY <1>0, <1>2, <2>1 DEF ExecuteStep, Execute
    <2>2. CASE p # q
      <3>1. executed'[p] = executed[p]
        BY <1>0, <1>2, <2>2 DEF ExecuteStep, Execute
      <3>2. ExecuteStep(p) => executed'[p]
        BY <1>0 DEF ExecuteStep, Execute
      <3> QED BY <3>1, <3>2
    <2> QED BY <2>1, <2>2
  <1>3. ASSUME NEW q \in Proposal, Vote(q) \/ QueueStep(q)
        PROVE  UNCHANGED executed
    BY <1>3 DEF Vote, Propose, Cancel, CastVote, Count, QueueStep, Queue
  <1>4. CASE Mine \/ ByHand \/ RoleStep \/ CertStep \/ TokenStep
    <2>1. UNCHANGED executed \/ \E q \in Proposal : Vote(q) \/ QueueStep(q) \/ ExecuteStep(q)
      BY DEF Next, Mine, vars
    <2> QED BY <1>1, <1>2, <1>3, <2>1
  <1>5. CASE UNCHANGED vars
    BY <1>1, <1>5 DEF vars
  <1> QED BY <1>1, <1>2, <1>3, <1>4, <1>5 DEF Next

LEMMA StepWinners ==
  TypeOK /\ OnlyWinnersExecuted /\ [Next]_vars => OnlyWinnersExecuted'
  <1> SUFFICES ASSUME TypeOK, OnlyWinnersExecuted, [Next]_vars, NEW p \in Proposal, executed'[p]
               PROVE  Decided(p)' /\ Won(p)'
    BY DEF OnlyWinnersExecuted
  <1>1. CASE executed[p]
    BY <1>1, StepOutcome DEF OnlyWinnersExecuted
  <1>2. CASE ExecuteStep(p)
    <2>1. Decided(p) /\ Won(p)
      BY <1>2, StateWon DEF ExecuteStep, Execute
    <2> QED BY <2>1, StepOutcome
  <1> QED BY <1>1, <1>2, ExecutedFrame

(* Whatever the governor has executed won its vote, and still does.        *)
THEOREM ExecutedHadWon == Spec => []OnlyWinnersExecuted
  <1>1. Init => OnlyWinnersExecuted
    BY DEF Init, OnlyWinnersExecuted
  <1> QED BY <1>1, StepWinners, TypeCorrect, PTL DEF Spec

-----------------------------------------------------------------------------
(* The times a queued proposal can become executable at are never earlier  *)
(* than its eta: the governor schedules it for the eta itself, and one who *)
(* schedules it again does so later and with at least the minimum delay,   *)
(* as long as that delay stays what it was.                                *)
EtaInv ==
  \A p \in Proposal :
    /\ eta[p] <= now + MinDelay
    /\ IsPending(p) => eta[p] <= timestamps[p]
    /\ executed[p] => eta[p] <= now

LEMMA StepEta == TypeOK /\ EtaInv /\ DelayAsDeployed /\ [Next]_vars => EtaInv'
  <1> SUFFICES ASSUME TypeOK, EtaInv, DelayAsDeployed, [Next]_vars, NEW p \in Proposal
               PROVE  /\ eta'[p] <= now' + MinDelay
                      /\ IsPending(p)' => eta'[p] <= timestamps'[p]
                      /\ executed'[p] => eta'[p] <= now'
    BY DEF EtaInv
  <1> DEFINE EtaOK == /\ eta[p] <= now + MinDelay
                      /\ IsPending(p) => eta[p] <= timestamps[p]
                      /\ executed[p] => eta[p] <= now
  <1>0. /\ now \in Nat /\ MinDelay \in Nat /\ p \in Op
        /\ eta \in [Proposal -> Nat] /\ executed \in [Proposal -> BOOLEAN]
        /\ timestamps \in [Op -> Nat]
        /\ EtaOK
    BY TimeLockConstants, GovernorConstants
       DEF TypeOK, ChainTypeOK, GovernorTypeOK, TimeLockTypeOK, EtaInv
  <1> USE <1>0 DEF IsPending, IsReady, Done, Unset, DelayAsDeployed
  <1>1. CASE Mine
    <2>1. now' \in Nat /\ now <= now'
      BY <1>1, ChainConstants DEF Mine, NextBlock
    <2> QED BY <1>1, <2>1 DEF Mine, timeLockVars, governorVars, proposalVars
  <1>2. ASSUME UNCHANGED <<now, timestamps, eta, executed>>
        PROVE  EtaOK'
    BY <1>2
  <1>3. ASSUME NEW q \in Proposal, Vote(q)
        PROVE  UNCHANGED <<now, timestamps, eta, executed>>
    BY <1>3 DEF Vote, Propose, Cancel, CastVote, Count, proposalVars, chainVars, timeLockVars
  <1>4. ASSUME NEW q \in Proposal, QueueStep(q)
        PROVE  EtaOK'
    <2>1. ~executed[q]
      BY <1>4, StateWon DEF QueueStep, Queue
    <2>2. CASE q = p
      BY <1>4, <2>1, <2>2 DEF QueueStep, Queue, Schedule, chainVars
    <2>3. CASE q # p
      BY <1>4, <2>3, GovernorConstants DEF QueueStep, Queue, Schedule, chainVars
    <2> QED BY <2>2, <2>3
  <1>5. ASSUME NEW q \in Proposal, ExecuteStep(q)
        PROVE  EtaOK'
    <2>1. CASE q = p
      BY <1>5, <2>1 DEF ExecuteStep, Execute, MarkExecuted, chainVars
    <2>2. CASE q # p
      BY <1>5, <2>2, GovernorConstants DEF ExecuteStep, Execute, MarkExecuted, chainVars
    <2> QED BY <2>1, <2>2
  <1>6. CASE ByHand /\ UNCHANGED <<chainVars, tokenVars, governorVars>>
    <2>1. PICK op \in Op :
            /\ \/ \E delay \in Delay : delay >= minDelay /\ timestamps' = [timestamps EXCEPT ![op] = now + delay]
               \/ timestamps' = [timestamps EXCEPT ![op] = Unset]
               \/ timestamps' = [timestamps EXCEPT ![op] = Done]
      BY <1>6 DEF ByHand, Schedule, CancelOperation, ExecuteByHand, MarkExecuted
    <2>2. UNCHANGED <<now, eta, executed>>
      BY <1>6 DEF chainVars, governorVars, proposalVars
    <2> QED BY <2>1, <2>2, TimeLockConstants
  <1>7. CASE RoleStep /\ UNCHANGED <<chainVars, tokenVars, certVars, governorVars>>
    BY <1>2, <1>7 DEF RoleStep, chainVars, governorVars, proposalVars
  <1>8. CASE CertStep /\ UNCHANGED <<chainVars, tokenVars, timeLockVars, governorVars>>
    BY <1>2, <1>8 DEF chainVars, timeLockVars, governorVars, proposalVars
  <1>9. CASE TokenStep /\ UNCHANGED <<chainVars, timeLockVars, certVars, governorVars>>
    BY <1>2, <1>9 DEF chainVars, timeLockVars, governorVars, proposalVars
  <1>10. CASE UNCHANGED vars
    BY <1>2, <1>10 DEF vars, chainVars, timeLockVars, governorVars, proposalVars
  <1> QED BY <1>1, <1>2, <1>3, <1>4, <1>5, <1>6, <1>7, <1>8, <1>9, <1>10 DEF Next

(* No proposal that was queued is executed before its announced time, as   *)
(* long as the timelock keeps the delay it was deployed with.              *)
THEOREM EtasAreRespected == Spec => EtaRespected
  <1>1. Init => EtaInv
    BY TimeLockConstants, GovernorConstants
       DEF Init, EtaInv, ChainInit, TimeLockInit, IsPending, Unset, Done
  <1>2. EtaInv => NotBeforeEta
    BY DEF EtaInv, NotBeforeEta
  <1>3. Spec /\ []DelayAsDeployed => []EtaInv
    BY <1>1, StepEta, TypeCorrect, PTL DEF Spec
  <1>4. Spec /\ []DelayAsDeployed => []NotBeforeEta
    BY <1>2, <1>3, PTL
  <1> QED BY <1>4, PTL DEF EtaRespected

-----------------------------------------------------------------------------
(* No step makes an operation that is done anything else.                  *)
LEMMA DoneStays ==
  ASSUME TypeOK, [Next]_vars, NEW op \in Op, IsDone(op)
  PROVE  IsDone(op)'
  <1> USE DEF IsDone, IsPending, IsReady, Done, Unset
  <1>0. timestamps \in [Op -> Nat]
    BY DEF TypeOK, TimeLockTypeOK
  <1>1. ASSUME NEW q \in Op,
               \/ \E caller, delay : Schedule(caller, q, delay)
               \/ \E caller : CancelOperation(caller, q) \/ MarkExecuted(caller, q)
        PROVE  timestamps'[op] = 1
    BY <1>0, <1>1 DEF Schedule, CancelOperation, MarkExecuted
  <1>2. CASE Mine
    BY <1>2 DEF Mine, timeLockVars
  <1>3. ASSUME NEW p \in Proposal, Vote(p) \/ QueueStep(p) \/ ExecuteStep(p)
        PROVE  timestamps'[op] = 1
    BY <1>1, <1>3, GovernorConstants
       DEF Vote, QueueStep, Queue, ExecuteStep, Execute, timeLockVars
  <1>4. CASE ByHand
    BY <1>1, <1>4 DEF ByHand, ExecuteByHand
  <1>5. CASE RoleStep
    BY <1>5 DEF RoleStep
  <1>6. CASE UNCHANGED timestamps
    BY <1>6
  <1> QED BY <1>2, <1>3, <1>4, <1>5, <1>6 DEF Next, vars, timeLockVars

(* An operation runs at most once.                                         *)
THEOREM OperationsRunOnce == Spec => ExecutedOnce
  <1>1. TypeOK /\ [Next]_vars => [\A op \in Op : IsDone(op) => IsDone(op)']_vars
    BY DoneStays
  <1> QED BY <1>1, TypeCorrect, PTL DEF Spec, ExecutedOnce

(* Without roles an account can only renounce, and the timelock's own      *)
(* operations are the only other way to change a role: what ends a         *)
(* handover is a grant that the governor has the timelock make.            *)
LEMMA HandedOverByHand ==
  ASSUME HandedOver
  PROVE  ~ByHand
  BY ChainConstants, GovernorConstants
     DEF ByHand, ExecuteByHand, Schedule, CancelOperation, MarkExecuted,
         Holds, HandedOver, Role

LEMMA RoleStepKeepsHandover ==
  ASSUME TypeOK, RoleStep, HandedOver
  PROVE  HandedOver'
  <1>1. \A caller \in Account : ~Holds(caller, "DEFAULT_ADMIN")
    BY ChainConstants DEF HandedOver, Holds
  <1>2. PICK caller \in Account, role \in Role : RenounceRole(caller, role)
    BY <1>1 DEF RoleStep, GrantRole, RevokeRole
  <1> QED BY <1>2 DEF RenounceRole, HandedOver, Role, TypeOK, TimeLockTypeOK

(* Of the timelock's calls to itself only grantRole adds to a role.        *)
LEMMA CallSelfKeepsHandover ==
  ASSUME TypeOK, NEW call, CallSelf(call), call.kind # "grantRole", HandedOver
  PROVE  HandedOver'
  <1>1. CASE UNCHANGED roles
    BY <1>1 DEF HandedOver
  <1>2. CASE RevokeRole(TimeLockAddress, call.role, call.who)
    BY <1>2 DEF RevokeRole, HandedOver, Role, TypeOK, TimeLockTypeOK
  <1> QED BY <1>1, <1>2 DEF CallSelf, UpdateDelay, settings

LEMMA WhatUndoesHandover ==
  ASSUME TypeOK, [Next]_vars, HandedOver, ~HandedOver'
  PROVE  \E p \in Proposal : ExecuteStep(p) /\ Batch[p].self.kind = "grantRole"
  <1>1. ASSUME UNCHANGED roles
        PROVE  FALSE
    BY <1>1 DEF HandedOver
  <1>2. ~ByHand
    BY HandedOverByHand
  <1>3. ~RoleStep
    BY RoleStepKeepsHandover
  <1>4. PICK p \in Proposal : ExecuteStep(p)
    BY <1>1, <1>2, <1>3
       DEF Next, vars, timeLockVars, settings, Mine, Vote, QueueStep, Queue, Schedule
  <1>5. Batch[p].self.kind = "grantRole"
    BY <1>4, CallSelfKeepsHandover DEF ExecuteStep, Execute, MakeCalls
  <1> QED BY <1>4, <1>5

(* Roles that were given up come back by a vote alone.                     *)
THEOREM OnlyVotesUndoHandovers == Spec => OnlyVotersUndoHandover
  <1>1. TypeOK /\ [Next]_vars =>
          [HandedOver /\ ~HandedOver' =>
             \E p \in Proposal : /\ Batch[p].self.kind = "grantRole"
                                 /\ Decided(p) /\ Won(p)
                                 /\ ~executed[p] /\ executed'[p]]_vars
    <2> SUFFICES ASSUME TypeOK, [Next]_vars, HandedOver, ~HandedOver'
                 PROVE  \E p \in Proposal : /\ Batch[p].self.kind = "grantRole"
                                            /\ Decided(p) /\ Won(p)
                                            /\ ~executed[p] /\ executed'[p]
      OBVIOUS
    <2>1. PICK p \in Proposal : ExecuteStep(p) /\ Batch[p].self.kind = "grantRole"
      BY WhatUndoesHandover
    <2>2. Decided(p) /\ Won(p) /\ ~executed[p]
      BY <2>1, StateWon DEF ExecuteStep, Execute
    <2>3. executed'[p]
      BY <2>1, ExecutedFrame
    <2> QED BY <2>1, <2>2, <2>3
  <1> QED BY <1>1, TypeCorrect, PTL DEF Spec, OnlyVotersUndoHandover

-----------------------------------------------------------------------------
(* Only a proposal whose vote is over can have been queued.                *)
QueuedDecided == \A p \in Proposal : eta[p] # 0 => Decided(p)

LEMMA StepQueuedDecided ==
  TypeOK /\ QueuedDecided /\ [Next]_vars => QueuedDecided'
  <1> SUFFICES ASSUME TypeOK, QueuedDecided, [Next]_vars, NEW p \in Proposal, eta'[p] # 0
               PROVE  Decided(p)'
    BY DEF QueuedDecided
  <1> USE DEF governorVars, proposalVars
  <1>1. CASE eta[p] # 0
    BY <1>1, StepOutcome DEF QueuedDecided
  <1>2. CASE eta[p] = 0
    <2>1. \E q \in Proposal : QueueStep(q)
      BY <1>2 DEF Next, vars, Mine, Vote, Propose, Cancel, CastVote, Count,
                  ExecuteStep, Execute
    <2>2. QueueStep(p)
      BY <1>2, <2>1 DEF QueueStep, Queue, TypeOK, GovernorTypeOK
    <2> QED BY <2>2, StateWon, StepOutcome DEF QueueStep, Queue
  <1> QED BY <1>1, <1>2

(* What decides where a proposal stands.                                   *)
stateVars == <<clock, past, timestamps, tally, proposalVars>>

LEMMA StateFrame ==
  ASSUME UNCHANGED stateVars, NEW p \in Proposal
  PROVE  State(p)' = State(p)
  BY DEF stateVars, proposalVars, State, VoteState, Deadline, Won, QuorumReached,
         VoteSucceeded, Quorum, IsPending, IsDone

LEMMA StateIsStage ==
  ASSUME NEW p \in Proposal
  PROVE  State(p) \in Promise!Stage /\ State(p)' \in Promise!Stage
  BY DEF State, VoteState, Promise!Stage

(* A new block opens or closes votes.                                      *)
LEMMA MineStage ==
  ASSUME TypeOK, QueuedDecided, Mine, NEW p \in Proposal
  PROVE  State(p)' = State(p) \/ <<State(p), State(p)'>> \in Promise!Deliberation
  <1> USE DEF Decided, Deadline
  <1>0. /\ clock \in Nat /\ clock' = clock + 1 /\ voteStart[p] \in Nat
        /\ VotingPeriod \in Nat \ {0}
        /\ UNCHANGED <<timestamps, tally, proposalVars>>
    BY GovernorConstants DEF TypeOK, ChainTypeOK, GovernorTypeOK, Mine, NextBlock,
         timeLockVars, governorVars, ballotVars
  <1>1. UNCHANGED <<voteStart, executed, canceled, eta>>
    BY <1>0 DEF proposalVars
  <1>2. CASE Decided(p)
    <2>1. Won(p)' <=> Won(p)
      BY <1>2, StepOutcome DEF Next
    <2>2. VoteState(p)' = VoteState(p)
      BY <1>0, <1>1, <1>2, <2>1 DEF VoteState
    <2> QED BY <1>0, <2>2 DEF State, IsPending, IsDone
  <1>3. CASE ~Decided(p)
    <2>1. eta[p] = 0
      BY <1>3 DEF QueuedDecided
    <2>2. \/ VoteState(p)' = VoteState(p)
          \/ VoteState(p) = "Pending" /\ VoteState(p)' = "Active"
          \/ VoteState(p) = "Active" /\ VoteState(p)' \in {"Defeated", "Succeeded"}
      BY <1>0, <1>1, <1>3, <2>1 DEF VoteState
    <2>3. VoteState(p) # "Queued" /\ VoteState(p)' # "Queued"
      BY <1>1, <2>1 DEF VoteState
    <2>4. State(p) = VoteState(p) /\ State(p)' = VoteState(p)'
      BY <2>3 DEF State
    <2> QED BY <2>2, <2>4 DEF Promise!Deliberation
  <1> QED BY <1>2, <1>3

(* A call of propose, cancel or castVote moves one proposal at most.       *)
LEMMA VoteStage ==
  ASSUME TypeOK, NEW q \in Proposal, Vote(q), NEW p \in Proposal
  PROVE  State(p)' = State(p) \/ <<State(p), State(p)'>> \in Promise!Deliberation
  <1> USE DEF State, VoteState, IsPending, IsDone
  <1>0. /\ voteStart \in [Proposal -> Nat] /\ clock \in Nat
        /\ proposer \in [Proposal -> Account \cup {Zero}]
        /\ canceled \in [Proposal -> BOOLEAN] /\ executed \in [Proposal -> BOOLEAN]
        /\ tally \in [Proposal -> [Support -> Nat]]
        /\ VotingDelay \in Nat /\ VotingPeriod \in Nat
        /\ UNCHANGED <<clock, past, timestamps>>
    BY GovernorConstants
       DEF TypeOK, GovernorTypeOK, ChainTypeOK, Vote, chainVars, tokenVars, timeLockVars
  <1> USE <1>0
  <1>1. ASSUME NEW caller \in Account, Propose(caller, q)
        PROVE  State(p)' = State(p) \/ <<State(p), State(p)'>> \in Promise!Deliberation
    <2>1. CASE p = q
      <3>1. voteStart[p] = 0 /\ voteStart'[p] >= clock /\ voteStart'[p] = clock + VotingDelay
        BY <1>1, <2>1 DEF Propose
      <3>2. UNCHANGED <<executed, canceled>>
        BY <1>1 DEF Propose
      <3>3. clock # 0
        BY DEF TypeOK, ChainTypeOK
      <3>4. \/ VoteState(p)' = VoteState(p)
            \/ VoteState(p) = "Nonexistent" /\ VoteState(p)' = "Pending"
        BY <3>1, <3>2, <3>3
      <3>5. VoteState(p) # "Queued" /\ VoteState(p)' # "Queued"
        BY <3>1, <3>2, <3>3
      <3> QED BY <3>4, <3>5 DEF Promise!Deliberation
    <2>2. CASE p # q
      BY <1>1, <2>2 DEF Propose, ballotVars, Deadline, Won, QuorumReached, VoteSucceeded, Quorum
    <2> QED BY <2>1, <2>2
  <1>2. ASSUME NEW caller \in Account, Cancel(caller, q)
        PROVE  State(p)' = State(p) \/ <<State(p), State(p)'>> \in Promise!Deliberation
    <2>1. CASE p = q
      <3>1. State(p) = "Pending" /\ ~executed[p] /\ ~executed'[p] /\ canceled'[p]
        BY <1>2, <2>1 DEF Cancel
      <3>2. State(p)' = "Canceled"
        BY <3>1
      <3> QED BY <3>1, <3>2 DEF Promise!Deliberation
    <2>2. CASE p # q
      BY <1>2, <2>2 DEF Cancel, ballotVars, Deadline, Won, QuorumReached, VoteSucceeded, Quorum
    <2> QED BY <2>1, <2>2
  <1>3. ASSUME NEW voter \in Account, NEW support \in Support, CastVote(voter, q, support)
        PROVE  State(p)' = State(p)
    <2>1. CASE p = q
      <3>1. VoteState(p) = "Active"
        BY <1>3, <2>1 DEF CastVote
      <3>2. VoteState(p)' = "Active"
        BY <1>3, <3>1 DEF CastVote, Count, proposalVars, Deadline
      <3> QED BY <3>1, <3>2
    <2>2. CASE p # q
      <3>1. tally'[p] = tally[p] /\ UNCHANGED proposalVars
        BY <1>3, <2>2 DEF CastVote, Count
      <3> QED BY <3>1 DEF proposalVars, Deadline, Won, QuorumReached, VoteSucceeded, Quorum
    <2> QED BY <2>1, <2>2
  <1> QED BY <1>1, <1>2, <1>3 DEF Vote

(* queue moves its proposal from Succeeded to Queued, and no other.        *)
LEMMA QueueStage ==
  ASSUME TypeOK, NEW q \in Proposal, QueueStep(q), NEW p \in Proposal
  PROVE  State(p)' = State(p) \/ <<State(p), State(p)'>> \in Promise!Deliberation
  <1>0. /\ now \in Nat \ {0, 1} /\ minDelay \in Nat /\ eta \in [Proposal -> Nat]
        /\ timestamps \in [Op -> Nat] /\ Proposal \subseteq Op
        /\ UNCHANGED <<clock, past, tally, voteStart, canceled, executed>>
    BY TimeLockConstants, GovernorConstants
       DEF TypeOK, ChainTypeOK, GovernorTypeOK, TimeLockTypeOK, QueueStep, Queue,
           chainVars, tokenVars, ballotVars
  <1>1. Won(p)' <=> Won(p)
    BY <1>0 DEF Won, QuorumReached, VoteSucceeded, Quorum
  <1>2. Deadline(p)' = Deadline(p)
    BY <1>0 DEF Deadline
  <1>3. CASE p = q
    <2>1. State(p) = "Succeeded"
      BY <1>3 DEF QueueStep, Queue
    <2>2. VoteState(p) = "Succeeded"
      BY <2>1 DEF State
    <2>3. eta'[p] # 0 /\ timestamps'[p] > 1
      BY <1>0, <1>3 DEF QueueStep, Queue, Schedule
    <2>4. VoteState(p)' = "Queued"
      BY <1>0, <1>1, <1>2, <2>2, <2>3 DEF VoteState
    <2>5. State(p)' = "Queued"
      BY <2>3, <2>4 DEF State, IsPending, Done
    <2> QED BY <2>1, <2>5 DEF Promise!Deliberation
  <1>4. CASE p # q
    <2>1. eta'[p] = eta[p] /\ timestamps'[p] = timestamps[p]
      BY <1>0, <1>4 DEF QueueStep, Queue, Schedule
    <2>2. VoteState(p)' = VoteState(p)
      BY <1>0, <1>1, <1>2, <2>1 DEF VoteState
    <2> QED BY <2>1, <2>2 DEF State, IsPending, IsDone
  <1> QED BY <1>3, <1>4

(* execute makes its proposal Executed and moves no other.                 *)
LEMMA ExecuteStage ==
  ASSUME TypeOK, NEW q \in Proposal, ExecuteStep(q), NEW p \in Proposal
  PROVE  State(p)' = IF p = q THEN "Executed" ELSE State(p)
  <1>0. /\ executed \in [Proposal -> BOOLEAN] /\ timestamps \in [Op -> Nat]
        /\ Proposal \subseteq Op
        /\ UNCHANGED <<clock, past, tally, voteStart, canceled, eta>>
    BY GovernorConstants DEF TypeOK, GovernorTypeOK, TimeLockTypeOK, ExecuteStep, Execute,
           chainVars, tokenVars, ballotVars
  <1>1. CASE p = q
    <2>1. executed'[p]
      BY <1>0, <1>1 DEF ExecuteStep, Execute
    <2> QED BY <1>1, <2>1 DEF State, VoteState
  <1>2. CASE p # q
    <2>1. executed'[p] = executed[p] /\ timestamps'[p] = timestamps[p]
      BY <1>0, <1>2 DEF ExecuteStep, Execute, MarkExecuted
    <2>2. VoteState(p)' = VoteState(p)
      BY <1>0, <2>1 DEF VoteState, Deadline, Won, QuorumReached, VoteSucceeded, Quorum
    <2> QED BY <1>2, <2>1, <2>2 DEF State, IsPending, IsDone
  <1> QED BY <1>1, <1>2

(* The timelock used by hand moves queued and cancelled proposals only.    *)
LEMMA ByHandStage ==
  ASSUME TypeOK, ByHand, UNCHANGED <<chainVars, tokenVars, governorVars>>, NEW p \in Proposal
  PROVE  State(p)' = State(p) \/ <<State(p), State(p)'>> \in Promise!Intervention
  <1> USE DEF IsPending, IsReady, IsDone, Done, Unset
  <1>0. /\ now \in Nat \ {0, 1} /\ timestamps \in [Op -> Nat] /\ p \in Op
        /\ Delay \subseteq Nat
    BY TimeLockConstants, GovernorConstants DEF TypeOK, ChainTypeOK, TimeLockTypeOK
  <1>1. VoteState(p)' = VoteState(p)
    BY DEF VoteState, Deadline, Won, QuorumReached, VoteSucceeded, Quorum,
           chainVars, tokenVars, governorVars, proposalVars, ballotVars
  <1>2. \/ timestamps'[p] = timestamps[p]
        \/ timestamps[p] = 0 /\ timestamps'[p] > 1
        \/ timestamps[p] > 1 /\ timestamps'[p] \in {0, 1}
    <2>1. PICK caller \in Operators, op \in Op :
            \/ \E delay \in Delay : Schedule(caller, op, delay)
            \/ CancelOperation(caller, op)
            \/ MarkExecuted(caller, op)
      BY DEF ByHand, ExecuteByHand
    <2> QED BY <1>0, <2>1 DEF Schedule, CancelOperation, MarkExecuted
  <1> QED BY <1>0, <1>1, <1>2 DEF State, Promise!Intervention

-----------------------------------------------------------------------------
(* The stages of all proposals, as CertGovernance sees them.               *)
stages == [p \in Proposal |-> State(p)]

(* What a step owes to the promise.                                        *)
PromiseStep == [Promise!PromiseNext]_<<stages, certificates, Sovereign>>

LEMMA DeliberateSuffices ==
  ASSUME \A p \in Proposal :
           State(p)' = State(p) \/ <<State(p), State(p)'>> \in Promise!Deliberation,
         UNCHANGED certificates, Sovereign => Sovereign'
  PROVE  PromiseStep
  <1>1. Promise!Move(Promise!Deliberation)
    BY StateIsStage DEF Promise!Move
  <1>2. Sovereign' \in {Sovereign, TRUE}
    BY DEF Sovereign
  <1> QED BY <1>1, <1>2 DEF PromiseStep, Promise!PromiseNext, Promise!Deliberate

LEMMA InterveneSuffices ==
  ASSUME \A p \in Proposal :
           State(p)' = State(p) \/ <<State(p), State(p)'>> \in Promise!Intervention,
         ~Sovereign, CertTypeOK'
  PROVE  PromiseStep
  <1>1. Promise!Move(Promise!Intervention)
    BY StateIsStage DEF Promise!Move
  <1>2. Sovereign' \in BOOLEAN
    BY DEF Sovereign
  <1> QED BY <1>1, <1>2 DEF PromiseStep, Promise!PromiseNext, Promise!Intervene, CertTypeOK

LEMMA SovereignFrame ==
  ASSUME UNCHANGED <<roles, certOwner>>
  PROVE  Sovereign' = Sovereign
  BY DEF Sovereign, HandedOver

(* Executing a proposal carries it out.                                    *)
LEMMA CarryOutSuffices ==
  ASSUME TypeOK, NEW p \in Proposal, ExecuteStep(p)
  PROVE  PromiseStep
  <1> DEFINE cert == Batch[p].cert  self == Batch[p].self
  <1>1. State(p) \in {"Succeeded", "Queued"} /\ CallCert(cert) /\ CallSelf(self)
    BY DEF ExecuteStep, Execute, MakeCalls
  <1>2. stages' = [stages EXCEPT ![p] = "Executed"]
    BY ExecuteStage DEF stages
  <1>3. \/ /\ cert.kind = "issue"
           /\ certificates' = [certificates EXCEPT ![cert.id] = cert.certificate]
        \/ cert.kind # "issue" /\ certificates' = certificates
    BY <1>1 DEF CallCert, Issue, TransferCertOwnership, certVars
  <1>4. cert.kind = "transferOwnership" => Sovereign' = FALSE
    <2> SUFFICES ASSUME cert.kind = "transferOwnership" PROVE Sovereign' = FALSE
      OBVIOUS
    <2>1. certOwner' = cert.to /\ cert.to # TimeLockAddress
      BY <1>1, BatchType, ChainConstants, GovernorConstants DEF CallCert, TransferCertOwnership
    <2> QED BY <2>1 DEF Sovereign
  <1>5. cert.kind # "transferOwnership" => certOwner' = certOwner
    BY <1>1 DEF CallCert, Issue, certVars
  <1>6. CASE self.kind = "grantRole"
    <2>1. HandedOver' => HandedOver
      BY <1>1, <1>6 DEF CallSelf, GrantRole, HandedOver, Role, TypeOK, TimeLockTypeOK
    <2>2. Sovereign' = Sovereign \/ Sovereign' = FALSE
      BY <1>4, <1>5, <2>1 DEF Sovereign
    <2> QED BY <1>1, <1>2, <1>3, <1>6, <2>2
            DEF PromiseStep, Promise!PromiseNext, Promise!CarryOut, stages
  <1>7. CASE self.kind = "revokeRole"
    <2>1. HandedOver => HandedOver'
      BY <1>1, <1>7, CallSelfKeepsHandover
    <2>2. \/ Sovereign' = Sovereign \/ Sovereign' = TRUE
          \/ cert.kind = "transferOwnership" /\ Sovereign' = FALSE
      BY <1>4, <1>5, <2>1 DEF Sovereign
    <2> QED BY <1>1, <1>2, <1>3, <1>7, <2>2
            DEF PromiseStep, Promise!PromiseNext, Promise!CarryOut, stages
  <1>8. CASE self.kind \notin {"grantRole", "revokeRole"}
    <2>1. roles' = roles
      BY <1>1, <1>8 DEF CallSelf, UpdateDelay, settings
    <2>2. \/ Sovereign' = Sovereign
          \/ cert.kind = "transferOwnership" /\ Sovereign' = FALSE
      BY <1>4, <1>5, <2>1, SovereignFrame
    <2> QED BY <1>1, <1>2, <1>3, <2>2
            DEF PromiseStep, Promise!PromiseNext, Promise!CarryOut, stages
  <1> QED BY <1>6, <1>7, <1>8

LEMMA StepPromise ==
  ASSUME TypeOK, TypeOK', QueuedDecided, [Next]_vars
  PROVE  PromiseStep
  <1>1. CASE Mine
    BY <1>1, MineStage, DeliberateSuffices, SovereignFrame
       DEF Mine, timeLockVars, settings, certVars
  <1>2. ASSUME NEW q \in Proposal, Vote(q)
        PROVE  PromiseStep
    BY <1>2, VoteStage, DeliberateSuffices, SovereignFrame
       DEF Vote, timeLockVars, settings, certVars
  <1>3. ASSUME NEW q \in Proposal, QueueStep(q)
        PROVE  PromiseStep
    <2>1. UNCHANGED <<roles, certOwner, certificates>>
      BY <1>3 DEF QueueStep, Queue, Schedule, settings, certVars
    <2> QED BY <1>3, <2>1, QueueStage, DeliberateSuffices, SovereignFrame
  <1>4. ASSUME NEW q \in Proposal, ExecuteStep(q)
        PROVE  PromiseStep
    BY <1>4, CarryOutSuffices
  <1>5. CASE ByHand /\ UNCHANGED <<chainVars, tokenVars, governorVars>>
    <2>1. ~HandedOver
      BY <1>5, HandedOverByHand
    <2> QED BY <1>5, <2>1, ByHandStage, InterveneSuffices DEF TypeOK, Sovereign
  <1>6. CASE RoleStep /\ UNCHANGED <<chainVars, tokenVars, certVars, governorVars>>
    <2>1. UNCHANGED <<stateVars, certificates, certOwner>>
      BY <1>6 DEF RoleStep, stateVars, chainVars, tokenVars, certVars, governorVars, ballotVars
    <2>2. Sovereign => Sovereign'
      BY <1>6, <2>1, RoleStepKeepsHandover DEF Sovereign
    <2> QED BY <2>1, <2>2, StateFrame, DeliberateSuffices
  <1>7. CASE CertStep /\ UNCHANGED <<chainVars, tokenVars, timeLockVars, governorVars>>
    <2>1. certOwner # TimeLockAddress
      BY <1>7, ChainConstants DEF CertStep, Issue, TransferCertOwnership
    <2>2. UNCHANGED stateVars
      BY <1>7 DEF stateVars, chainVars, tokenVars, timeLockVars, governorVars, ballotVars
    <2> QED BY <2>1, <2>2, StateFrame, InterveneSuffices DEF TypeOK, Sovereign
  <1>8. CASE TokenStep /\ UNCHANGED <<chainVars, timeLockVars, certVars, governorVars>>
    <2>1. past' = past
      BY <1>8 DEF TokenStep, Transfer, Mint, Delegate, TransferTokenOwnership
    <2>2. UNCHANGED <<stateVars, roles, certOwner, certificates>>
      BY <1>8, <2>1 DEF stateVars, chainVars, timeLockVars, settings, certVars,
                        governorVars, ballotVars
    <2> QED BY <2>2, StateFrame, SovereignFrame, DeliberateSuffices
  <1>9. CASE UNCHANGED vars
    <2>1. UNCHANGED <<stateVars, roles, certOwner, certificates>>
      BY <1>9 DEF vars, stateVars, chainVars, tokenVars, timeLockVars, settings, certVars,
                  governorVars, ballotVars
    <2> QED BY <2>1, StateFrame, SovereignFrame, DeliberateSuffices
  <1> QED BY <1>1, <1>2, <1>3, <1>4, <1>5, <1>6, <1>7, <1>8, <1>9 DEF Next

(* The contracts keep the promise of CertGovernance: whatever the holders, *)
(* the deployer and the blocks do, proposals pass their stages in order,   *)
(* and a sovereign DAO writes a certificate exactly when it carries out a  *)
(* proposal that won.                                                      *)
THEOREM PromiseKept == Spec => KeepsPromise
  <1>1. Init => QueuedDecided
    BY DEF Init, QueuedDecided
  <1>2. Init => Promise!PromiseInit
    <2> SUFFICES ASSUME Init PROVE Promise!PromiseInit
      OBVIOUS
    <2>1. \A p \in Proposal : State(p) = "Nonexistent"
      BY DEF Init, State, VoteState
    <2>2. Sovereign = FALSE
      BY ChainConstants DEF Init, TimeLockInit, Sovereign, HandedOver, Role
    <2> QED BY <2>1, <2>2 DEF Init, CertInit, Promise!PromiseInit
  <1>3. TypeOK /\ TypeOK' /\ QueuedDecided /\ [Next]_vars =>
          [Promise!PromiseNext]_<<stages, certificates, Sovereign>>
    BY StepPromise DEF PromiseStep
  <1>4. Spec => [][Promise!PromiseNext]_<<stages, certificates, Sovereign>>
    BY <1>1, <1>3, StepQueuedDecided, TypeCorrect, PTL DEF Spec
  <1> QED BY <1>2, <1>4, PTL DEF Spec, KeepsPromise, Promise!PromiseSpec, stages

-----------------------------------------------------------------------------
(* The past is never rewritten. *)
LEMMA PastGrows ==
  ASSUME TypeOK, [Next]_vars
  PROVE  \A t \in DOMAIN past : t \in DOMAIN past' /\ past'[t] = past[t]
  <1>0. DOMAIN past = 0 .. clock - 1 /\ clock \in Nat
    BY DEF TypeOK, TokenTypeOK, ChainTypeOK
  <1>1. CASE Mine
    BY <1>0, <1>1 DEF Mine, Seal
  <1>2. CASE UNCHANGED past
    BY <1>2
  <1>3. CASE TokenStep
    BY <1>2, <1>3 DEF TokenStep, Transfer, Mint, Delegate, TransferTokenOwnership
  <1> QED BY <1>1, <1>2, <1>3 DEF Next, Vote, QueueStep, ExecuteStep, tokenVars, vars

(* A sealed block answers the same for ever.                               *)
THEOREM ThePastIsImmutable == Spec => PastIsImmutable
  <1>1. TypeOK /\ [Next]_vars =>
          [\A t \in DOMAIN past : t \in DOMAIN past' /\ past'[t] = past[t]]_past
    BY PastGrows
  <1> QED BY <1>1, TypeCorrect, PTL DEF Spec, PastIsImmutable

-----------------------------------------------------------------------------
(* What a set of holders has together.                                     *)
Holdings(f, holders) == SumFunctionOnSet(f, holders)

Power ==
  /\ supply = Holdings(balance, Account)
  /\ \A d \in Account : votes[d] = Holdings(balance, DelegatedTo(d))

LEMMA HoldersFinite ==
  ASSUME TokenTypeOK, NEW H \in SUBSET Account
  PROVE  IsFiniteSet(H) /\ Integral(balance, H) /\ Holdings(balance, H) \in Nat
  <1>1. IsFiniteSet(H) /\ Integral(balance, H) /\ \A x \in H : balance[x] \in Nat
    BY TokenConstants, FS_Subset DEF TokenTypeOK, Integral
  <1> QED BY <1>1, SumNat DEF Holdings

LEMMA PowerIsPower ==
  TokenTypeOK => (PowerIsDelegatedBalance <=> Power)
  BY DEF TokenTypeOK, PowerIsDelegatedBalance, Power, Holdings, SumFunction

(* A movement of tokens changes the holdings of a set by what enters and   *)
(* leaves it.                                                              *)
LEMMA HoldingsMoved ==
  ASSUME TokenTypeOK, NEW H \in SUBSET Account, NEW from, NEW to, NEW amount \in Nat,
         balance' = Moved(balance, from, to, amount)
  PROVE  Holdings(balance', H) = Holdings(balance, H) - (IF from \in H THEN amount ELSE 0)
                                    + (IF to \in H THEN amount ELSE 0)
  <1>1. IsFiniteSet(H) /\ Integral(balance, H) /\ amount \in Int
    BY HoldersFinite
  <1>2. \A a \in H : balance'[a] = balance[a] - (IF a = from THEN amount ELSE 0)
                                              + (IF a = to THEN amount ELSE 0)
    BY DEF TokenTypeOK, Moved
  <1> QED BY <1>1, <1>2, SumShift DEF Holdings

LEMMA UpdatePower ==
  ASSUME TokenTypeOK, Power, NEW from \in Account \cup {Zero}, NEW to \in Account,
         NEW amount \in Nat, Update(from, to, amount), UNCHANGED delegatee
  PROVE  Power'
  <1>1. balance' = Moved(balance, from, to, amount)
    BY DEF Update
  <1>2. Zero \notin Account
    BY ChainConstants
  <1>3. Holdings(balance', Account)
          = Holdings(balance, Account) - (IF from \in Account THEN amount ELSE 0) + amount
    BY <1>1, HoldingsMoved
  <1>4. Holdings(balance, Account) \in Nat
    BY HoldersFinite
  <1>5. supply' = Holdings(balance', Account)
    BY <1>2, <1>3, <1>4 DEF Update, Power
  <1>6. ASSUME NEW d \in Account
        PROVE  votes'[d] = Holdings(balance', DelegatedTo(d)')
    <2> DEFINE H == DelegatedTo(d)
    <2>1. H \in SUBSET Account /\ DelegatedTo(d)' = H
      BY DEF DelegatedTo
    <2>2. (from \in H <=> d = Delegates(from)) /\ (to \in H <=> d = Delegates(to))
      BY <1>2 DEF DelegatedTo, Delegates
    <2>3. votes'[d] = votes[d] - (IF d = Delegates(from) THEN amount ELSE 0)
                               + (IF d = Delegates(to) THEN amount ELSE 0)
      BY DEF Update, Moved, TokenTypeOK
    <2>4. votes[d] = Holdings(balance, H)
      BY DEF Power
    <2> HIDE DEF H
    <2>5. Holdings(balance', H) = Holdings(balance, H) - (IF from \in H THEN amount ELSE 0)
                                     + (IF to \in H THEN amount ELSE 0)
      BY <1>1, <2>1, HoldingsMoved
    <2> QED BY <2>1, <2>2, <2>3, <2>4, <2>5
  <1> QED BY <1>5, <1>6 DEF Power

(* Whoever changes its delegate leaves the holders of the former one and   *)
(* joins those of the new one.                                             *)
LEMMA DelegatePower ==
  ASSUME TokenTypeOK, Power, NEW caller \in Account, NEW to \in Account \cup {Zero},
         Delegate(caller, to)
  PROVE  Power'
  <1> DEFINE from == delegatee[caller]  amount == balance[caller]
  <1>1. Zero \notin Account /\ caller # Zero
    BY ChainConstants
  <1>2. supply' = Holdings(balance', Account)
    BY DEF Delegate, Power
  <1>3. ASSUME NEW d \in Account
        PROVE  votes'[d] = Holdings(balance', DelegatedTo(d)')
    <2> DEFINE H == DelegatedTo(d)  J == DelegatedTo(d)'
    <2>1. H \in SUBSET Account /\ J \in SUBSET Account
      BY DEF DelegatedTo
    <2>2. /\ caller \in H <=> d = from
          /\ caller \in J <=> d = to
          /\ J \ {caller} = H \ {caller}
      BY DEF DelegatedTo, Delegate, TokenTypeOK
    <2>3. votes'[d] = votes[d] - (IF d = from THEN amount ELSE 0) + (IF d = to THEN amount ELSE 0)
      BY <1>1 DEF Delegate, Moved, Delegates, TokenTypeOK
    <2>4. votes[d] = Holdings(balance, H) /\ balance' = balance
      BY DEF Power, Delegate
    <2> HIDE DEF H, J
    <2>5. ASSUME NEW K \in SUBSET Account
          PROVE  Holdings(balance, K)
                   = Holdings(balance, K \ {caller}) + (IF caller \in K THEN amount ELSE 0)
      <3>1. IsFiniteSet(K) /\ Integral(balance, K) /\ Holdings(balance, K \ {caller}) \in Nat
        BY HoldersFinite
      <3>2. CASE caller \in K
        <4>1. SumFunctionOnSet(balance, K)
                = balance[caller] + SumFunctionOnSet(balance, K \ {caller})
          BY <3>1, <3>2, SumRemove
        <4> QED BY <3>1, <3>2, <4>1 DEF Holdings, TokenTypeOK
      <3>3. CASE caller \notin K
        <4>1. K \ {caller} = K
          BY <3>3
        <4> QED BY <3>1, <3>3, <4>1
      <3> QED BY <3>2, <3>3
    <2>6. Holdings(balance, H \ {caller}) \in Nat /\ amount \in Nat
      BY <2>1, HoldersFinite DEF TokenTypeOK
    <2>7. /\ Holdings(balance, H) = Holdings(balance, H \ {caller})
                                       + (IF caller \in H THEN amount ELSE 0)
          /\ Holdings(balance, J) = Holdings(balance, J \ {caller})
                                       + (IF caller \in J THEN amount ELSE 0)
      BY <2>1, <2>5
    <2> HIDE DEF amount, from
    <2>8. Holdings(balance, J) = Holdings(balance, H) - (IF caller \in H THEN amount ELSE 0)
                                                      + (IF caller \in J THEN amount ELSE 0)
      BY <2>2, <2>6, <2>7
    <2>9. votes'[d] = Holdings(balance, J)
      BY <2>2, <2>3, <2>4, <2>8
    <2> QED BY <2>4, <2>9 DEF J
  <1> QED BY <1>2, <1>3 DEF Power

LEMMA PowerFrame ==
  ASSUME Power, UNCHANGED <<holdings, delegatee>>
  PROVE  Power'
  BY DEF Power, holdings, DelegatedTo, Holdings

LEMMA StepPower ==
  ASSUME TypeOK, Power, [Next]_vars
  PROVE  Power'
  <1> USE TokenConstants DEF TypeOK
  <1>1. CASE UNCHANGED tokenVars
    BY <1>1, PowerFrame DEF tokenVars
  <1>2. CASE Mine
    BY <1>2, PowerFrame DEF Mine, Seal
  <1>3. CASE TokenStep
    <2>1. ASSUME NEW from \in Account, NEW to \in Account, NEW amount \in Amount,
                 Transfer(from, to, amount)
          PROVE  Power'
      BY <2>1, UpdatePower DEF Transfer
    <2>2. ASSUME NEW caller \in Account, NEW to \in Account, NEW amount \in Amount,
                 Mint(caller, to, amount)
          PROVE  Power'
      BY <2>2, UpdatePower DEF Mint
    <2>3. ASSUME NEW caller \in Account, NEW to \in Delegatee, Delegate(caller, to)
          PROVE  Power'
      BY <2>3, DelegatePower
    <2>4. ASSUME NEW caller \in Account, NEW to \in OwnerTarget,
                 TransferTokenOwnership(caller, to)
          PROVE  Power'
      BY <2>4, PowerFrame DEF TransferTokenOwnership
    <2> QED BY <1>3, <2>1, <2>2, <2>3, <2>4 DEF TokenStep
  <1> QED BY <1>1, <1>2, <1>3 DEF Next, Vote, QueueStep, ExecuteStep, vars

LEMMA InitPower == Init => Power
  <1> SUFFICES ASSUME Init PROVE Power
    OBVIOUS
  <1>1. TokenTypeOK /\ Deployer \in Account /\ Zero \notin Account
    BY InitTypeOK, ChainConstants DEF TypeOK
  <1>2. /\ balance[Deployer] = InitialSupply /\ supply = InitialSupply /\ InitialSupply \in Nat
        /\ \A a \in Account \ {Deployer} : balance[a] = 0
    BY <1>1, TokenConstants DEF Init, TokenInit
  <1>3. supply = Holdings(balance, Account)
    <2>1. IsFiniteSet(Account) /\ Integral(balance, Account) /\ IsFiniteSet(Account \ {Deployer})
      BY <1>1, HoldersFinite
    <2>2. SumFunctionOnSet(balance, Account)
            = balance[Deployer] + SumFunctionOnSet(balance, Account \ {Deployer})
      BY <1>1, <2>1, SumRemove
    <2>3. SumFunctionOnSet(balance, Account \ {Deployer}) = 0
      <3> DEFINE U == Account \ {Deployer}
      <3>1. IsFiniteSet(U) /\ \A x \in U : balance[x] = 0
        BY <1>2, <2>1
      <3> HIDE DEF U
      <3>2. SumFunctionOnSet(balance, U) = 0
        BY <3>1, SumZero
      <3> QED BY <3>2 DEF U
    <2> QED BY <1>2, <2>2, <2>3 DEF Holdings
  <1>4. ASSUME NEW d \in Account PROVE votes[d] = Holdings(balance, DelegatedTo(d))
    <2>1. DelegatedTo(d) = {} /\ votes[d] = 0
      BY <1>1 DEF Init, TokenInit, DelegatedTo
    <2> QED BY <2>1, SumEmpty DEF Holdings
  <1> QED BY <1>3, <1>4 DEF Power

(* At every moment an account's power is what those who delegate to it     *)
(* hold, and the supply what all hold.                                     *)
THEOREM PowerFollowsTokens == Spec => []PowerIsDelegatedBalance
  <1>1. TypeOK /\ [Next]_vars /\ Power => Power'
    BY StepPower
  <1>2. TypeOK /\ Power => PowerIsDelegatedBalance
    BY PowerIsPower DEF TypeOK
  <1> QED BY <1>1, <1>2, InitPower, TypeCorrect, PTL DEF Spec

-----------------------------------------------------------------------------
(* All accounts together never have more power than there are tokens.      *)
LEMMA PowerWithinSupply ==
  ASSUME TokenTypeOK, Power
  PROVE  SumFunctionOnSet(votes, Account) <= supply
  <1> DEFINE H == MappedInto(delegatee, Account, Account)
  <1>1. IsFiniteSet(Account) /\ Integral(balance, Account)
    BY HoldersFinite
  <1>2. \A d \in Account : votes[d] = SumFunctionOnSet(balance, MappedTo(delegatee, Account, d))
    BY DEF Power, Holdings, DelegatedTo, MappedTo
  <1>3. SumFunctionOnSet(votes, Account) = SumFunctionOnSet(balance, H)
    BY <1>1, <1>2, SumFibres
  <1>4. H \in SUBSET Account /\ \A a \in Account : balance[a] \in Nat
    BY DEF TokenTypeOK, MappedInto
  <1> HIDE DEF H
  <1>5. SumFunctionOnSet(balance, H) <= SumFunctionOnSet(balance, Account)
    BY <1>1, <1>4, SumSubset
  <1> QED BY <1>3, <1>5 DEF Power, Holdings

PastPower == \A t \in 0 .. clock - 1 : SumFunctionOnSet(past[t].votes, Account) <= past[t].supply

LEMMA StepPastPower ==
  ASSUME TypeOK, Power, PastPower, [Next]_vars
  PROVE  PastPower'
  <1>0. /\ DOMAIN past = 0 .. clock - 1 /\ clock \in Nat
        /\ ChainTypeOK /\ TokenTypeOK
    BY DEF TypeOK, TokenTypeOK, ChainTypeOK
  <1>1. CASE Mine
    <2> SUFFICES ASSUME NEW t \in 0 .. clock' - 1
                 PROVE  SumFunctionOnSet(past'[t].votes, Account) <= past'[t].supply
      BY DEF PastPower
    <2>1. clock' = clock + 1
      BY <1>1 DEF Mine, NextBlock
    <2>2. past'[t] = IF t = clock THEN Now ELSE past[t]
      BY <1>0, <1>1, <2>1 DEF Mine, Seal
    <2>3. CASE t = clock
      BY <1>0, <2>2, <2>3, PowerWithinSupply DEF Now
    <2>4. CASE t # clock
      <3>1. t \in 0 .. clock - 1
        BY <1>0, <2>1, <2>4
      <3> QED BY <2>2, <2>4, <3>1 DEF PastPower
    <2> QED BY <2>3, <2>4
  <1>2. CASE UNCHANGED <<clock, past>>
    BY <1>2 DEF PastPower
  <1>3. CASE TokenStep /\ UNCHANGED chainVars
    BY <1>2, <1>3 DEF TokenStep, Transfer, Mint, Delegate, TransferTokenOwnership, chainVars
  <1> QED BY <1>1, <1>2, <1>3 DEF Next, Vote, QueueStep, ExecuteStep, chainVars, tokenVars, vars

LEMMA PastPowerIsWithin ==
  TypeOK /\ PastPower => PastPowerWithinSupply
  <1> SUFFICES ASSUME TypeOK, PastPower, NEW t \in DOMAIN past
               PROVE  SumFunction(past[t].votes) <= past[t].supply
    BY DEF PastPowerWithinSupply
  <1>1. t \in 0 .. clock - 1 /\ past[t] \in Snapshot
    BY DEF TypeOK, TokenTypeOK
  <1>2. DOMAIN past[t].votes = Account
    BY <1>1 DEF Snapshot
  <1> QED BY <1>1, <1>2 DEF PastPower, SumFunction

LEMMA InitPastPower == Init => PastPower
  <1> SUFFICES ASSUME Init, NEW t \in 0 .. clock - 1
               PROVE  SumFunctionOnSet(past[t].votes, Account) <= past[t].supply
    BY DEF PastPower
  <1>1. t = 0 /\ past[0] = [votes |-> [a \in Account |-> 0], supply |-> 0]
    BY DEF Init, ChainInit, TokenInit
  <1> DEFINE v == past[t].votes
  <1>2. (\A a \in Account : v[a] = 0) /\ past[t].supply = 0
    BY <1>1
  <1> HIDE DEF v
  <1>3. SumFunctionOnSet(v, Account) = 0
    BY <1>2, TokenConstants, SumZero
  <1> QED BY <1>2, <1>3 DEF v

(* No snapshot gives the accounts more power than there were tokens.       *)
THEOREM SnapshotsWithinSupply == Spec => []PastPowerWithinSupply
  <1>1. TypeOK /\ [Next]_vars /\ Power => Power'
    BY StepPower
  <1>2. TypeOK /\ [Next]_vars /\ Power /\ PastPower => PastPower'
    BY StepPastPower
  <1> QED BY <1>1, <1>2, InitPower, InitPastPower, PastPowerIsWithin, TypeCorrect, PTL DEF Spec

-----------------------------------------------------------------------------
(* The vote on p is open or over: its snapshot is a block of the past.     *)
HasSnapshot(p) == voteStart[p] # 0 /\ voteStart[p] < clock

(* The tally is what the voters had at the snapshot, each counted once.    *)
CountedOf(p) ==
  IF HasSnapshot(p)
  THEN TotalVotes(p) = SumFunctionOnSet(past[voteStart[p]].votes, hasVoted[p])
  ELSE hasVoted[p] = {} /\ TotalVotes(p) = 0

BallotsCounted == \A p \in Proposal : CountedOf(p)

LEMMA SnapshotOf ==
  ASSUME TypeOK, NEW p \in Proposal, HasSnapshot(p)
  PROVE  /\ voteStart[p] \in DOMAIN past
         /\ past[voteStart[p]] \in Snapshot
         /\ IsFiniteSet(hasVoted[p]) /\ hasVoted[p] \in SUBSET Account
         /\ Integral(past[voteStart[p]].votes, hasVoted[p])
  <1>1. voteStart[p] \in 0 .. clock - 1 /\ hasVoted[p] \in SUBSET Account
    BY DEF TypeOK, ChainTypeOK, GovernorTypeOK, HasSnapshot
  <1>2. past[voteStart[p]] \in Snapshot /\ DOMAIN past = 0 .. clock - 1
    BY <1>1, PastSnapshots DEF TypeOK, TokenTypeOK
  <1>3. IsFiniteSet(hasVoted[p])
    BY <1>1, TokenConstants, FS_Subset
  <1>4. Integral(past[voteStart[p]].votes, hasVoted[p])
    BY <1>1, <1>2 DEF Snapshot, Integral
  <1> QED BY <1>1, <1>2, <1>3, <1>4

(* A step that moves neither the proposal nor its ballots.                 *)
LEMMA BallotFrame ==
  ASSUME TypeOK, TypeOK', BallotsCounted, [Next]_vars, NEW p \in Proposal,
         voteStart'[p] = voteStart[p], tally'[p] = tally[p], hasVoted'[p] = hasVoted[p],
         HasSnapshot(p)' <=> HasSnapshot(p)
  PROVE  CountedOf(p)'
  <1>1. TotalVotes(p)' = TotalVotes(p)
    BY DEF TotalVotes
  <1>2. CASE HasSnapshot(p)
    <2>1. past'[voteStart'[p]] = past[voteStart[p]]
      BY <1>2, SnapshotOf, PastGrows
    <2> QED BY <1>1, <1>2, <2>1 DEF BallotsCounted, CountedOf
  <1>3. CASE ~HasSnapshot(p)
    BY <1>1, <1>3 DEF BallotsCounted, CountedOf
  <1> QED BY <1>2, <1>3

LEMMA CastVoteBallots ==
  ASSUME TypeOK, BallotsCounted, NEW p \in Proposal, NEW voter \in Account,
         NEW support \in Support, CastVote(voter, p, support),
         UNCHANGED <<clock, past>>
  PROVE  /\ HasSnapshot(p)'
         /\ TotalVotes(p)' = SumFunctionOnSet(past'[voteStart'[p]].votes, hasVoted'[p])
  <1> DEFINE power == past[voteStart[p]].votes  weight == power[voter]
  <1>1. HasSnapshot(p) /\ voter \notin hasVoted[p]
    BY ActiveVoteStart DEF CastVote, HasSnapshot, TypeOK, ChainTypeOK
  <1>2. /\ past[voteStart[p]] \in Snapshot
        /\ IsFiniteSet(hasVoted[p]) /\ Integral(power, hasVoted[p])
    BY <1>1, SnapshotOf
  <1>3. weight \in Nat
    BY <1>2 DEF Snapshot
  <1>4. voteStart' = voteStart /\ hasVoted'[p] = hasVoted[p] \cup {voter}
    BY DEF CastVote, Count, proposalVars, TypeOK, GovernorTypeOK
  <1>5. HasSnapshot(p)'
    BY <1>1, <1>4 DEF HasSnapshot
  <1>6. SumFunctionOnSet(power, hasVoted[p] \cup {voter})
          = SumFunctionOnSet(power, hasVoted[p]) + weight
    <2> HIDE DEF power
    <2>1. weight \in Int
      BY <1>3
    <2> QED BY <1>1, <1>2, <2>1, SumAdd
  <1>7. TotalVotes(p)' = TotalVotes(p) + weight
    <2>1. tally \in [Proposal -> [Support -> Nat]]
      BY DEF TypeOK, GovernorTypeOK
    <2>2. tally' = [tally EXCEPT ![p][support] = @ + weight]
      BY DEF CastVote, Count
    <2> HIDE DEF weight
    <2>3. tally[p] \in [Support -> Nat] /\ tally'[p] = [tally[p] EXCEPT ![support] = @ + weight]
      BY <2>1, <2>2
    <2> QED BY <1>3, <2>3 DEF TotalVotes, Support
  <1>8. TotalVotes(p) = SumFunctionOnSet(power, hasVoted[p])
    BY <1>1 DEF BallotsCounted, CountedOf
  <1>9. past'[voteStart'[p]].votes = power
    BY <1>4
  <1> HIDE DEF power, weight
  <1> QED BY <1>4, <1>5, <1>6, <1>7, <1>8, <1>9

LEMMA StepBallots ==
  ASSUME TypeOK, TypeOK', BallotsCounted, [Next]_vars
  PROVE  BallotsCounted'
  <1> SUFFICES ASSUME NEW p \in Proposal PROVE CountedOf(p)'
    BY DEF BallotsCounted
  <1>0. /\ clock \in Nat /\ voteStart \in [Proposal -> Nat]
        /\ hasVoted \in [Proposal -> SUBSET Account]
        /\ tally \in [Proposal -> [Support -> Nat]] /\ VotingDelay \in Nat
    BY GovernorConstants DEF TypeOK, ChainTypeOK, GovernorTypeOK
  <1>1. CASE Mine
    <2>1. /\ UNCHANGED <<voteStart, tally, hasVoted>> /\ clock' = clock + 1
      BY <1>1 DEF Mine, NextBlock, governorVars, proposalVars, ballotVars
    <2>2. CASE HasSnapshot(p)' <=> HasSnapshot(p)
      BY <2>1, <2>2, BallotFrame
    <2>3. CASE ~(HasSnapshot(p)' <=> HasSnapshot(p))
      <3>1. ~HasSnapshot(p)
        BY <1>0, <2>1, <2>3 DEF HasSnapshot
      <3>2. TotalVotes(p)' = 0 /\ hasVoted'[p] = {}
        BY <2>1, <3>1 DEF BallotsCounted, CountedOf, TotalVotes
      <3>3. SumFunctionOnSet(past'[voteStart'[p]].votes, hasVoted'[p]) = 0
        BY <3>2, SumEmpty
      <3> QED BY <3>2, <3>3 DEF CountedOf
    <2> QED BY <2>2, <2>3
  <1>2. ASSUME UNCHANGED <<clock, voteStart, tally, hasVoted>>
        PROVE  CountedOf(p)'
    BY <1>2, BallotFrame DEF HasSnapshot
  <1>3. ASSUME NEW q \in Proposal, Vote(q) PROVE CountedOf(p)'
    <2>0. UNCHANGED <<clock, past>>
      BY <1>3 DEF Vote, chainVars, tokenVars
    <2>1. ASSUME NEW caller \in Account, Propose(caller, q) PROVE CountedOf(p)'
      <3>1. UNCHANGED <<tally, hasVoted>>
        BY <2>1 DEF Propose, ballotVars
      <3>2. CASE p = q
        <4>1. ~HasSnapshot(p) /\ ~HasSnapshot(p)'
          BY <1>0, <2>0, <2>1, <3>2 DEF Propose, HasSnapshot
        <4> QED BY <3>1, <4>1 DEF BallotsCounted, CountedOf, TotalVotes
      <3>3. CASE p # q
        <4>1. voteStart'[p] = voteStart[p]
          BY <1>0, <2>1, <3>3 DEF Propose
        <4> QED BY <2>0, <3>1, <4>1, BallotFrame DEF HasSnapshot
      <3> QED BY <3>2, <3>3
    <2>2. ASSUME NEW caller \in Account, Cancel(caller, q) PROVE CountedOf(p)'
      BY <1>2, <2>0, <2>2 DEF Cancel, ballotVars
    <2>3. ASSUME NEW voter \in Account, NEW support \in Support, CastVote(voter, q, support)
          PROVE  CountedOf(p)'
      <3>1. CASE p = q
        BY <2>0, <2>3, <3>1, CastVoteBallots DEF CountedOf
      <3>2. CASE p # q
        <4>1. voteStart' = voteStart /\ tally'[p] = tally[p] /\ hasVoted'[p] = hasVoted[p]
          BY <1>0, <2>3, <3>2 DEF CastVote, Count, proposalVars
        <4> QED BY <2>0, <4>1, BallotFrame DEF HasSnapshot
      <3> QED BY <3>1, <3>2
    <2> QED BY <1>3, <2>1, <2>2, <2>3 DEF Vote
  <1>4. ASSUME NEW q \in Proposal, QueueStep(q) \/ ExecuteStep(q) PROVE CountedOf(p)'
    BY <1>2, <1>4 DEF QueueStep, Queue, ExecuteStep, Execute, ballotVars, chainVars
  <1>5. CASE UNCHANGED <<chainVars, governorVars>>
    BY <1>2, <1>5 DEF chainVars, governorVars, proposalVars, ballotVars
  <1> QED BY <1>1, <1>3, <1>4, <1>5 DEF Next, vars

LEMMA BallotsWithinSupply ==
  TypeOK /\ PastPower /\ BallotsCounted => NoTokenVotesTwice
  <1> SUFFICES ASSUME TypeOK, PastPower, BallotsCounted, NEW p \in Proposal, HasSnapshot(p)
               PROVE  /\ TotalVotes(p) = SumFunctionOnSet(past[voteStart[p]].votes, hasVoted[p])
                      /\ TotalVotes(p) <= past[voteStart[p]].supply
    BY DEF NoTokenVotesTwice, HasSnapshot
  <1> DEFINE power == past[voteStart[p]].votes  total == past[voteStart[p]].supply
  <1>1. TotalVotes(p) = SumFunctionOnSet(power, hasVoted[p])
    BY DEF BallotsCounted, CountedOf
  <1>2. /\ voteStart[p] \in 0 .. clock - 1 /\ hasVoted[p] \in SUBSET Account
        /\ power \in [Account -> Nat] /\ total \in Nat
    BY SnapshotOf DEF Snapshot, TypeOK, TokenTypeOK
  <1>3. SumFunctionOnSet(power, Account) <= total
    BY <1>2 DEF PastPower
  <1> HIDE DEF power, total
  <1>4. IsFiniteSet(Account) /\ IsFiniteSet(hasVoted[p]) /\ \A a \in Account : power[a] \in Nat
    BY <1>2, TokenConstants, FS_Subset
  <1>5. SumFunctionOnSet(power, hasVoted[p]) <= SumFunctionOnSet(power, Account)
    BY <1>2, <1>4, SumSubset
  <1>6. SumFunctionOnSet(power, hasVoted[p]) \in Nat /\ SumFunctionOnSet(power, Account) \in Nat
    BY <1>2, <1>4, SumNat
  <1> QED BY <1>1, <1>2, <1>3, <1>5, <1>6 DEF power, total

LEMMA InitBallots == Init => BallotsCounted
  BY DEF Init, BallotsCounted, CountedOf, HasSnapshot, TotalVotes, Support

(* All ballots on a proposal weigh what their voters had at its snapshot,  *)
(* and together never more than the supply of that block.                  *)
THEOREM TokensVoteOnce == Spec => []NoTokenVotesTwice
  <1>1. TypeOK /\ [Next]_vars /\ Power => Power'
    BY StepPower
  <1>2. TypeOK /\ [Next]_vars /\ Power /\ PastPower => PastPower'
    BY StepPastPower
  <1>3. TypeOK /\ TypeOK' /\ [Next]_vars /\ BallotsCounted => BallotsCounted'
    BY StepBallots
  <1> QED BY <1>1, <1>2, <1>3, InitPower, InitPastPower, InitBallots, BallotsWithinSupply,
             TypeCorrect, PTL DEF Spec
=============================================================================

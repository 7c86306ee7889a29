------------------------------ MODULE Deployer ------------------------------
(***************************************************************************)
(* The deployment script of the DAO, dao/cmd/contracts/deployer.go, and    *)
(* the account it signs with.  The script is a straight line of reads,     *)
(* deployments and transactions; each of its transactions is a fetch of    *)
(* the account's next nonce, a send and a wait, with the node, the miners  *)
(* and any other program that signs with the same key acting in between.   *)
(* An error ends the script and leaves on chain what was sent; whoever     *)
(* started it may start it again, which deploys everything anew.           *)
(*                                                                         *)
(* The address of a deployed contract is determined by the nonce of its    *)
(* transaction, so addresses are nonces here.                              *)
(***************************************************************************)
EXTENDS Integers, Sequences, FiniteSets

CONSTANTS
  MaxNonce,    \* bound: the last nonce of the account that is used
  MaxRuns,     \* bound: how often the script is started
  MaxForeign   \* bound: transactions of other programs with the same key

ASSUME DeployerConstants ==
  MaxNonce \in Nat /\ MaxRuns \in Nat \ {0} /\ MaxForeign \in Nat

Contract == {"GovToken", "TimeLock", "Cert", "MyGovernor"}

NoAddress == -1

Deployed(contract, code) == [do |-> "deploy", contract |-> contract, code |-> code]

(* Mutant: the grants come before the governor has an address.             *)
ScriptGrantingEarly ==
  << [do |-> "read"],
     Deployed("GovToken", "GovToken"), Deployed("TimeLock", "TimeLock"),
     Deployed("Cert", "Cert"),
     [do |-> "grant", role |-> "PROPOSER"],
     Deployed("MyGovernor", "Cert"),
     [do |-> "read"], [do |-> "delegate"], [do |-> "read"],
     [do |-> "grant", role |-> "EXECUTOR"] >>

(* Mutant: Cert is deployed before the timelock that is to own it.         *)
ScriptCertFirst ==
  << [do |-> "read"],
     Deployed("GovToken", "GovToken"), Deployed("Cert", "Cert"),
     Deployed("TimeLock", "TimeLock"), Deployed("MyGovernor", "Cert"),
     [do |-> "read"], [do |-> "delegate"], [do |-> "read"],
     [do |-> "grant", role |-> "PROPOSER"],
     [do |-> "grant", role |-> "EXECUTOR"] >>

(***************************************************************************)
(* main, line by line: initialize; the four deployments, the last of which *)
(* is given the metadata of Cert; the reads of balance and votes around    *)
(* the delegation; the two grants.                                         *)
(***************************************************************************)
Script ==
  << [do |-> "read"],
     Deployed("GovToken", "GovToken"), Deployed("TimeLock", "TimeLock"),
     Deployed("Cert", "Cert"), Deployed("MyGovernor", "Cert"),
     [do |-> "read"], [do |-> "delegate"], [do |-> "read"],
     [do |-> "grant", role |-> "PROPOSER"],
     [do |-> "grant", role |-> "EXECUTOR"] >>

VARIABLES
  run,      \* how often the script was started
  pc,       \* index in Script of the step it is at
  stage,    \* "opts", "send", "wait", or "failed" after an error
  nonce,    \* opts.Nonce, as newOpts last set it
  waitsFor, \* the transaction whose receipt is awaited
  addr,     \* [Contract -> address or NoAddress], the script's variables
  pool,     \* pending transactions of the account, at most one a nonce
  mined,    \* sequence of mined transactions: the nth has nonce n - 1
  foreign   \* how many transactions other programs have sent

scriptVars == <<run, pc, stage, nonce, waitsFor, addr>>
chainVars == <<pool, mined, foreign>>
deployerVars == <<scriptVars, chainVars>>

Step == Script[pc]
Running == stage # "failed" /\ pc <= Len(Script)

(* What is at an address: nothing, or the code and constructor arguments   *)
(* of the deployment that was mined with that nonce.                       *)
CodeAt(a) ==
  IF a \in 0 .. Len(mined) - 1 /\ mined[a + 1].do = "deploy"
  THEN mined[a + 1].code ELSE "none"

Mined(tx) == \E n \in 1 .. Len(mined) : mined[n] = tx

PendingNonce == Len(mined) + Cardinality(DOMAIN pool)

-----------------------------------------------------------------------------
DeployerInit ==
  /\ run = 1
  /\ pc = 1
  /\ stage = "opts"
  /\ nonce = 0
  /\ waitsFor = [do |-> "none"]
  /\ addr = [c \in Contract |-> NoAddress]
  /\ pool = [n \in {} |-> [do |-> "none"]]
  /\ mined = <<>>
  /\ foreign = 0

(* initialize, balanceOf and getVotes: a call that changes nothing.        *)
Read ==
  /\ Running /\ Step.do = "read"
  /\ pc' = pc + 1
  /\ UNCHANGED <<run, stage, nonce, waitsFor, addr, chainVars>>

(* Mutant: one nonce is left out.                                          *)
NewOptsLeavingGap ==
  /\ Running /\ Step.do # "read" /\ stage = "opts"
  /\ nonce' = PendingNonce + 1
  /\ stage' = "send"
  /\ UNCHANGED <<run, pc, waitsFor, addr, chainVars>>

(* newOpts: the next nonce, counting what is pending.                      *)
NewOpts ==
  /\ Running /\ Step.do # "read" /\ stage = "opts"
  /\ nonce' = PendingNonce
  /\ stage' = "send"
  /\ UNCHANGED <<run, pc, waitsFor, addr, chainVars>>

(* The arguments of a constructor.                                         *)
Args(contract) ==
  IF contract = "Cert" THEN <<addr["TimeLock"]>>
  ELSE IF contract = "MyGovernor" THEN <<addr["GovToken"], addr["TimeLock"]>>
  ELSE <<>>

(* The transaction of the current step, with its arguments.                *)
TxOf(step) ==
  IF step.do = "deploy"
  THEN [by |-> run, nonce |-> nonce, do |-> "deploy",
        code |-> step.code, args |-> Args(step.contract)]
  ELSE IF step.do = "delegate"
  THEN [by |-> run, nonce |-> nonce, do |-> "delegate", token |-> addr["GovToken"]]
  ELSE [by |-> run, nonce |-> nonce, do |-> "grant",
        timelock |-> addr["TimeLock"], role |-> step.role, to |-> addr["MyGovernor"]]

(* A transaction enters the pool, or takes the place of a pending one.     *)
PoolWith(n, tx) ==
  [m \in DOMAIN pool \cup {n} |-> IF m = n THEN tx ELSE pool[m]]

(* The node takes a transaction whose nonce is not used yet; one that      *)
(* would replace a pending transaction at the same price is refused.       *)
Accepted(n) == n >= Len(mined) /\ n \notin DOMAIN pool

Fail ==
  /\ stage' = "failed"
  /\ UNCHANGED <<run, pc, nonce, waitsFor, addr>>

(* bind.LinkAndDeploy and bind.Transact                                    *)
Send ==
  /\ Running /\ stage = "send"
  /\ nonce <= MaxNonce
  /\ IF Accepted(nonce)
     THEN /\ pool' = PoolWith(nonce, TxOf(Step))
          /\ waitsFor' = TxOf(Step)
          /\ stage' = "wait"
          /\ UNCHANGED <<run, pc, nonce, addr, mined, foreign>>
     ELSE Fail /\ UNCHANGED chainVars

Returned ==
  /\ addr' = IF Step.do = "deploy" THEN [addr EXCEPT ![Step.contract] = nonce] ELSE addr
  /\ pc' = pc + 1
  /\ stage' = "opts"
  /\ UNCHANGED <<run, nonce, waitsFor, chainVars>>

(* Mutant: the address is used as soon as the deployment is sent.          *)
ConfirmUnmined == Running /\ stage = "wait" /\ Returned

(* bind.WaitDeployed and bind.WaitMined: the receipt of this transaction.  *)
Confirm ==
  /\ Running /\ stage = "wait"
  /\ Mined(waitsFor)
  /\ Returned

(* Any call to the node may fail; a send may fail after the node took it.  *)
(* While it waits for a receipt the script polls on whatever the node      *)
(* answers, for its context never expires; but WaitDeployed then looks for *)
(* the code, and that call may fail.                                       *)
NodeError ==
  /\ Running
  /\ stage = "wait" => Step.do = "deploy" /\ Mined(waitsFor)
  /\ Fail
  /\ \/ UNCHANGED chainVars
     \/ /\ stage = "send" /\ nonce <= MaxNonce /\ Accepted(nonce)
        /\ pool' = PoolWith(nonce, TxOf(Step))
        /\ UNCHANGED <<mined, foreign>>

(* make deploy, once more; the process may also be killed while it waits.  *)
Restart ==
  /\ stage \in {"failed", "wait"} /\ run < MaxRuns
  /\ run' = run + 1
  /\ pc' = 1
  /\ stage' = "opts"
  /\ nonce' = 0
  /\ waitsFor' = [do |-> "none"]
  /\ addr' = [c \in Contract |-> NoAddress]
  /\ UNCHANGED chainVars

(* A miner takes the account's transaction whose turn it is.               *)
MineTx ==
  /\ Len(mined) \in DOMAIN pool
  /\ mined' = Append(mined, pool[Len(mined)])
  /\ pool' = [n \in DOMAIN pool \ {Len(mined)} |-> pool[n]]
  /\ UNCHANGED <<scriptVars, foreign>>

(* Another program signs with the same key: the next nonce, or a pending   *)
(* one at a higher price.  It may deploy a contract of its own.            *)
ForeignTx ==
  /\ foreign < MaxForeign
  /\ \E n \in (DOMAIN pool \cup {PendingNonce}) \cap 0 .. MaxNonce :
       pool' = PoolWith(n, [by |-> 0, nonce |-> n, do |-> "deploy",
                            code |-> "other", args |-> <<>>])
  /\ foreign' = foreign + 1
  /\ UNCHANGED <<scriptVars, mined>>

DeployerNext ==
  \/ Read \/ NewOpts \/ Send \/ Confirm \/ NodeError \/ Restart
  \/ MineTx \/ ForeignTx

DeployerSpec == DeployerInit /\ [][DeployerNext]_deployerVars

(* The script runs on and the miners take what is in the pool.  Nothing    *)
(* makes anybody start it again.                                           *)
FairDeployerSpec ==
  /\ DeployerSpec
  /\ WF_deployerVars(Read) /\ WF_deployerVars(NewOpts) /\ WF_deployerVars(Send)
  /\ WF_deployerVars(Confirm) /\ WF_deployerVars(MineTx)

-----------------------------------------------------------------------------
Finished == pc > Len(Script)

Granted(timelock, role) ==
  {mined[n].to : n \in {m \in 1 .. Len(mined) :
     mined[m].do = "grant" /\ mined[m].timelock = timelock /\ mined[m].role = role}}

(* An address the script works with holds the code this very run deployed  *)
(* there, never another run's or another program's contract that was mined *)
(* with the nonce the script had fetched (deployContract waits for its own *)
(* transaction before it returns the address).                             *)
AddressesHoldOwnCode ==
  \A s \in 1 .. pc - 1 :
    LET step == Script[s] IN
    step.do = "deploy" =>
      /\ CodeAt(addr[step.contract]) = step.code
      /\ mined[addr[step.contract] + 1].by = run

(* A script that finished leaves one wiring, whatever earlier runs left    *)
(* behind: the certificates belong to the timelock of the same run, both   *)
(* roles on it were granted to the address the run calls MyGovernor and    *)
(* nobody else, and the deployer's power is delegated on the run's token.  *)
(* Which code is at that address is the matter of GovernorIsGovernor.      *)
FinishedIsWired ==
  Finished =>
    /\ mined[addr["Cert"] + 1].args = <<addr["TimeLock"]>>
    /\ mined[addr["MyGovernor"] + 1].args = <<addr["GovToken"], addr["TimeLock"]>>
    /\ \A role \in {"PROPOSER", "EXECUTOR"} :
         Granted(addr["TimeLock"], role) = {addr["MyGovernor"]}
    /\ \E n \in 1 .. Len(mined) :
         mined[n].do = "delegate" /\ mined[n].token = addr["GovToken"]

(* No role is ever granted to an address without code or to the code of    *)
(* another program, in whichever run and however that run ended.           *)
GrantsOnlyToDeployed ==
  \A n \in 1 .. Len(mined) :
    mined[n].do = "grant" =>
      /\ CodeAt(mined[n].to) \notin {"none", "other"}
      /\ CodeAt(mined[n].timelock) = "TimeLock"

(* The transaction whose receipt the script waits for lost its nonce to    *)
(* another program, in the pool or in a block.                             *)
Replaced ==
  /\ stage = "wait"
  /\ \/ nonce \in DOMAIN pool /\ pool[nonce].by = 0
     \/ nonce < Len(mined) /\ mined[nonce + 1].by = 0

(* Every run of the script ends, with success or an error, unless another  *)
(* program took the nonce of the very transaction it waits for: it never   *)
(* waits for a transaction that cannot be mined, also after earlier runs   *)
(* left transactions pending and whatever other programs sent with the     *)
(* key before or between its own transactions.                             *)
ScriptEnds == []<>(Finished \/ stage = "failed" \/ Replaced)

(* What the script calls MyGovernor is the MyGovernor contract ("Deploy    *)
(* MyGovernor contract", "MyGovernor deployed at").                        *)
GovernorIsGovernor ==
  addr["MyGovernor"] # NoAddress => CodeAt(addr["MyGovernor"]) = "MyGovernor"
=============================================================================

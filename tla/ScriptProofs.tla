--------------------------- MODULE ScriptProofs -----------------------------
(***************************************************************************)
(* Proofs about the two scripts that talk to a node, each for itself: the  *)
(* deployment script for every number of runs, of nonces and of foreign    *)
(* transactions, and the diagnostics for every choice of checks, every     *)
(* number of retries and both modes.                                       *)
(*                                                                         *)
(* The three properties of the deployment's run look at the chain only;    *)
(* what makes them true is also in the pool, where the transactions of     *)
(* earlier runs may still wait.  So IInv speaks of every nonce that is     *)
(* taken, mined or pending (Taken, TxAt): the transaction is at its own    *)
(* nonce, which ties the receipt the script waits for to the address it    *)
(* takes from it, and a grant on its way already names the timelock and    *)
(* the governor of the run that sent it.  Mining moves a transaction and   *)
(* changes neither Taken nor TxAt.                                         *)
(***************************************************************************)
EXTENDS Deployer, Diagnostics, FiniteSetTheorems, SequenceTheorems, TLAPS

-----------------------------------------------------------------------------
(* The deployment script.                                                  *)

(* What a nonce was used for, or is going to be.                           *)
Taken == 0 .. Len(mined) - 1 \cup DOMAIN pool

TxAt(n) == IF n < Len(mined) THEN mined[n + 1] ELSE pool[n]

Code == {"GovToken", "TimeLock", "Cert", "other"}
Role == {"PROPOSER", "EXECUTOR"}
DeploymentTx == [by : Nat, nonce : Nat, do : {"deploy"}, code : Code, args : Seq(Int)]
DelegationTx == [by : Nat, nonce : Nat, do : {"delegate"}, token : Int]
GrantTx ==
  [by : Nat, nonce : Nat, do : {"grant"}, timelock : Int, role : Role, to : Int]
Tx == DeploymentTx \cup DelegationTx \cup GrantTx

TypeOK ==
  /\ run \in Nat \ {0}
  /\ pc \in 1 .. Len(Script) + 1
  /\ stage \in {"opts", "send", "wait", "failed"}
  /\ nonce \in Nat
  /\ addr \in [Contract -> Int]
  /\ mined \in Seq(Tx)
  /\ pool \in [DOMAIN pool -> Tx]
  /\ DOMAIN pool \in SUBSET Nat
  /\ IsFiniteSet(DOMAIN pool)

(* A transaction is at its own nonce, and no run to come has sent it.      *)
NoncesAreOwn ==
  /\ \A n \in DOMAIN pool : n >= Len(mined)
  /\ \A n \in Taken : TxAt(n).nonce = n /\ TxAt(n).by <= run

(* What the script is about to send, or waits for.                         *)
StepIsOpen ==
  /\ stage \in {"send", "wait"} => pc <= Len(Script) /\ Step.do # "read"
  /\ stage = "wait" => waitsFor = TxOf(Step)

(* a is where this run deployed a code, with its arguments.                *)
IsDeployment(a, text, args) ==
  /\ a \in 0 .. Len(mined) - 1
  /\ mined[a + 1].do = "deploy"
  /\ mined[a + 1].code = text
  /\ mined[a + 1].args = args
  /\ mined[a + 1].by = run

DeploymentsMined ==
  \A s \in 1 .. pc - 1 :
    Script[s].do = "deploy" =>
      IsDeployment(addr[Script[s].contract], Script[s].code, Args(Script[s].contract))

(* A grant is about the timelock and the governor of the run that sent it. *)
GrantIsOwn(tx) ==
  /\ CodeAt(tx.timelock) = "TimeLock"
  /\ mined[tx.timelock + 1].by = tx.by
  /\ CodeAt(tx.to) = "Cert"
  /\ tx.by = run => pc > 8 /\ tx.timelock = addr["TimeLock"] /\ tx.to = addr["MyGovernor"]

GrantsAreOwn == \A n \in Taken : TxAt(n).do = "grant" => GrantIsOwn(TxAt(n))

(* What the script has done beside deploying is in the chain.              *)
CallsMined ==
  \A s \in 1 .. pc - 1 :
    /\ Script[s].do = "delegate" =>
         \E n \in 1 .. Len(mined) : mined[n].do = "delegate" /\ mined[n].token = addr["GovToken"]
    /\ Script[s].do = "grant" =>
         \E n \in 1 .. Len(mined) :
           mined[n].do = "grant" /\ mined[n].by = run /\ mined[n].role = Script[s].role

IInv ==
  TypeOK /\ NoncesAreOwn /\ StepIsOpen /\ DeploymentsMined /\ GrantsAreOwn /\ CallsMined

-----------------------------------------------------------------------------
(* The script, step by step.                                               *)
LEMMA ScriptShape ==
  /\ Len(Script) = 10
  /\ \A s \in {1, 6, 8} : Script[s].do = "read"
  /\ \A s \in 2 .. 5 : Script[s].do = "deploy"
  /\ Script[2].contract = "GovToken" /\ Script[2].code = "GovToken"
  /\ Script[3].contract = "TimeLock" /\ Script[3].code = "TimeLock"
  /\ Script[4].contract = "Cert" /\ Script[4].code = "Cert"
  /\ Script[5].contract = "MyGovernor" /\ Script[5].code = "Cert"
  /\ Script[7].do = "delegate"
  /\ Script[9].do = "grant" /\ Script[9].role = "PROPOSER"
  /\ Script[10].do = "grant" /\ Script[10].role = "EXECUTOR"
  <1>1. \A s \in 2 .. 5 : s = 2 \/ s = 3 \/ s = 4 \/ s = 5
    OBVIOUS
  <1> QED BY <1>1 DEF Script, Deployed

(* What the steps of each kind are, and where they are.                    *)
LEMMA StepKinds ==
  ASSUME NEW s \in 1 .. 10
  PROVE  /\ Script[s].do \in {"read", "deploy", "delegate", "grant"}
         /\ Script[s].do = "deploy" =>
              s \in 2 .. 5 /\ Script[s].contract \in Contract /\ Script[s].code \in Code
         /\ Script[s].do = "delegate" => s = 7
         /\ Script[s].do = "grant" => s \in {9, 10} /\ Script[s].role \in Role
  <1>1. \/ s = 1 \/ s = 2 \/ s = 3 \/ s = 4 \/ s = 5
        \/ s = 6 \/ s = 7 \/ s = 8 \/ s = 9 \/ s = 10
    OBVIOUS
  <1>2. CASE s \in {1, 6, 8}
    <2>1. Script[s].do = "read"
      BY <1>2, ScriptShape
    <2> QED BY <2>1
  <1>3. CASE s \in 2 .. 5
    <2>1. Script[s].do = "deploy"
      BY <1>3, ScriptShape
    <2>2. Script[s].contract \in Contract /\ Script[s].code \in Code
      BY <1>1, <1>3, ScriptShape DEF Contract, Code
    <2> QED BY <1>3, <2>1, <2>2
  <1>4. CASE s = 7
    BY <1>4, ScriptShape
  <1>5. CASE s \in {9, 10}
    <2>1. Script[s].do = "grant" /\ Script[s].role \in Role
      BY <1>5, ScriptShape DEF Role
    <2> QED BY <1>5, <2>1
  <1> QED BY <1>1, <1>2, <1>3, <1>4, <1>5

(* The arguments of a constructor are addresses.                           *)
LEMMA ArgsType ==
  ASSUME TypeOK, NEW c
  PROVE  Args(c) \in Seq(Int)
  BY DEF Args, TypeOK, Contract

(* What the script sends is a transaction with its nonce and its run.      *)
LEMMA TxOfType ==
  ASSUME TypeOK, pc <= Len(Script), Step.do # "read"
  PROVE  /\ TxOf(Step) \in Tx
         /\ TxOf(Step).nonce = nonce
         /\ TxOf(Step).by = run
         /\ TxOf(Step).do = Step.do
  <1>1. pc \in 1 .. 10
    BY ScriptShape DEF TypeOK
  <1>2. Step.do \in {"deploy", "delegate", "grant"}
    BY <1>1, StepKinds DEF Step
  <1>3. CASE Step.do = "deploy"
    <2>1. Step.code \in Code /\ Args(Step.contract) \in Seq(Int)
      BY <1>1, <1>3, StepKinds, ArgsType DEF Step
    <2> QED BY <1>3, <2>1 DEF TxOf, Tx, DeploymentTx, TypeOK
  <1>4. CASE Step.do = "delegate"
    BY <1>4 DEF TxOf, Tx, DelegationTx, TypeOK, Contract
  <1>5. CASE Step.do = "grant"
    <2>1. Step.role \in Role
      BY <1>1, <1>5, StepKinds DEF Step
    <2> QED BY <1>5, <2>1 DEF TxOf, Tx, GrantTx, TypeOK, Contract
  <1> QED BY <1>2, <1>3, <1>4, <1>5

(* The next nonce is a natural number, past what is mined.                 *)
LEMMA PendingType ==
  ASSUME TypeOK
  PROVE  PendingNonce \in Nat /\ PendingNonce >= Len(mined)
  <1>1. Cardinality(DOMAIN pool) \in Nat
    BY FS_CardinalityType DEF TypeOK
  <1>2. Len(mined) \in Nat
    BY DEF TypeOK
  <1> QED BY <1>1, <1>2 DEF PendingNonce

(* The pool with one transaction more, or another one.                     *)
LEMMA PoolWithType ==
  ASSUME TypeOK, NEW n \in Nat, NEW tx \in Tx, pool' = PoolWith(n, tx)
  PROVE  /\ pool' \in [DOMAIN pool' -> Tx]
         /\ DOMAIN pool' = DOMAIN pool \cup {n}
         /\ DOMAIN pool' \in SUBSET Nat
         /\ IsFiniteSet(DOMAIN pool')
         /\ pool'[n] = tx
         /\ \A m \in DOMAIN pool : m # n => pool'[m] = pool[m]
  <1>1. IsFiniteSet(DOMAIN pool \cup {n})
    BY FS_AddElement DEF TypeOK
  <1> QED BY <1>1 DEF PoolWith, TypeOK

(* The three kinds of step: what is taken stays; the script's transaction  *)
(* takes a free nonce; one of another program takes a nonce not mined yet. *)
TakenStays == Taken' = Taken /\ \A n \in Taken : TxAt(n)' = TxAt(n)

Takes(n, tx) ==
  /\ n \in Nat /\ n >= Len(mined) /\ mined' = mined
  /\ Taken' = Taken \cup {n}
  /\ TxAt(n)' = tx
  /\ \A m \in Taken : m # n => TxAt(m)' = TxAt(m)

LEMMA PoolWithTakes ==
  ASSUME TypeOK, NEW n \in Nat, NEW tx \in Tx, n >= Len(mined),
         pool' = PoolWith(n, tx), mined' = mined
  PROVE  Takes(n, tx)
  <1>1. Len(mined) \in Nat
    BY DEF TypeOK
  <1>0. /\ DOMAIN pool' = DOMAIN pool \cup {n}
        /\ pool'[n] = tx
        /\ \A m \in DOMAIN pool : m # n => pool'[m] = pool[m]
    BY PoolWithType
  <1>2. Taken' = Taken \cup {n}
    BY <1>0 DEF Taken
  <1>3. TxAt(n)' = tx
    BY <1>0, <1>1 DEF TxAt
  <1>4. ASSUME NEW m \in Taken, m # n PROVE TxAt(m)' = TxAt(m)
    <2>1. CASE m < Len(mined)
      BY <2>1 DEF TxAt
    <2>2. CASE ~ (m < Len(mined))
      <3>1. m \in DOMAIN pool
        BY <1>1, <2>2 DEF Taken
      <3> QED BY <1>0, <1>4, <2>2, <3>1 DEF TxAt
    <2> QED BY <2>1, <2>2
  <1> QED BY <1>2, <1>3, <1>4 DEF Takes

(* What is mined stays where it is.                                        *)
Grows ==
  /\ Len(mined') >= Len(mined)
  /\ \A n \in 1 .. Len(mined) : mined'[n] = mined[n]

(* Another program's transaction, which deploys a contract of its own.     *)
Foreign(n) ==
  [by |-> 0, nonce |-> n, do |-> "deploy", code |-> "other", args |-> <<>>]

(* What one step does to the nonces that are taken.                        *)
LEMMA ChainStep ==
  ASSUME TypeOK, NoncesAreOwn, StepIsOpen, [DeployerNext]_deployerVars
  PROVE  /\ Grows
         /\ \/ TakenStays
            \/ /\ Takes(nonce, TxOf(Step)) /\ stage = "send"
               /\ UNCHANGED <<run, pc, nonce, addr>>
            \/ \E n \in Nat : Takes(n, Foreign(n)) /\ UNCHANGED scriptVars
  <1>1. Len(mined) \in Nat
    BY DEF TypeOK
  <1>2. ASSUME UNCHANGED <<mined, pool>> PROVE Grows /\ TakenStays
    BY <1>1, <1>2 DEF Grows, TakenStays, Taken, TxAt
  <1>3. ASSUME stage = "send", Accepted(nonce), pool' = PoolWith(nonce, TxOf(Step)),
               mined' = mined
        PROVE  Grows /\ Takes(nonce, TxOf(Step))
    <2>1. TxOf(Step) \in Tx
      BY <1>3, TxOfType DEF StepIsOpen
    <2>2. Takes(nonce, TxOf(Step))
      BY <1>3, <2>1, PoolWithTakes DEF Accepted, TypeOK
    <2> QED BY <1>1, <1>3, <2>2 DEF Grows
  <1>4. CASE UNCHANGED deployerVars
    BY <1>2, <1>4 DEF deployerVars, chainVars
  <1>5. CASE Read \/ NewOpts \/ Confirm \/ Restart
    BY <1>2, <1>5 DEF Read, NewOpts, Confirm, Returned, Restart, chainVars
  <1>6. CASE Send
    BY <1>2, <1>3, <1>6 DEF Send, chainVars
  <1>7. CASE NodeError
    BY <1>2, <1>3, <1>7 DEF NodeError, Fail, chainVars
  <1>8. CASE MineTx
    <2>1. Len(mined) \in DOMAIN pool /\ pool[Len(mined)] \in Tx
      BY <1>8 DEF MineTx, TypeOK
    <2>2. /\ Len(mined') = Len(mined) + 1
          /\ \A n \in 1 .. Len(mined) : mined'[n] = mined[n]
          /\ mined'[Len(mined) + 1] = pool[Len(mined)]
      BY <1>8, <2>1, AppendProperties DEF MineTx, TypeOK
    <2>3. /\ DOMAIN pool' = DOMAIN pool \ {Len(mined)}
          /\ \A n \in DOMAIN pool' : pool'[n] = pool[n]
      BY <1>8 DEF MineTx
    <2>4. Taken' = Taken
      BY <1>1, <2>1, <2>2, <2>3 DEF Taken, TypeOK, NoncesAreOwn
    <2>5. ASSUME NEW n \in Taken PROVE TxAt(n)' = TxAt(n)
      <3>1. CASE n < Len(mined)
        <4>1. n + 1 \in 1 .. Len(mined) /\ n < Len(mined')
          <5>1. n \in Nat
            BY DEF Taken, TypeOK
          <5> QED BY <1>1, <2>2, <3>1, <5>1
        <4>2. mined'[n + 1] = mined[n + 1]
          BY <2>2, <4>1
        <4> QED BY <3>1, <4>1, <4>2 DEF TxAt
      <3>2. CASE n = Len(mined)
        BY <1>1, <2>2, <3>2 DEF TxAt
      <3>3. CASE n > Len(mined)
        <4>1. n \in DOMAIN pool'
          BY <1>1, <2>3, <3>3 DEF Taken
        <4>2. n \in Nat
          BY <4>1, <2>3 DEF TypeOK
        <4> QED BY <1>1, <2>2, <2>3, <3>3, <4>1, <4>2 DEF TxAt
      <3> QED BY <1>1, <3>1, <3>2, <3>3 DEF Taken, TypeOK
    <2> QED BY <1>1, <2>2, <2>4, <2>5 DEF Grows, TakenStays
  <1>9. CASE ForeignTx
    <2>1. PICK n \in (DOMAIN pool \cup {PendingNonce}) \cap 0 .. MaxNonce :
            pool' = PoolWith(n, Foreign(n))
      BY <1>9 DEF ForeignTx, Foreign
    <2>2. n \in Nat /\ n >= Len(mined)
      BY PendingType DEF TypeOK, NoncesAreOwn
    <2>3. Foreign(n) \in Tx
      BY <2>2 DEF Foreign, Tx, DeploymentTx, Code
    <2>4. Takes(n, Foreign(n)) /\ mined' = mined /\ UNCHANGED scriptVars
      BY <1>9, <2>1, <2>2, <2>3, PoolWithTakes DEF ForeignTx
    <2> QED BY <1>1, <2>2, <2>4 DEF Grows
  <1> QED BY <1>4, <1>5, <1>6, <1>7, <1>8, <1>9 DEF DeployerNext

-----------------------------------------------------------------------------
(* Type correctness is preserved.                                          *)
LEMMA TypeStep ==
  ASSUME TypeOK, StepIsOpen, NoncesAreOwn, [DeployerNext]_deployerVars
  PROVE  TypeOK'
  <1>1. CASE UNCHANGED deployerVars
    BY <1>1 DEF TypeOK, deployerVars, scriptVars, chainVars
  <1>2. CASE Read
    BY <1>2, ScriptShape DEF Read, TypeOK, Running, chainVars
  <1>3. CASE NewOpts
    BY <1>3, PendingType DEF NewOpts, TypeOK, chainVars
  <1>4. ASSUME stage = "send", pool' = PoolWith(nonce, TxOf(Step))
        PROVE  /\ pool' \in [DOMAIN pool' -> Tx]
               /\ DOMAIN pool' \in SUBSET Nat
               /\ IsFiniteSet(DOMAIN pool')
    <2>1. TxOf(Step) \in Tx /\ nonce \in Nat
      BY <1>4, TxOfType DEF StepIsOpen, TypeOK
    <2> QED BY <1>4, <2>1, PoolWithType
  <1>5. CASE Send
    BY <1>4, <1>5 DEF Send, Fail, TypeOK, chainVars
  <1>6. CASE Confirm
    <2>1. pc \in 1 .. 10
      BY <1>6, ScriptShape DEF Confirm, Running, TypeOK
    <2>2. addr' \in [Contract -> Int]
      <3>1. nonce \in Int /\ addr \in [Contract -> Int]
        BY DEF TypeOK
      <3>2. CASE Step.do = "deploy"
        <4>1. Step.contract \in Contract
          BY <2>1, <3>2, StepKinds DEF Step
        <4> QED BY <1>6, <3>1, <3>2, <4>1 DEF Confirm, Returned
      <3>3. CASE Step.do # "deploy"
        BY <1>6, <3>1, <3>3 DEF Confirm, Returned
      <3> QED BY <3>2, <3>3
    <2> QED BY <1>6, <2>1, <2>2, ScriptShape DEF Confirm, Returned, TypeOK, chainVars
  <1>7. CASE NodeError
    BY <1>4, <1>7 DEF NodeError, Fail, TypeOK, chainVars
  <1>8. CASE Restart
    BY <1>8, ScriptShape DEF Restart, TypeOK, NoAddress, chainVars
  <1>9. CASE MineTx
    <2>1. Len(mined) \in DOMAIN pool /\ pool[Len(mined)] \in Tx
      BY <1>9 DEF MineTx, TypeOK
    <2>2. mined' \in Seq(Tx)
      BY <1>9, <2>1, AppendProperties DEF MineTx, TypeOK
    <2>3. DOMAIN pool' \subseteq DOMAIN pool /\ pool' \in [DOMAIN pool' -> Tx]
      BY <1>9 DEF MineTx, TypeOK
    <2>4. IsFiniteSet(DOMAIN pool')
      BY <2>3, FS_Subset DEF TypeOK
    <2> QED BY <1>9, <2>2, <2>3, <2>4 DEF MineTx, TypeOK, scriptVars
  <1>10. CASE ForeignTx
    <2>1. PICK n \in (DOMAIN pool \cup {PendingNonce}) \cap 0 .. MaxNonce :
            pool' = PoolWith(n, Foreign(n))
      BY <1>10 DEF ForeignTx, Foreign
    <2>2. n \in Nat
      BY PendingType DEF TypeOK
    <2>3. Foreign(n) \in Tx
      BY <2>2 DEF Foreign, Tx, DeploymentTx, Code
    <2>4. /\ pool' \in [DOMAIN pool' -> Tx]
          /\ DOMAIN pool' \in SUBSET Nat
          /\ IsFiniteSet(DOMAIN pool')
      BY <2>1, <2>2, <2>3, PoolWithType
    <2> QED BY <1>10, <2>4 DEF ForeignTx, TypeOK, scriptVars
  <1> QED BY <1>1, <1>2, <1>3, <1>5, <1>6, <1>7, <1>8, <1>9, <1>10 DEF DeployerNext

(* The run only grows, and a pending transaction is past what is mined.    *)
LEMMA NoncesStep ==
  ASSUME TypeOK, StepIsOpen, NoncesAreOwn, [DeployerNext]_deployerVars
  PROVE  NoncesAreOwn'
  <1>0. run \in Nat /\ run' \in Nat /\ run' >= run
    <2>1. run' = run \/ run' = run + 1
      BY DEF DeployerNext, Read, NewOpts, Send, Confirm, Returned, NodeError, Fail, Restart,
             MineTx, ForeignTx, scriptVars, deployerVars
    <2> QED BY <2>1 DEF TypeOK
  <1>1. Len(mined) \in Nat
    BY DEF TypeOK
  <1>2. ASSUME NEW n \in DOMAIN pool' PROVE n >= Len(mined')
    <2>1. CASE MineTx
      <3>1. Len(mined) \in DOMAIN pool /\ pool[Len(mined)] \in Tx
        BY <2>1 DEF MineTx, TypeOK
      <3>2. Len(mined') = Len(mined) + 1
        BY <2>1, <3>1, AppendProperties DEF MineTx, TypeOK
      <3>3. n \in DOMAIN pool /\ n # Len(mined)
        BY <2>1 DEF MineTx
      <3> QED BY <1>1, <3>2, <3>3 DEF NoncesAreOwn, TypeOK
    <2>2. CASE ~ MineTx
      <3>1. mined' = mined
        BY <2>2 DEF DeployerNext, Read, NewOpts, Send, Confirm, Returned, NodeError, Restart,
                    ForeignTx, chainVars, deployerVars
      <3>2. \/ pool' = pool
            \/ Send /\ pool' = PoolWith(nonce, TxOf(Step)) /\ Accepted(nonce)
            \/ NodeError /\ pool' = PoolWith(nonce, TxOf(Step)) /\ Accepted(nonce)
            \/ ForeignTx
        BY <2>2 DEF DeployerNext, Read, NewOpts, Send, Confirm, Returned, NodeError, Restart,
                    chainVars, deployerVars
      <3>3. CASE pool' = pool
        BY <3>1, <3>3 DEF NoncesAreOwn
      <3>4. CASE pool' = PoolWith(nonce, TxOf(Step)) /\ Accepted(nonce)
        BY <3>1, <3>4 DEF NoncesAreOwn, PoolWith, Accepted
      <3>5. CASE ForeignTx
        <4>1. PICK m \in DOMAIN pool \cup {PendingNonce} : DOMAIN pool' = DOMAIN pool \cup {m}
          BY <3>5 DEF ForeignTx, PoolWith
        <4> QED BY <3>1, <4>1, PendingType DEF NoncesAreOwn
      <3> QED BY <3>2, <3>3, <3>4, <3>5
    <2> QED BY <2>1, <2>2
  <1>3. ASSUME NEW n \in Taken' PROVE TxAt(n)'.nonce = n /\ TxAt(n)'.by <= run'
    <2>1. ASSUME n \in Taken, TxAt(n)' = TxAt(n)
          PROVE  TxAt(n)'.nonce = n /\ TxAt(n)'.by <= run'
      <3>1. TxAt(n) \in Tx
        BY <1>1, <2>1 DEF Taken, TxAt, TypeOK
      <3>2. TxAt(n).by \in Nat
        BY <3>1 DEF Tx, DeploymentTx, DelegationTx, GrantTx
      <3> QED BY <1>0, <2>1, <3>2 DEF NoncesAreOwn
    <2>2. CASE TakenStays
      BY <2>1, <2>2 DEF TakenStays
    <2>3. CASE Takes(nonce, TxOf(Step)) /\ stage = "send" /\ UNCHANGED <<run, nonce>>
      <3>1. TxOf(Step).nonce = nonce /\ TxOf(Step).by = run
        BY <2>3, TxOfType DEF StepIsOpen
      <3>2. CASE n = nonce
        BY <1>0, <2>3, <3>1, <3>2 DEF Takes
      <3>3. CASE n # nonce
        BY <2>1, <2>3, <3>3 DEF Takes
      <3> QED BY <3>2, <3>3
    <2>4. ASSUME NEW m \in Nat, Takes(m, Foreign(m))
          PROVE  TxAt(n)'.nonce = n /\ TxAt(n)'.by <= run'
      BY <1>0, <2>1, <2>4 DEF Takes, Foreign
    <2> QED BY <2>2, <2>3, <2>4, ChainStep
  <1> QED BY <1>2, <1>3 DEF NoncesAreOwn

(* Between newOpts and the receipt the script's transaction is the same.   *)
LEMMA OpenStep ==
  ASSUME TypeOK, StepIsOpen, [DeployerNext]_deployerVars
  PROVE  StepIsOpen'
  <1>1. CASE UNCHANGED scriptVars
    BY <1>1 DEF StepIsOpen, Step, TxOf, Args, scriptVars
  <1>2. CASE Read
    BY <1>2 DEF Read, StepIsOpen, Running
  <1>3. CASE NewOpts
    BY <1>3 DEF NewOpts, Running, StepIsOpen, Step
  <1>4. CASE Send
    BY <1>4 DEF Send, Fail, Running, StepIsOpen, Step, TxOf, Args
  <1>5. CASE Confirm \/ NodeError \/ Restart
    BY <1>5 DEF Confirm, Returned, NodeError, Fail, Restart, StepIsOpen
  <1>6. CASE MineTx \/ ForeignTx \/ UNCHANGED deployerVars
    BY <1>1, <1>6 DEF MineTx, ForeignTx, deployerVars
  <1> QED BY <1>2, <1>3, <1>4, <1>5, <1>6 DEF DeployerNext

-----------------------------------------------------------------------------
(* What is mined stays, so what is at an address does.                     *)
LEMMA CodeStays ==
  ASSUME TypeOK, Grows, mined' \in Seq(Tx), NEW a, CodeAt(a) # "none"
  PROVE  /\ a \in 0 .. Len(mined) - 1
         /\ CodeAt(a)' = CodeAt(a)
         /\ mined'[a + 1] = mined[a + 1]
  <1>1. Len(mined) \in Nat /\ Len(mined') \in Nat
    BY DEF TypeOK
  <1>2. a \in 0 .. Len(mined) - 1
    BY DEF CodeAt
  <1>3. a + 1 \in 1 .. Len(mined) /\ a \in 0 .. Len(mined') - 1
    BY <1>1, <1>2 DEF Grows
  <1> QED BY <1>2, <1>3 DEF Grows, CodeAt

LEMMA DeploymentStays ==
  ASSUME TypeOK, Grows, mined' \in Seq(Tx), run' = run,
         NEW a, NEW text, NEW args, IsDeployment(a, text, args)
  PROVE  IsDeployment(a, text, args)'
  <1>1. Len(mined) \in Nat /\ Len(mined') \in Nat
    BY DEF TypeOK
  <1>2. a + 1 \in 1 .. Len(mined) /\ a \in 0 .. Len(mined') - 1
    BY <1>1 DEF Grows, IsDeployment
  <1> QED BY <1>2 DEF Grows, IsDeployment

(* The receipt the script waited for is that of its own transaction, at    *)
(* the nonce it fetched.                                                   *)
LEMMA ReceiptIsOwn ==
  ASSUME TypeOK, StepIsOpen, NoncesAreOwn, Confirm
  PROVE  /\ pc \in 1 .. 10 /\ Step.do # "read"
         /\ nonce \in 0 .. Len(mined) - 1
         /\ mined[nonce + 1] = TxOf(Step)
  <1>1. pc \in 1 .. 10 /\ Step.do # "read" /\ waitsFor = TxOf(Step)
    BY ScriptShape DEF Confirm, Running, StepIsOpen, TypeOK
  <1>2. TxOf(Step).nonce = nonce
    BY <1>1, ScriptShape, TxOfType
  <1>3. PICK n \in 1 .. Len(mined) : mined[n] = TxOf(Step)
    BY <1>1 DEF Confirm, Mined
  <1>4. n - 1 \in Taken /\ TxAt(n - 1) = mined[n] /\ Len(mined) \in Nat
    <2>1. Len(mined) \in Nat
      BY DEF TypeOK
    <2>2. n - 1 \in 0 .. Len(mined) - 1 /\ n - 1 < Len(mined) /\ (n - 1) + 1 = n
      BY <2>1
    <2> QED BY <2>1, <2>2 DEF Taken, TxAt
  <1>5. nonce = n - 1
    BY <1>2, <1>3, <1>4 DEF NoncesAreOwn
  <1> QED BY <1>1, <1>3, <1>4, <1>5

(* Every deployment behind the script is where the script has it.          *)
LEMMA DeploymentsStep ==
  ASSUME TypeOK, StepIsOpen, NoncesAreOwn, DeploymentsMined, [DeployerNext]_deployerVars
  PROVE  DeploymentsMined'
  <1>0. TypeOK' /\ Grows
    BY TypeStep, ChainStep
  <1>1. mined' \in Seq(Tx) /\ pc \in 1 .. 11 /\ pc' \in 1 .. 11
    BY <1>0, ScriptShape DEF TypeOK
  <1>2. ASSUME UNCHANGED <<run, addr>>,
               \A s \in 1 .. pc' - 1 : Script[s].do = "deploy" => s \in 1 .. pc - 1
        PROVE  DeploymentsMined'
    <2> SUFFICES ASSUME NEW s \in 1 .. pc' - 1, Script[s].do = "deploy"
                 PROVE  IsDeployment(addr[Script[s].contract], Script[s].code,
                                     Args(Script[s].contract))'
      BY DEF DeploymentsMined
    <2>1. IsDeployment(addr[Script[s].contract], Script[s].code, Args(Script[s].contract))
      BY <1>2 DEF DeploymentsMined
    <2>2. Args(Script[s].contract)' = Args(Script[s].contract)
      BY <1>2 DEF Args
    <2> DEFINE a == addr[Script[s].contract]  args == Args(Script[s].contract)
    <2>3. ASSUME NEW b, NEW bs, IsDeployment(b, Script[s].code, bs)
          PROVE  IsDeployment(b, Script[s].code, bs)'
      BY <1>0, <1>1, <1>2, <2>3, DeploymentStays
    <2>4. IsDeployment(a, Script[s].code, args)'
      BY <1>2, <2>1, <2>2, <2>3 DEF IsDeployment
    <2> QED BY <2>4
  <1>3. CASE UNCHANGED scriptVars
    BY <1>2, <1>3 DEF scriptVars
  <1>4. CASE Read
    <2>1. pc \in 1 .. 10 /\ pc' = pc + 1 /\ Script[pc].do = "read" /\ UNCHANGED <<run, addr>>
      BY <1>4, ScriptShape DEF Read, Running, Step, TypeOK
    <2> QED BY <1>2, <2>1
  <1>5. CASE NewOpts \/ Send \/ NodeError
    BY <1>2, <1>5 DEF NewOpts, Send, NodeError, Fail
  <1>6. CASE Restart
    <2>1. pc' = 1
      BY <1>6 DEF Restart
    <2> QED BY <2>1 DEF DeploymentsMined
  <1>7. CASE MineTx \/ ForeignTx \/ UNCHANGED deployerVars
    BY <1>3, <1>7 DEF MineTx, ForeignTx, deployerVars
  <1>8. CASE Confirm /\ Step.do # "deploy"
    <2>1. pc \in 1 .. 10 /\ pc' = pc + 1 /\ Script[pc].do # "deploy"
          /\ UNCHANGED <<run, addr>>
      BY <1>8, ReceiptIsOwn DEF Confirm, Returned, Step
    <2> QED BY <1>2, <2>1
  <1>9. CASE Confirm /\ Step.do = "deploy"
    <2>1. /\ pc \in 2 .. 5 /\ pc' = pc + 1 /\ run' = run /\ mined' = mined
          /\ Step = Script[pc] /\ Step.contract \in Contract
          /\ addr' = [addr EXCEPT ![Step.contract] = nonce]
      BY <1>9, ReceiptIsOwn, StepKinds DEF Confirm, Returned, Step, chainVars
    <2>2. \A c \in Contract : addr'[c] = IF c = Step.contract THEN nonce ELSE addr[c]
      BY <2>1 DEF TypeOK
    <2>3. IsDeployment(nonce, Step.code, Args(Step.contract))
      <3>1. nonce \in 0 .. Len(mined) - 1 /\ mined[nonce + 1] = TxOf(Step)
        BY <1>9, ReceiptIsOwn
      <3> QED BY <1>9, <3>1 DEF IsDeployment, TxOf
    <2>4. \A s \in 2 .. pc :
            /\ Script[s].contract \in Contract
            /\ s < pc => Script[s].contract # Step.contract
            /\ Args(Script[s].contract)' = Args(Script[s].contract)
      <3>1. pc = 2 \/ pc = 3 \/ pc = 4 \/ pc = 5
        BY <2>1
      <3>2. CASE pc = 2
        BY <2>1, <2>2, <3>2, ScriptShape DEF Args, Contract
      <3>3. CASE pc = 3
        <4>1. \A s \in 2 .. pc : s = 2 \/ s = 3
          BY <3>3
        <4> QED BY <2>1, <2>2, <3>3, <4>1, ScriptShape DEF Args, Contract
      <3>4. CASE pc = 4
        <4>1. \A s \in 2 .. pc : s = 2 \/ s = 3 \/ s = 4
          BY <3>4
        <4> QED BY <2>1, <2>2, <3>4, <4>1, ScriptShape DEF Args, Contract
      <3>5. CASE pc = 5
        <4>1. \A s \in 2 .. pc : s = 2 \/ s = 3 \/ s = 4 \/ s = 5
          BY <3>5
        <4> QED BY <2>1, <2>2, <3>5, <4>1, ScriptShape DEF Args, Contract
      <3> QED BY <3>1, <3>2, <3>3, <3>4, <3>5
    <2> SUFFICES ASSUME NEW s \in 1 .. pc' - 1, Script[s].do = "deploy"
                 PROVE  IsDeployment(addr[Script[s].contract], Script[s].code,
                                     Args(Script[s].contract))'
      BY DEF DeploymentsMined
    <2>5. s \in 2 .. pc
      BY <2>1, StepKinds
    <2>6. IsDeployment(addr'[Script[s].contract], Script[s].code, Args(Script[s].contract))
      <3>1. CASE s = pc
        BY <2>1, <2>2, <2>3, <3>1
      <3>2. CASE s # pc
        <4>1. s \in 1 .. pc - 1 /\ s < pc
          BY <2>1, <2>5, <3>2
        <4>2. addr'[Script[s].contract] = addr[Script[s].contract]
          BY <2>2, <2>4, <2>5, <4>1
        <4> QED BY <4>1, <4>2 DEF DeploymentsMined
      <3> QED BY <3>1, <3>2
    <2> QED BY <2>1, <2>4, <2>5, <2>6 DEF IsDeployment
  <1> QED BY <1>4, <1>5, <1>6, <1>7, <1>8, <1>9 DEF DeployerNext

(* The run and the addresses change with a deployment and a new start.     *)
LEMMA ScriptStep ==
  ASSUME TypeOK, StepIsOpen, NoncesAreOwn, [DeployerNext]_deployerVars
  PROVE  \/ UNCHANGED <<run, addr>> /\ pc' >= pc
         \/ run' = run /\ pc \in 2 .. 5 /\ pc' = pc + 1
         \/ run' = run + 1 /\ pc' = 1
  <1>0. pc \in 1 .. 11
    BY ScriptShape DEF TypeOK
  <1>1. CASE Confirm
    <2>1. pc' = pc + 1 /\ run' = run /\ pc \in 1 .. 10
      BY <1>1, ReceiptIsOwn DEF Confirm, Returned
    <2>2. Step.do = "deploy" => pc \in 2 .. 5
      BY <2>1, StepKinds DEF Step
    <2>3. Step.do # "deploy" => addr' = addr
      BY <1>1 DEF Confirm, Returned
    <2> QED BY <2>1, <2>2, <2>3
  <1>2. CASE Restart
    BY <1>2 DEF Restart
  <1>3. CASE Read
    BY <1>0, <1>3 DEF Read
  <1>4. CASE UNCHANGED deployerVars \/ NewOpts \/ Send \/ NodeError \/ MineTx \/ ForeignTx
    BY <1>0, <1>4 DEF deployerVars, scriptVars, NewOpts, Send, NodeError, Fail, MineTx, ForeignTx
  <1> QED BY <1>1, <1>2, <1>3, <1>4 DEF DeployerNext

(* Past the deployments the addresses are those of the run's contracts.    *)
LEMMA Deployments ==
  ASSUME TypeOK, DeploymentsMined, pc > 5
  PROVE  /\ IsDeployment(addr["GovToken"], "GovToken", <<>>)
         /\ IsDeployment(addr["TimeLock"], "TimeLock", <<>>)
         /\ IsDeployment(addr["Cert"], "Cert", <<addr["TimeLock"]>>)
         /\ IsDeployment(addr["MyGovernor"], "Cert", <<addr["GovToken"], addr["TimeLock"]>>)
  <1>1. \A s \in 2 .. 5 : s \in 1 .. pc - 1
    BY ScriptShape DEF TypeOK
  <1>2. \A s \in 2 .. 5 :
          IsDeployment(addr[Script[s].contract], Script[s].code, Args(Script[s].contract))
    BY <1>1, ScriptShape DEF DeploymentsMined
  <1>3. /\ Args("GovToken") = <<>> /\ Args("TimeLock") = <<>>
        /\ Args("Cert") = <<addr["TimeLock"]>>
        /\ Args("MyGovernor") = <<addr["GovToken"], addr["TimeLock"]>>
    BY DEF Args
  <1>4. /\ IsDeployment(addr[Script[2].contract], Script[2].code, Args(Script[2].contract))
        /\ IsDeployment(addr[Script[3].contract], Script[3].code, Args(Script[3].contract))
        /\ IsDeployment(addr[Script[4].contract], Script[4].code, Args(Script[4].contract))
        /\ IsDeployment(addr[Script[5].contract], Script[5].code, Args(Script[5].contract))
    BY <1>2
  <1> QED BY <1>3, <1>4, ScriptShape

(* A grant about to be sent names the run's timelock and governor.         *)
LEMMA GrantSent ==
  ASSUME TypeOK, StepIsOpen, DeploymentsMined, stage = "send", Step.do = "grant"
  PROVE  GrantIsOwn(TxOf(Step))
  <1>1. pc \in {9, 10}
    <2>1. pc \in 1 .. 10
      BY ScriptShape DEF StepIsOpen, TypeOK
    <2> QED BY <2>1, StepKinds DEF Step
  <1>2. /\ IsDeployment(addr["TimeLock"], "TimeLock", <<>>)
        /\ IsDeployment(addr["MyGovernor"], "Cert", <<addr["GovToken"], addr["TimeLock"]>>)
    BY <1>1, Deployments
  <1>3. /\ TxOf(Step).timelock = addr["TimeLock"] /\ TxOf(Step).to = addr["MyGovernor"]
        /\ TxOf(Step).by = run
    BY DEF TxOf
  <1> QED BY <1>1, <1>2, <1>3 DEF GrantIsOwn, IsDeployment, CodeAt

(* A grant stays about its own run's contracts, for they stay where they   *)
(* are and a new run has none on its way.                                  *)
LEMMA GrantStays ==
  ASSUME TypeOK, StepIsOpen, NoncesAreOwn, [DeployerNext]_deployerVars,
         NEW tx, tx.by \in Nat, tx.by <= run, GrantIsOwn(tx)
  PROVE  GrantIsOwn(tx)'
  <1>1. mined' \in Seq(Tx) /\ Grows /\ pc' \in Int /\ pc \in Int /\ run \in Nat
    BY TypeStep, ChainStep DEF TypeOK
  <1>2. CodeAt(tx.timelock)' = "TimeLock" /\ mined'[tx.timelock + 1].by = tx.by
    BY <1>1, CodeStays DEF GrantIsOwn
  <1>3. CodeAt(tx.to)' = "Cert"
    BY <1>1, CodeStays DEF GrantIsOwn
  <1>4. tx.by = run' => /\ pc' > 8
                        /\ tx.timelock = addr'["TimeLock"]
                        /\ tx.to = addr'["MyGovernor"]
    BY <1>1, ScriptStep DEF GrantIsOwn
  <1> QED BY <1>2, <1>3, <1>4 DEF GrantIsOwn

LEMMA GrantsStep ==
  ASSUME TypeOK, StepIsOpen, NoncesAreOwn, DeploymentsMined, GrantsAreOwn,
         [DeployerNext]_deployerVars
  PROVE  GrantsAreOwn'
  <1> SUFFICES ASSUME NEW n \in Taken', TxAt(n)'.do = "grant"
               PROVE  GrantIsOwn(TxAt(n))'
    BY DEF GrantsAreOwn
  <1>1. ASSUME n \in Taken, TxAt(n)' = TxAt(n)
        PROVE  GrantIsOwn(TxAt(n))'
    <2>1. TxAt(n) \in Tx
      <3>1. Len(mined) \in Nat
        BY DEF TypeOK
      <3> QED BY <1>1, <3>1 DEF Taken, TxAt, TypeOK
    <2>2. TxAt(n).by \in Nat
      BY <2>1 DEF Tx, DeploymentTx, DelegationTx, GrantTx
    <2>3. GrantIsOwn(TxAt(n)) /\ TxAt(n).by <= run
      BY <1>1 DEF GrantsAreOwn, NoncesAreOwn
    <2>4. ASSUME NEW tx, tx = TxAt(n) PROVE GrantIsOwn(tx)'
      BY <2>2, <2>3, <2>4, GrantStays
    <2> QED BY <1>1, <2>4 DEF GrantIsOwn
  <1>2. CASE TakenStays
    BY <1>1, <1>2 DEF TakenStays
  <1>3. CASE Takes(nonce, TxOf(Step)) /\ stage = "send" /\ UNCHANGED <<run, pc, nonce, addr>>
    <2>1. CASE n = nonce
      <3>1. TxAt(n)' = TxOf(Step)
        BY <1>3, <2>1 DEF Takes
      <3>2. Step.do = "grant"
        BY <1>3, <3>1, TxOfType DEF StepIsOpen
      <3>3. GrantIsOwn(TxOf(Step))
        BY <1>3, <3>2, GrantSent
      <3>4. TxOf(Step).by \in Nat /\ TxOf(Step).by <= run
        BY <1>3, TxOfType DEF StepIsOpen, TypeOK
      <3>5. ASSUME NEW tx, tx = TxOf(Step) PROVE GrantIsOwn(tx)'
        BY <3>3, <3>4, <3>5, GrantStays
      <3> QED BY <3>1, <3>5 DEF GrantIsOwn
    <2>2. CASE n # nonce
      BY <1>1, <1>3, <2>2 DEF Takes
    <2> QED BY <2>1, <2>2
  <1>4. ASSUME NEW m \in Nat, Takes(m, Foreign(m)) PROVE GrantIsOwn(TxAt(n))'
    BY <1>1, <1>4 DEF Takes, Foreign
  <1> QED BY <1>2, <1>3, <1>4, ChainStep

(* The script's delegation and its grants are in the chain.                *)
LEMMA CallsStep ==
  ASSUME TypeOK, StepIsOpen, NoncesAreOwn, CallsMined, [DeployerNext]_deployerVars
  PROVE  CallsMined'
  <1>1. /\ mined \in Seq(Tx) /\ mined' \in Seq(Tx) /\ Grows
        /\ pc \in 1 .. 11 /\ pc' \in 1 .. 11
    BY TypeStep, ChainStep, ScriptShape DEF TypeOK
  <1>2. \A n \in 1 .. Len(mined) : n \in 1 .. Len(mined') /\ mined'[n] = mined[n]
    BY <1>1 DEF Grows
  <1>3. ASSUME UNCHANGED <<run, addr>>, NEW s \in 1 .. pc - 1
        PROVE  /\ Script[s].do = "delegate" =>
                    \E n \in 1 .. Len(mined') :
                      mined'[n].do = "delegate" /\ mined'[n].token = addr'["GovToken"]
               /\ Script[s].do = "grant" =>
                    \E n \in 1 .. Len(mined') :
                      /\ mined'[n].do = "grant" /\ mined'[n].by = run'
                      /\ mined'[n].role = Script[s].role
    BY <1>2, <1>3 DEF CallsMined
  <1>4. CASE Confirm /\ Step.do # "deploy"
    <2>1. /\ pc \in 1 .. 10 /\ pc' = pc + 1 /\ UNCHANGED <<run, addr>>
          /\ nonce + 1 \in 1 .. Len(mined) /\ mined[nonce + 1] = TxOf(Step)
      <3>1. pc \in 1 .. 10 /\ nonce \in 0 .. Len(mined) - 1 /\ mined[nonce + 1] = TxOf(Step)
        BY <1>4, ReceiptIsOwn
      <3> QED BY <1>1, <1>4, <3>1 DEF Confirm, Returned
    <2>2. /\ Step.do = "delegate" => /\ mined[nonce + 1].do = "delegate"
                                     /\ mined[nonce + 1].token = addr["GovToken"]
          /\ Step.do = "grant" => /\ mined[nonce + 1].do = "grant"
                                  /\ mined[nonce + 1].by = run
                                  /\ mined[nonce + 1].role = Step.role
      BY <2>1 DEF TxOf
    <2> SUFFICES ASSUME NEW s \in 1 .. pc
                 PROVE  /\ Script[s].do = "delegate" =>
                             \E n \in 1 .. Len(mined') :
                               mined'[n].do = "delegate" /\ mined'[n].token = addr'["GovToken"]
                        /\ Script[s].do = "grant" =>
                             \E n \in 1 .. Len(mined') :
                               /\ mined'[n].do = "grant" /\ mined'[n].by = run'
                               /\ mined'[n].role = Script[s].role
      BY <2>1 DEF CallsMined
    <2>3. CASE s = pc
      BY <1>2, <2>1, <2>2, <2>3 DEF Step
    <2>4. CASE s # pc
      <3>1. s \in 1 .. pc - 1
        BY <2>1, <2>4
      <3> QED BY <1>3, <2>1, <3>1
    <2> QED BY <2>3, <2>4
  <1>5. CASE Confirm /\ Step.do = "deploy"
    <2>1. pc \in 2 .. 5 /\ pc' = pc + 1
      BY <1>5, ReceiptIsOwn, StepKinds DEF Confirm, Returned, Step
    <2>2. \A s \in 1 .. pc' - 1 : Script[s].do # "delegate" /\ Script[s].do # "grant"
      BY <2>1, StepKinds
    <2> QED BY <2>2 DEF CallsMined
  <1>6. CASE Restart
    <2>1. pc' = 1
      BY <1>6 DEF Restart
    <2> QED BY <2>1 DEF CallsMined
  <1>7. CASE Read
    <2>1. pc' = pc + 1 /\ pc \in 1 .. 10 /\ Script[pc].do = "read" /\ UNCHANGED <<run, addr>>
      BY <1>7, ScriptShape DEF Read, Running, Step, TypeOK
    <2>2. \A s \in 1 .. pc' - 1 : s = pc \/ s \in 1 .. pc - 1
      BY <2>1
    <2> QED BY <1>3, <2>1, <2>2 DEF CallsMined
  <1>8. CASE UNCHANGED deployerVars \/ NewOpts \/ Send \/ NodeError \/ MineTx \/ ForeignTx
    <2>1. pc' = pc /\ UNCHANGED <<run, addr>>
      BY <1>8 DEF deployerVars, scriptVars, NewOpts, Send, NodeError, Fail, MineTx, ForeignTx
    <2> QED BY <1>3, <2>1 DEF CallsMined
  <1> QED BY <1>4, <1>5, <1>6, <1>7, <1>8 DEF DeployerNext

-----------------------------------------------------------------------------
(* The inductive invariant, which every state of the script has.           *)
LEMMA Inductive == DeployerSpec => []IInv
  <1>1. DeployerInit => IInv
    <2> SUFFICES ASSUME DeployerInit PROVE IInv
      OBVIOUS
    <2> USE DEF DeployerInit
    <2>1. Len(mined) = 0 /\ DOMAIN pool = {} /\ Taken = {}
      BY DEF Taken
    <2>2. TypeOK
      <3>1. pc \in 1 .. Len(Script) + 1
        BY ScriptShape
      <3>2. IsFiniteSet(DOMAIN pool)
        BY <2>1, FS_EmptySet
      <3>3. pool \in [DOMAIN pool -> Tx]
        BY <2>1
      <3> QED BY <2>1, <3>1, <3>2, <3>3 DEF TypeOK, NoAddress
    <2>3. NoncesAreOwn /\ GrantsAreOwn
      BY <2>1 DEF NoncesAreOwn, GrantsAreOwn
    <2>4. StepIsOpen /\ DeploymentsMined /\ CallsMined
      BY DEF StepIsOpen, DeploymentsMined, CallsMined
    <2> QED BY <2>2, <2>3, <2>4 DEF IInv
  <1>2. IInv /\ [DeployerNext]_deployerVars => IInv'
    BY TypeStep, NoncesStep, OpenStep, DeploymentsStep, GrantsStep, CallsStep DEF IInv
  <1> QED BY <1>1, <1>2, PTL DEF DeployerSpec

(* A grant in the chain is about the contracts of the run that sent it.    *)
LEMMA MinedGrant ==
  ASSUME TypeOK, GrantsAreOwn, NEW n \in 1 .. Len(mined), mined[n].do = "grant"
  PROVE  GrantIsOwn(mined[n])
  <1>1. n - 1 \in Taken /\ TxAt(n - 1) = mined[n]
    <2>1. n - 1 \in 0 .. Len(mined) - 1 /\ n - 1 < Len(mined) /\ (n - 1) + 1 = n
      BY DEF TypeOK
    <2> QED BY <2>1 DEF Taken, TxAt
  <1> QED BY <1>1 DEF GrantsAreOwn

(* An address the script works with holds the code this very run deployed  *)
(* there: deployContract waits for the receipt of its own transaction      *)
(* before it returns the address.                                          *)
THEOREM TheAddressesHoldOwnCode == DeployerSpec => []AddressesHoldOwnCode
  <1>1. IInv => AddressesHoldOwnCode
    BY DEF IInv, DeploymentsMined, IsDeployment, AddressesHoldOwnCode, CodeAt
  <1> QED BY <1>1, Inductive, PTL

(* No role is ever granted to an address without code or to the code of    *)
(* another program: a grant is sent only after the receipts of the         *)
(* timelock and the governor of the same run.                              *)
THEOREM TheGrantsGoToDeployed == DeployerSpec => []GrantsOnlyToDeployed
  <1>1. IInv => GrantsOnlyToDeployed
    <2> SUFFICES ASSUME IInv, NEW n \in 1 .. Len(mined), mined[n].do = "grant"
                 PROVE  /\ CodeAt(mined[n].to) = "Cert"
                        /\ CodeAt(mined[n].timelock) = "TimeLock"
      BY DEF GrantsOnlyToDeployed
    <2>1. GrantIsOwn(mined[n])
      BY MinedGrant DEF IInv
    <2> QED BY <2>1 DEF GrantIsOwn
  <1> QED BY <1>1, Inductive, PTL

(* A script that finished leaves one working wiring.  A grant on its       *)
(* timelock is of its own run, for the timelock's deployment is, so it     *)
(* names its governor; and it sent one for each role.                      *)
THEOREM TheFinishedScriptIsWired == DeployerSpec => []FinishedIsWired
  <1>1. IInv => FinishedIsWired
    <2> SUFFICES ASSUME IInv, Finished PROVE FinishedIsWired
      BY DEF FinishedIsWired
    <2>1. pc = 11
      BY ScriptShape DEF IInv, TypeOK, Finished
    <2>2. /\ IsDeployment(addr["TimeLock"], "TimeLock", <<>>)
          /\ IsDeployment(addr["Cert"], "Cert", <<addr["TimeLock"]>>)
          /\ IsDeployment(addr["MyGovernor"], "Cert", <<addr["GovToken"], addr["TimeLock"]>>)
      BY <2>1, Deployments DEF IInv
    <2>3. \E n \in 1 .. Len(mined) :
            mined[n].do = "delegate" /\ mined[n].token = addr["GovToken"]
      BY <2>1, ScriptShape DEF IInv, CallsMined
    <2>4. \A role \in {"PROPOSER", "EXECUTOR"} :
            \E n \in 1 .. Len(mined) :
              mined[n].do = "grant" /\ mined[n].by = run /\ mined[n].role = role
      <3>1. 9 \in 1 .. pc - 1 /\ 10 \in 1 .. pc - 1
        BY <2>1
      <3> QED BY <3>1, ScriptShape DEF IInv, CallsMined
    <2>5. ASSUME NEW role \in {"PROPOSER", "EXECUTOR"}
          PROVE  Granted(addr["TimeLock"], role) = {addr["MyGovernor"]}
      <3>1. ASSUME NEW n \in 1 .. Len(mined), mined[n].do = "grant",
                   mined[n].timelock = addr["TimeLock"]
            PROVE  mined[n].to = addr["MyGovernor"]
        <4>1. GrantIsOwn(mined[n])
          BY <3>1, MinedGrant DEF IInv
        <4>2. mined[n].by = run
          BY <2>2, <3>1, <4>1 DEF GrantIsOwn, IsDeployment
        <4> QED BY <4>1, <4>2 DEF GrantIsOwn
      <3>2. PICK n \in 1 .. Len(mined) :
              mined[n].do = "grant" /\ mined[n].by = run /\ mined[n].role = role
        BY <2>4
      <3>3. mined[n].timelock = addr["TimeLock"] /\ mined[n].to = addr["MyGovernor"]
        <4>1. GrantIsOwn(mined[n])
          BY <3>2, MinedGrant DEF IInv
        <4> QED BY <3>2, <4>1 DEF GrantIsOwn
      <3>4. addr["MyGovernor"] \in Granted(addr["TimeLock"], role)
        BY <3>2, <3>3 DEF Granted
      <3>5. Granted(addr["TimeLock"], role) \subseteq {addr["MyGovernor"]}
        BY <3>1 DEF Granted
      <3> QED BY <3>4, <3>5
    <2> QED BY <2>2, <2>3, <2>5 DEF FinishedIsWired, IsDeployment
  <1> QED BY <1>1, Inductive, PTL

-----------------------------------------------------------------------------
(* The diagnostics.                                                        *)

DiagnosticsTypeOK ==
  /\ mode \in {"sequential", "parallel"}
  /\ script \in {"checking", "waiting", "ended", "aborted", "interrupted"}
  /\ next \in 1 .. Len(Checks) + 1
  /\ phase \in [Check -> {"idle", "request", "answered", "exited"}]
  /\ attempt \in [Check -> Nat]
  /\ answer \in [Check -> {"none", "result", "method_not_found", "error", "gave_up"}]
  /\ line \in [Check -> {"none", "ok", "N/A (dev node)", "Failed"}]
  /\ logged \in [Check -> Nat]
  /\ code \in [Check -> {0, 1}]

(* A check that is not started yet has not asked, one that asks has no     *)
(* answer.                                                                 *)
AskedOnce ==
  /\ \A c \in Check : phase[c] \in {"idle", "request"} => answer[c] = "none"
  /\ script = "checking" => \A i \in next .. Len(Checks) : phase[Checks[i]] = "idle"

(* What lies behind the script: the checks that returned, before the last  *)
(* it called; the jobs that succeeded, before the one it waits for.        *)
Behind ==
  /\ mode = "sequential" /\ script = "checking" =>
       \A i \in 1 .. next - 2 : phase[Checks[i]] = "exited"
  /\ script = "waiting" =>
       /\ mode = "parallel"
       /\ \A i \in 1 .. next - 1 : phase[Checks[i]] = "exited" /\ code[Checks[i]] = 0

(* Only a job that failed under errexit ends without its line.             *)
LinesTold ==
  \A c \in Check : phase[c] = "exited" /\ line[c] = "none" => mode = "parallel" /\ code[c] = 1

(* Cleanup leaves nobody who could still report.                           *)
Cleaned == Over => \A c \in Check \ killed : phase[c] = "exited"

DInv ==
  /\ DiagnosticsTypeOK /\ AskedOnce /\ Behind /\ LinesTold /\ Cleaned
  /\ SummaryMeansAllReported

(* Every check has one place in the list.                                  *)
LEMMA CheckPlaces ==
  /\ Len(Checks) \in Nat
  /\ \A i \in 1 .. Len(Checks) : Checks[i] \in Check
  /\ \A i, j \in 1 .. Len(Checks) : Checks[i] = Checks[j] => i = j
  /\ \A c \in Check : \E i \in 1 .. Len(Checks) : c = Checks[i]
  <1>1. Len(Checks) \in Nat /\ DOMAIN Checks = 1 .. Len(Checks)
    BY DiagnosticsConstants
  <1> QED BY <1>1, DiagnosticsConstants DEF Check, Range, IsInjective

(* The place the script is at, in the list or behind it.                   *)
LEMMA NextPlaces ==
  ASSUME DiagnosticsTypeOK
  PROVE  /\ next \in Nat /\ next >= 1 /\ next <= Len(Checks) + 1
         /\ \A i \in next .. Len(Checks) : i \in 1 .. Len(Checks) /\ Checks[i] \in Check
         /\ \A i \in 1 .. next - 1 : i \in 1 .. Len(Checks) /\ Checks[i] \in Check
         /\ \A i \in 1 .. next - 2 : i \in 1 .. next - 1
  <1>1. Len(Checks) \in Nat /\ next \in 1 .. Len(Checks) + 1
    BY CheckPlaces DEF DiagnosticsTypeOK
  <1>2. /\ \A i \in next .. Len(Checks) : i \in 1 .. Len(Checks)
        /\ \A i \in 1 .. next - 1 : i \in 1 .. Len(Checks)
        /\ \A i \in 1 .. next - 2 : i \in 1 .. next - 1
    BY <1>1
  <1> QED BY <1>1, <1>2, CheckPlaces

LEMMA DiagnosticsInit == Init => DInv
  <1> SUFFICES ASSUME Init PROVE DInv
    OBVIOUS
  <1> USE DEF Init
  <1>1. DiagnosticsTypeOK
    BY CheckPlaces DEF DiagnosticsTypeOK
  <1>2. AskedOnce
    BY CheckPlaces DEF AskedOnce
  <1>3. Behind /\ LinesTold /\ Cleaned /\ SummaryMeansAllReported
    BY DEF Behind, LinesTold, Cleaned, Over, SummaryMeansAllReported
  <1> QED BY <1>1, <1>2, <1>3 DEF DInv

(* A request ends, or is made once more.                                   *)
LEMMA AttemptStep ==
  ASSUME DInv, NEW c \in Check, Attempt(c) PROVE DInv'
  <1>1. /\ phase[c] = "request" /\ UNCHANGED <<mode, script, next, line, code, killed>>
        /\ phase' = phase \/ phase' = [phase EXCEPT ![c] = "answered"]
        /\ phase' = phase => answer' = answer
        /\ \/ answer' = answer
           \/ \E a \in {"result", "method_not_found", "error", "gave_up"} :
                answer' = [answer EXCEPT ![c] = a]
        /\ attempt' = attempt \/ attempt' = [attempt EXCEPT ![c] = @ + 1]
        /\ \E lines \in Nat : Logs(c, lines)
    <2>1. ASSUME NEW a \in {"result", "method_not_found", "error", "gave_up"}, Answers(c, a)
          PROVE  /\ phase' = [phase EXCEPT ![c] = "answered"]
                 /\ answer' = [answer EXCEPT ![c] = a] /\ attempt' = attempt
                 /\ \E lines \in Nat : Logs(c, lines)
      BY <2>1 DEF Answers, LinesOf
    <2>2. /\ phase[c] = "request" /\ UNCHANGED <<mode, script, next, line, code, killed>>
          /\ \/ \E a \in {"result", "method_not_found", "error", "gave_up"} : Answers(c, a)
             \/ Retries(c)
      BY DEF Attempt
    <2>3. phase[c] # "answered"
      BY <2>2
    <2>4. phase \in [Check -> {"idle", "request", "answered", "exited"}]
      BY DEF DInv, DiagnosticsTypeOK
    <2>5. CASE \E a \in {"result", "method_not_found", "error", "gave_up"} : Answers(c, a)
      <3>1. PICK a \in {"result", "method_not_found", "error", "gave_up"} : Answers(c, a)
        BY <2>5
      <3>2. /\ phase' = [phase EXCEPT ![c] = "answered"]
            /\ answer' = [answer EXCEPT ![c] = a] /\ attempt' = attempt
            /\ \E lines \in Nat : Logs(c, lines)
        BY <2>1, <3>1
      <3>3. phase' # phase
        BY <2>3, <2>4, <3>2
      <3> QED BY <2>2, <3>2, <3>3
    <2>6. CASE Retries(c)
      BY <2>2, <2>6 DEF Retries
    <2> QED BY <2>2, <2>5, <2>6
  <1>2. /\ \A d \in Check : phase[d] = "exited" <=> phase'[d] = "exited"
        /\ \A d \in Check : phase[d] = "idle" <=> phase'[d] = "idle"
        /\ \A d \in Check : d # c => phase'[d] = phase[d] /\ answer'[d] = answer[d]
    BY <1>1 DEF DInv, DiagnosticsTypeOK
  <1>3. DiagnosticsTypeOK'
    <2>1. phase' \in [Check -> {"idle", "request", "answered", "exited"}]
      BY <1>1 DEF DInv, DiagnosticsTypeOK
    <2>2. attempt' \in [Check -> Nat]
      <3>1. attempt \in [Check -> Nat]
        BY DEF DInv, DiagnosticsTypeOK
      <3>2. attempt[c] + 1 \in Nat
        BY <3>1
      <3> QED BY <1>1, <3>1, <3>2
    <2>3. answer' \in [Check -> {"none", "result", "method_not_found", "error", "gave_up"}]
      <3>1. answer \in [Check -> {"none", "result", "method_not_found", "error", "gave_up"}]
        BY DEF DInv, DiagnosticsTypeOK
      <3>2. ASSUME NEW a \in {"result", "method_not_found", "error", "gave_up"},
                   answer' = [answer EXCEPT ![c] = a]
            PROVE  answer' \in [Check -> {"none", "result", "method_not_found", "error", "gave_up"}]
        BY <3>1, <3>2
      <3> QED BY <1>1, <3>1, <3>2
    <2>4. logged' \in [Check -> Nat]
      <3>1. logged \in [Check -> Nat]
        BY DEF DInv, DiagnosticsTypeOK
      <3>2. PICK lines \in Nat : logged' = [logged EXCEPT ![c] = @ + lines]
        BY <1>1 DEF Logs
      <3>3. logged[c] + lines \in Nat
        BY <3>1
      <3> QED BY <3>1, <3>2, <3>3
    <2> QED BY <1>1, <2>1, <2>2, <2>3, <2>4 DEF DInv, DiagnosticsTypeOK
  <1>4. AskedOnce'
    <2>1. ASSUME NEW d \in Check, phase'[d] \in {"idle", "request"} PROVE answer'[d] = "none"
      BY <1>1, <1>2, <2>1 DEF DInv, DiagnosticsTypeOK, AskedOnce
    <2>2. script' = "checking" => \A i \in next' .. Len(Checks) : phase'[Checks[i]] = "idle"
      BY <1>1, <1>2, NextPlaces DEF DInv, AskedOnce
    <2> QED BY <2>1, <2>2 DEF AskedOnce
  <1>5. Behind'
    BY <1>1, <1>2, NextPlaces DEF DInv, Behind
  <1>6. LinesTold' /\ Cleaned' /\ SummaryMeansAllReported'
    BY <1>1, <1>2 DEF DInv, LinesTold, Cleaned, Over, SummaryMeansAllReported
  <1> QED BY <1>3, <1>4, <1>5, <1>6 DEF DInv

(* A check returns, with its line unless it is a job errexit has ended.    *)
LEMMA ReportStep ==
  ASSUME DInv, NEW c \in Check, Report(c) PROVE DInv'
  <1>1. /\ phase[c] = "answered" /\ c \notin killed
        /\ UNCHANGED <<mode, script, next, attempt, answer, logged, killed>>
        /\ phase' = [phase EXCEPT ![c] = "exited"]
        /\ \E text \in {"none", "ok", "N/A (dev node)", "Failed"}, status \in {0, 1} :
             /\ line' = [line EXCEPT ![c] = text] /\ code' = [code EXCEPT ![c] = status]
             /\ text = "none" => mode = "parallel" /\ status = 1
    BY DEF Report, Exits, ExitsAtOnce
  <1>2. /\ phase'[c] = "exited"
        /\ \A d \in Check : d # c =>
             phase'[d] = phase[d] /\ line'[d] = line[d] /\ code'[d] = code[d]
        /\ line'[c] = "none" => mode = "parallel" /\ code'[c] = 1
    BY <1>1 DEF DInv, DiagnosticsTypeOK
  <1>3. DiagnosticsTypeOK'
    BY <1>1 DEF DInv, DiagnosticsTypeOK
  <1>4. AskedOnce'
    <2>1. \A i \in next .. Len(Checks) : script = "checking" => Checks[i] # c
      BY <1>1 DEF DInv, AskedOnce
    <2>2. \A i \in next .. Len(Checks) : Checks[i] \in Check
      BY NextPlaces DEF DInv
    <2> QED BY <1>1, <1>2, <2>1, <2>2 DEF DInv, AskedOnce
  <1>5. Behind'
    <2>1. \A i \in 1 .. next - 1 : Checks[i] \in Check
      BY NextPlaces DEF DInv
    <2>2. \A i \in 1 .. next - 2 : i \in 1 .. next - 1
      BY NextPlaces DEF DInv
    <2>3. \A i \in 1 .. next - 1 : script = "waiting" => Checks[i] # c
      BY <1>1 DEF DInv, Behind
    <2> QED BY <1>1, <1>2, <2>1, <2>2, <2>3 DEF DInv, Behind
  <1>6. LinesTold' /\ Cleaned' /\ SummaryMeansAllReported'
    BY <1>1, <1>2 DEF DInv, LinesTold, Cleaned, Over, SummaryMeansAllReported
  <1> QED BY <1>3, <1>4, <1>5, <1>6 DEF DInv

(* The script ends, and its jobs with it.                                  *)
LEMMA EndsStep ==
  ASSUME DInv, NEW how \in {"ended", "aborted", "interrupted"}, Ends(how),
         how = "ended" => \A c \in Check : phase[c] = "exited" /\ line[c] # "none"
  PROVE  DInv'
  <1>1. /\ script' = how /\ UNCHANGED <<mode, next, phase, attempt, answer, line, logged, code>>
        /\ \A c \in Check \ killed' : phase[c] = "exited"
    BY DEF Ends, checkVars
  <1>2. DiagnosticsTypeOK' /\ AskedOnce' /\ Behind' /\ LinesTold' /\ Cleaned'
    BY <1>1 DEF DInv, DiagnosticsTypeOK, AskedOnce, Behind, LinesTold, Cleaned
  <1>3. SummaryMeansAllReported'
    BY <1>1 DEF SummaryMeansAllReported
  <1> QED BY <1>2, <1>3 DEF DInv

(* The next check starts, the ones before keep what they have.             *)
LEMMA StartsStep ==
  ASSUME DInv, script = "checking", next <= Len(Checks), Starts(Checks[next]),
         mode = "sequential" /\ next > 1 => phase[Checks[next - 1]] = "exited"
  PROVE  DInv'
  <1> DEFINE c == Checks[next]
  <1>1. /\ phase' = [phase EXCEPT ![c] = "request"] /\ next' = next + 1
        /\ UNCHANGED <<mode, script, attempt, answer, line, logged, code, killed>>
    BY DEF Starts
  <1>2. /\ next \in 1 .. Len(Checks) /\ c \in Check /\ phase[c] = "idle"
        /\ \A i \in 1 .. Len(Checks) : i # next => Checks[i] # c
    BY NextPlaces, CheckPlaces DEF DInv, AskedOnce
  <1>3. /\ phase'[c] = "request"
        /\ \A d \in Check : d # c => phase'[d] = phase[d]
    BY <1>1, <1>2 DEF DInv, DiagnosticsTypeOK
  <1>4. DiagnosticsTypeOK'
    <2>1. next' \in 1 .. Len(Checks) + 1
      BY <1>1, <1>2, CheckPlaces
    <2> QED BY <1>1, <2>1 DEF DInv, DiagnosticsTypeOK
  <1>5. AskedOnce'
    <2>1. \A i \in next' .. Len(Checks) :
            i \in next .. Len(Checks) /\ i \in 1 .. Len(Checks) /\ i # next /\ Checks[i] \in Check
      BY <1>1, <1>2, CheckPlaces
    <2> QED BY <1>1, <1>2, <1>3, <2>1 DEF DInv, AskedOnce
  <1>6. Behind'
    <2>1. script' = "checking"
      BY <1>1
    <2>2. ASSUME mode = "sequential", NEW i \in 1 .. next' - 2
          PROVE  phase'[Checks[i]] = "exited"
      <3>1. /\ i \in 1 .. next - 1 /\ i # next /\ i \in 1 .. Len(Checks)
            /\ i = next - 1 \/ i \in 1 .. next - 2
        BY <1>1, <1>2, <2>2, CheckPlaces
      <3>2. CASE i = next - 1
        <4>1. phase[Checks[i]] = "exited"
          BY <1>2, <2>2, <3>1, <3>2
        <4> QED BY <1>2, <1>3, <3>1, <4>1, CheckPlaces
      <3>3. CASE i \in 1 .. next - 2
        <4>1. phase[Checks[i]] = "exited"
          BY <2>2, <3>3 DEF DInv, Behind
        <4> QED BY <1>2, <1>3, <3>1, <4>1, CheckPlaces
      <3> QED BY <3>1, <3>2, <3>3
    <2> QED BY <1>1, <2>1, <2>2 DEF Behind
  <1>7. LinesTold' /\ Cleaned' /\ SummaryMeansAllReported'
    BY <1>1, <1>3 DEF DInv, LinesTold, Cleaned, Over, SummaryMeansAllReported
  <1> QED BY <1>4, <1>5, <1>6, <1>7 DEF DInv

LEMMA RunStep == DInv /\ RunSequentially => DInv'
  <1> SUFFICES ASSUME DInv, RunSequentially PROVE DInv'
    OBVIOUS
  <1>1. /\ mode = "sequential" /\ script = "checking"
        /\ next > 1 => phase[Checks[next - 1]] = "exited"
    BY DEF RunSequentially, Previous
  <1>2. CASE next <= Len(Checks) /\ Starts(Checks[next])
    BY <1>1, <1>2, StartsStep
  <1>3. CASE next > Len(Checks) /\ Ends("ended")
    <2>1. next = Len(Checks) + 1 /\ Len(Checks) \in Nat
      BY <1>3, NextPlaces, CheckPlaces DEF DInv
    <2>2. ASSUME NEW i \in 1 .. Len(Checks) PROVE phase[Checks[i]] = "exited"
      <3>1. (i = next - 1 /\ next > 1) \/ i \in 1 .. next - 2
        BY <2>1
      <3> QED BY <1>1, <3>1 DEF DInv, Behind
    <2>3. \A c \in Check : phase[c] = "exited" /\ line[c] # "none"
      BY <1>1, <2>2, CheckPlaces DEF DInv, LinesTold
    <2> QED BY <1>3, <2>3, EndsStep
  <1> QED BY <1>2, <1>3 DEF RunSequentially

LEMMA LaunchStep == DInv /\ Launch => DInv'
  <1> SUFFICES ASSUME DInv, Launch PROVE DInv'
    OBVIOUS
  <1>1. mode = "parallel" /\ script = "checking"
    BY DEF Launch
  <1>2. CASE next <= Len(Checks) /\ Starts(Checks[next])
    BY <1>1, <1>2, StartsStep
  <1>3. CASE script' = "waiting" /\ next' = 1 /\ UNCHANGED <<mode, checkVars, killed>>
    <2>1. UNCHANGED <<mode, phase, attempt, answer, line, logged, code, killed>>
      BY <1>3 DEF checkVars
    <2>2. DiagnosticsTypeOK'
      <3>1. next' \in 1 .. Len(Checks) + 1
        BY <1>3, CheckPlaces
      <3> QED BY <1>3, <2>1, <3>1 DEF DInv, DiagnosticsTypeOK
    <2>3. AskedOnce' /\ Behind' /\ LinesTold' /\ Cleaned' /\ SummaryMeansAllReported'
      BY <1>1, <1>3, <2>1 DEF DInv, AskedOnce, Behind, LinesTold, Cleaned, Over,
         SummaryMeansAllReported
    <2> QED BY <2>2, <2>3 DEF DInv
  <1> QED BY <1>2, <1>3 DEF Launch

LEMMA WaitStep == DInv /\ Wait => DInv'
  <1> SUFFICES ASSUME DInv, Wait PROVE DInv'
    OBVIOUS
  <1>1. script = "waiting" /\ mode = "parallel"
    BY DEF Wait, DInv, Behind
  <1>2. CASE /\ next <= Len(Checks) /\ phase[Checks[next]] = "exited" /\ code[Checks[next]] = 0
             /\ next' = next + 1 /\ UNCHANGED <<mode, script, checkVars, killed>>
    <2>1. UNCHANGED <<mode, script, phase, attempt, answer, line, logged, code, killed>>
      BY <1>2 DEF checkVars
    <2>2. /\ next' \in 1 .. Len(Checks) + 1
          /\ \A i \in 1 .. next' - 1 : i = next \/ i \in 1 .. next - 1
      BY <1>2, NextPlaces, CheckPlaces DEF DInv
    <2>3. DiagnosticsTypeOK'
      BY <2>1, <2>2 DEF DInv, DiagnosticsTypeOK
    <2>4. Behind'
      BY <1>1, <1>2, <2>1, <2>2 DEF DInv, Behind
    <2>5. AskedOnce' /\ LinesTold' /\ Cleaned' /\ SummaryMeansAllReported'
      BY <1>1, <2>1 DEF DInv, AskedOnce, LinesTold, Cleaned, Over, SummaryMeansAllReported
    <2> QED BY <2>3, <2>4, <2>5 DEF DInv
  <1>3. CASE Ends("aborted")
    BY <1>3, EndsStep
  <1>4. CASE next > Len(Checks) /\ Ends("ended")
    <2>1. \A i \in 1 .. Len(Checks) : i \in 1 .. next - 1
      BY <1>4, NextPlaces, CheckPlaces DEF DInv
    <2>2. \A c \in Check : phase[c] = "exited" /\ code[c] = 0
      BY <1>1, <2>1, CheckPlaces DEF DInv, Behind
    <2>3. \A c \in Check : phase[c] = "exited" /\ line[c] # "none"
      BY <2>2 DEF DInv, LinesTold
    <2> QED BY <1>4, <2>3, EndsStep
  <1> QED BY <1>2, <1>3, <1>4 DEF Wait

LEMMA DiagnosticsStep == DInv /\ [Next]_vars => DInv'
  <1> SUFFICES ASSUME DInv, [Next]_vars PROVE DInv'
    OBVIOUS
  <1>1. CASE Interrupt
    BY <1>1, EndsStep DEF Interrupt
  <1>2. CASE UNCHANGED vars
    BY <1>2 DEF vars, checkVars, DInv, DiagnosticsTypeOK, AskedOnce, Behind, LinesTold,
       Cleaned, Over, SummaryMeansAllReported
  <1> QED BY <1>1, <1>2, RunStep, LaunchStep, WaitStep, AttemptStep, ReportStep DEF Next

LEMMA DiagnosticsInductive == Spec => []DInv
  BY DiagnosticsInit, DiagnosticsStep, PTL DEF Spec

(* When the summary is printed every check has printed its line: in        *)
(* sequence each one has returned, and a job that errexit ends without a   *)
(* line makes the wait for it end the script first.                        *)
THEOREM TheSummaryMeansAllReported == Spec => []SummaryMeansAllReported
  <1>1. DInv => SummaryMeansAllReported
    BY DEF DInv
  <1> QED BY <1>1, DiagnosticsInductive, PTL

(* When the script is over no check reports, for cleanup has killed every  *)
(* job that had not returned, and what is still logged is logged by the    *)
(* requests of such jobs.                                                  *)
THEOREM ReportsEndWithTheScript == Spec => ReportsEndWithScript
  <1>1. DInv /\ [Next]_vars =>
          [Over => /\ line' = line
                   /\ \A c \in Check : logged'[c] # logged[c] =>
                        mode = "parallel" /\ c \in killed /\ phase[c] = "request"]_vars
    <2> SUFFICES ASSUME DInv, Next, Over
                 PROVE  /\ line' = line
                        /\ \A c \in Check : logged'[c] # logged[c] =>
                             mode = "parallel" /\ c \in killed /\ phase[c] = "request"
      OBVIOUS
    <2>1. ASSUME NEW c \in Check, Report(c) PROVE FALSE
      BY <2>1 DEF Report, DInv, Cleaned
    <2>2. PICK c \in Check : Attempt(c)
      BY <2>1 DEF Next, RunSequentially, Launch, Wait, Interrupt, Over
    <2>3. /\ phase[c] = "request" /\ mode = "parallel" /\ line' = line
          /\ \E lines \in Nat : Logs(c, lines)
      BY <2>2 DEF Attempt, Answers, Retries, LinesOf
    <2>4. c \in killed
      BY <2>3 DEF DInv, Cleaned
    <2>5. \A d \in Check : d # c => logged'[d] = logged[d]
      BY <2>3 DEF Logs, DInv, DiagnosticsTypeOK
    <2> QED BY <2>3, <2>4, <2>5
  <1> QED BY <1>1, DiagnosticsInductive, PTL DEF Spec, ReportsEndWithScript

(* What the node has answered, be it an error, is not asked again: a check *)
(* that still asks has no answer.                                          *)
THEOREM AnswersAreFinal == Spec => AnswerIsFinal
  <1>1. DInv /\ [Next]_vars =>
          [\A c \in Check : answer[c] # "none" =>
             answer'[c] = answer[c] /\ attempt'[c] = attempt[c]]_vars
    <2> SUFFICES ASSUME DInv, Next, NEW c \in Check, answer[c] # "none"
                 PROVE  answer'[c] = answer[c] /\ attempt'[c] = attempt[c]
      OBVIOUS
    <2>1. ASSUME NEW d \in Check, Attempt(d)
          PROVE  answer'[c] = answer[c] /\ attempt'[c] = attempt[c]
      <3>1. phase[d] = "request" /\ d # c
        BY <2>1 DEF Attempt, DInv, AskedOnce
      <3> QED BY <2>1, <3>1 DEF Attempt, Answers, Retries, DInv, DiagnosticsTypeOK
    <2> QED BY <2>1 DEF Next, RunSequentially, Launch, Wait, Interrupt, Starts, Ends, Report,
         checkVars
  <1> QED BY <1>1, DiagnosticsInductive, PTL DEF Spec, AnswerIsFinal
=============================================================================

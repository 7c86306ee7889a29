--------------------------- MODULE StorageClients ---------------------------
(***************************************************************************)
(* The programs of snippets/{go,ethers,viem,python,rust} on one node.  Each *)
(* deploys a Storage contract of its own, stores a message in it, reads    *)
(* the message back and prints it, and all of them sign with the same      *)
(* account.                                                                *)
(*                                                                         *)
(* They differ in what they wait for and in who numbers their              *)
(* transactions.  Go (main.go) and Rust (the filler of alloy's provider)   *)
(* ask for the account's next nonce and send with it later; the others     *)
(* leave it to the node.  Go, Python and Rust wait for both receipts; viem *)
(* asks once for the receipt of the deployment; ethers waits for nothing.  *)
(*                                                                         *)
(* The node mines a transaction as it arrives, as Hardhat's does unless it *)
(* is told otherwise, or later.                                            *)
(***************************************************************************)
EXTENDS Naturals, Sequences

CONSTANTS
  Client,   \* running programs
  Program,  \* [Client -> what it runs]
  MayFail,  \* clients whose calls to the node may fail
  NoMessage \* what a new Storage holds, the empty string

Programs == {"go", "ethers", "viem", "python", "rust"}

ASSUME StorageConstants ==
  /\ Program \in [Client -> Programs]
  /\ MayFail \subseteq Client
  /\ NoMessage \notin Client

VARIABLES
  automine, \* does the node mine each transaction as it arrives?
  txs,      \* what the node has accepted from the account, by nonce
  mined,    \* how many of them are on chain
  stored,   \* message by address, for the addresses with code; the address
            \* of a contract is the nonce of its deployment, a message is
            \* the client that stores it
  at,       \* [Client -> where it is]
  nonce,    \* [Client -> the nonce it has asked for, until it is used, or 0]
  contract, \* [Client -> address of its contract, or 0]
  sent,     \* [Client -> nonce of the last transaction it sent, or 0]
  printed   \* [Client -> message it printed]

nodeVars == <<automine, txs, mined, stored>>
vars == <<nodeVars, at, nonce, contract, sent, printed>>

(* The way of each program through its calls: where it begins, and where   *)
(* it goes when it has sent the deployment, has its receipt, and has sent  *)
(* the call of store.                                                      *)
Go == [begin |-> "start", deploy |-> "deploying", deploying |-> "deployed", store |-> "storing"]
Rust == [begin |-> "start", deploy |-> "deploying", deploying |-> "deployed", store |-> "storing"]
Python == [begin |-> "deploy", deploy |-> "deploying", deploying |-> "store", store |-> "storing"]
Viem == [begin |-> "deploy", deploy |-> "deploying", deploying |-> "store", store |-> "stored"]
Ethers == [begin |-> "deploy", deploy |-> "store", deploying |-> "store", store |-> "stored"]

Route(c) ==
  [go |-> Go, rust |-> Rust, python |-> Python, viem |-> Viem, ethers |-> Ethers][Program[c]]

NumbersItself(c) == Route(c).begin = "start"
WaitsForReceipts(c) == Route(c).store = "storing"

Places == {"start", "deploy", "deploying", "deployed", "store", "storing",
           "stored", "done", "failed"}

Init ==
  /\ automine \in BOOLEAN
  /\ txs = <<>> /\ mined = 0 /\ stored = <<>>
  /\ at = [c \in Client |-> Route(c).begin]
  /\ nonce = [c \in Client |-> 0]
  /\ contract = [c \in Client |-> 0]
  /\ sent = [c \in Client |-> 0]
  /\ printed = [c \in Client |-> NoMessage]

-----------------------------------------------------------------------------
(* The node.                                                               *)

Deployment(c) == [kind |-> "deploy", from |-> c]
Store(c, gas) == [kind |-> "store", from |-> c, to |-> contract[c], gas |-> gas]

Creates(n) ==
  stored' = [a \in DOMAIN stored \cup {n} |-> IF a = n THEN NoMessage ELSE stored[a]]

Calls(tx) ==
  stored' = [a \in DOMAIN stored |-> IF a = tx.to /\ tx.gas THEN tx.from ELSE stored[a]]

(* A transaction on chain: a new contract at the address its nonce gives,  *)
(* or a call of store, which puts the message of its sender in a contract  *)
(* that is there, given the gas.                                           *)
Executes(tx, n) ==
  \/ tx.kind = "deploy" /\ Creates(n)
  \/ tx.kind = "store" /\ Calls(tx)

Mine ==
  /\ mined < Len(txs)
  /\ mined' = mined + 1
  /\ Executes(txs[mined + 1], mined + 1)
  /\ UNCHANGED <<automine, txs, at, nonce, contract, sent, printed>>

Accepts(tx) ==
  /\ txs' = Append(txs, tx)
  /\ \/ automine /\ mined' = mined + 1 /\ Executes(tx, mined + 1)
     \/ ~automine /\ UNCHANGED <<mined, stored>>
  /\ UNCHANGED automine

NextNonce == Len(txs) + 1

-----------------------------------------------------------------------------
(* A client.                                                               *)

Goes(c, to) == at' = [at EXCEPT ![c] = to]

(* Any call may fail, and ends the program; so do the limits that Python   *)
(* sets to its waiting.                                                    *)
Fail(c) ==
  /\ c \in MayFail
  /\ at[c] \notin {"done", "failed"}
  /\ Goes(c, "failed")
  /\ nonce' = [nonce EXCEPT ![c] = 0]
  /\ UNCHANGED <<nodeVars, contract, sent, printed>>

(* PendingNonceAt.                                                         *)
Number(c) ==
  /\ \/ at[c] = "start" /\ Goes(c, "deploy")
     \/ at[c] = "deployed" /\ Goes(c, "store")
  /\ nonce' = [nonce EXCEPT ![c] = NextNonce]
  /\ UNCHANGED <<nodeVars, contract, sent, printed>>

(* The node refuses a nonce that is taken, as too low or as an underpriced *)
(* replacement.                                                            *)
Refused(c) == NumbersItself(c) /\ nonce[c] # NextNonce

(* Mutant: the error of the deployment is not looked at, and the address   *)
(* is that of the nonce asked for.                                         *)
SendDeploymentUnchecked(c) ==
  /\ at[c] = "deploy"
  /\ \/ Refused(c) /\ UNCHANGED nodeVars
     \/ ~Refused(c) /\ Accepts(Deployment(c))
  /\ contract' = [contract EXCEPT ![c] = nonce[c]]
  /\ sent' = [sent EXCEPT ![c] = nonce[c]]
  /\ Goes(c, Route(c).deploy)
  /\ nonce' = [nonce EXCEPT ![c] = 0]
  /\ UNCHANGED printed

(* LinkAndDeploy, factory.deploy, deployContract, constructor().transact,  *)
(* deploy_builder.                                                         *)
SendDeployment(c) ==
  /\ at[c] = "deploy"
  /\ \/ /\ Refused(c)
        /\ Goes(c, "failed")
        /\ UNCHANGED <<nodeVars, contract, sent>>
     \/ /\ ~Refused(c)
        /\ Accepts(Deployment(c))
        /\ contract' = [contract EXCEPT ![c] = NextNonce]
        /\ sent' = [sent EXCEPT ![c] = NextNonce]
        /\ Goes(c, Route(c).deploy)
  /\ nonce' = [nonce EXCEPT ![c] = 0]
  /\ UNCHANGED printed

(* Receipts are found by the hash of the transaction.                      *)
HasReceipt(c) == sent[c] \in 1 .. mined /\ txs[sent[c]].from = c

(* The receipt of the deployment: waited for, or asked for once.           *)
AwaitDeployment(c) ==
  /\ at[c] = "deploying"
  /\ \/ HasReceipt(c) /\ Goes(c, Route(c).deploying)
     \/ ~HasReceipt(c) /\ ~WaitsForReceipts(c) /\ Goes(c, "failed")
  /\ UNCHANGED <<nodeVars, nonce, contract, sent, printed>>

(* The gas of a call to an address without code, which only ethers makes,  *)
(* may be estimated too low.                                               *)
SendStore(c) ==
  /\ at[c] = "store"
  /\ \/ /\ Refused(c)
        /\ Goes(c, "failed")
        /\ UNCHANGED <<nodeVars, sent>>
     \/ /\ ~Refused(c)
        /\ \E gas \in BOOLEAN :
             /\ contract[c] \in DOMAIN stored => gas
             /\ Accepts(Store(c, gas))
        /\ sent' = [sent EXCEPT ![c] = NextNonce]
        /\ Goes(c, Route(c).store)
  /\ nonce' = [nonce EXCEPT ![c] = 0]
  /\ UNCHANGED <<contract, printed>>

(* Mutant: no WaitMined.                                                   *)
AwaitNothing(c) ==
  /\ at[c] = "storing"
  /\ Goes(c, "stored")
  /\ UNCHANGED <<nodeVars, nonce, contract, sent, printed>>

AwaitStore(c) ==
  /\ at[c] = "storing"
  /\ HasReceipt(c)
  /\ Goes(c, "stored")
  /\ UNCHANGED <<nodeVars, nonce, contract, sent, printed>>

(* retrieve fails at an address without code.                              *)
Retrieve(c) ==
  /\ at[c] = "stored"
  /\ \/ /\ contract[c] \in DOMAIN stored
        /\ printed' = [printed EXCEPT ![c] = stored[contract[c]]]
        /\ Goes(c, "done")
     \/ /\ contract[c] \notin DOMAIN stored
        /\ Goes(c, "failed")
        /\ UNCHANGED printed
  /\ UNCHANGED <<nodeVars, nonce, contract, sent>>

Step(c) ==
  \/ Number(c) \/ SendDeployment(c) \/ AwaitDeployment(c)
  \/ SendStore(c) \/ AwaitStore(c) \/ Retrieve(c)

Next == Mine \/ \E c \in Client : Step(c) \/ Fail(c)

Spec == Init /\ [][Next]_vars

(* The node mines and the programs run on.                                 *)
FairSpec == Spec /\ WF_vars(Mine) /\ \A c \in Client : WF_vars(Step(c))

-----------------------------------------------------------------------------
Ended(c) == at[c] \in {"done", "failed"}

Transaction ==
  [kind : {"deploy"}, from : Client] \cup
  [kind : {"store"}, from : Client, to : Nat, gas : BOOLEAN]

(* The variables have their types, and the node's contracts are where the  *)
(* mined deployments put them.                                             *)
TypeOK ==
  /\ automine \in BOOLEAN
  /\ txs \in Seq(Transaction)
  /\ mined \in 0 .. Len(txs)
  /\ stored \in [{n \in 1 .. mined : txs[n].kind = "deploy"} -> Client \cup {NoMessage}]
  /\ at \in [Client -> Places]
  /\ nonce \in [Client -> 0 .. Len(txs) + 1]
  /\ contract \in [Client -> 0 .. Len(txs)]
  /\ sent \in [Client -> 0 .. Len(txs)]
  /\ printed \in [Client -> Client \cup {NoMessage}]

(* The address a client works with is that of the contract it deployed     *)
(* itself, though others send with the same account while it deploys (the  *)
(* nonce of main.go:55 may be taken before line 76 uses it).               *)
ContractIsOwn ==
  \A c \in Client : contract[c] # 0 =>
    contract[c] <= Len(txs) /\ txs[contract[c]] = Deployment(c)

(* A client that ends well prints the message it stored.  Those that do    *)
(* not wait for their transactions may find the contract empty, on a node  *)
(* that does not mine at once; nobody prints the message of another.       *)
PrintsOwn ==
  \A c \in Client : at[c] = "done" =>
    \/ printed[c] = c
    \/ ~automine /\ Program[c] \in {"ethers", "viem"} /\ printed[c] = NoMessage

(* Every client ends, whoever else uses the account: no transaction is     *)
(* left behind a nonce that nobody sends.                                  *)
ClientsEnd == \A c \in Client : <>Ended(c)
=============================================================================

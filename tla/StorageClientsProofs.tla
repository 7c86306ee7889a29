------------------------ MODULE StorageClientsProofs ------------------------
(* That a client's contract is its own, and that it prints its own message *)
(* where it has waited for it, for any number of programs on one account.  *)
EXTENDS StorageClients, TLAPS

(* A node that mines as transactions arrive leaves none behind.            *)
AutomineKeepsUp == automine => mined = Len(txs)

(* store is called on the sender's own contract, deployed before.          *)
CallsGoHome ==
  \A n \in 1 .. Len(txs) : txs[n].kind = "store" =>
    txs[n].to \in 1 .. n - 1 /\ txs[n].to = contract[txs[n].from]

(* A contract holds nothing or the message of the client that deployed it. *)
MessagesAtHome ==
  \A a \in DOMAIN stored : stored[a] \in {NoMessage, txs[a].from}

(* A call on chain that had the gas has left its message.                  *)
CallsTakeEffect ==
  \A n \in 1 .. mined : txs[n].kind = "store" /\ txs[n].gas =>
    stored[txs[n].to] = txs[n].from

(* What a client's place says of its transactions.                         *)
Progress(c) ==
  /\ at[c] \in {"start", "deploy"} => contract[c] = 0
  /\ at[c] = "deploying" => contract[c] # 0 /\ sent[c] = contract[c]
  /\ at[c] \in {"deployed", "store"} =>
       contract[c] # 0 /\ (WaitsForReceipts(c) => contract[c] <= mined)
  /\ at[c] \in {"storing", "stored"} =>
       /\ contract[c] # 0
       /\ sent[c] \in 1 .. Len(txs)
       /\ txs[sent[c]].kind = "store" /\ txs[sent[c]].from = c
       /\ WaitsForReceipts(c) \/ automine => txs[sent[c]].gas
  /\ at[c] = "stored" /\ WaitsForReceipts(c) => sent[c] <= mined

TxsInv == txs \in Seq(Transaction) /\ ContractIsOwn /\ CallsGoHome

StoredType ==
  stored \in [{n \in 1 .. mined : txs[n].kind = "deploy"} -> Client \cup {NoMessage}]

StoredInv == StoredType /\ MessagesAtHome /\ CallsTakeEffect

IInv ==
  /\ TypeOK /\ AutomineKeepsUp /\ TxsInv /\ StoredInv
  /\ \A c \in Client : Progress(c)
  /\ PrintsOwn

-----------------------------------------------------------------------------
(* The programs as far as the proof distinguishes them.                    *)
LEMMA RouteFacts ==
  ASSUME NEW c \in Client
  PROVE  /\ Route(c).begin \in {"start", "deploy"}
         /\ Route(c).deploy \in {"deploying", "store"}
         /\ Route(c).deploy = "store" => ~WaitsForReceipts(c)
         /\ Route(c).deploying \in {"deployed", "store"}
         /\ Route(c).store \in {"storing", "stored"}
         /\ WaitsForReceipts(c) \/ Program[c] \in {"ethers", "viem"}
  <1> USE DEF Route, Go, Rust, Python, Viem, Ethers, WaitsForReceipts
  <1>1. CASE Program[c] = "go"
    BY <1>1
  <1>2. CASE Program[c] = "rust"
    BY <1>2
  <1>3. CASE Program[c] = "python"
    BY <1>3
  <1>4. CASE Program[c] = "viem"
    BY <1>4
  <1>5. CASE Program[c] = "ethers"
    BY <1>5
  <1> QED BY <1>1, <1>2, <1>3, <1>4, <1>5, StorageConstants DEF Programs

LEMMA InitIInv == Init => IInv
  <1> SUFFICES ASSUME Init PROVE IInv
    OBVIOUS
  <1> USE StorageConstants DEF Init
  <1>1. TypeOK
    BY RouteFacts DEF TypeOK, Places
  <1>2. AutomineKeepsUp /\ TxsInv /\ StoredInv
    BY DEF AutomineKeepsUp, TxsInv, ContractIsOwn, CallsGoHome, StoredInv, StoredType,
           MessagesAtHome, CallsTakeEffect
  <1>3. ASSUME NEW c \in Client PROVE Progress(c) /\ at[c] # "done"
    BY RouteFacts DEF Progress
  <1> QED BY <1>1, <1>2, <1>3 DEF IInv, PrintsOwn

(* The transaction after the last one mined is executed.  The transactions *)
(* may have grown meanwhile, and the clients' contracts with them.         *)
LEMMA ExecutesStored ==
  ASSUME TxsInv, TxsInv', StoredInv, mined \in 0 .. Len(txs),
         mined' = mined + 1, mined + 1 \in 1 .. Len(txs'),
         \A n \in 1 .. mined : txs'[n] = txs[n],
         Executes(txs'[mined + 1], mined + 1)
  PROVE  StoredInv'
  <1> DEFINE new == mined + 1
             tx == txs'[new]
             code == {n \in 1 .. mined : txs[n].kind = "deploy"}
  <1>1. tx \in Transaction /\ tx.from \in Client /\ new \in Nat \ {0} /\ mined \in Nat
    BY DEF TxsInv, Transaction
  <1>2. DOMAIN stored = code /\ \A a \in code : stored[a] \in Client \cup {NoMessage}
    BY DEF StoredInv, StoredType
  <1>3. CASE tx.kind = "deploy"
    <2>1. stored' = [a \in code \cup {new} |-> IF a = new THEN NoMessage ELSE stored[a]]
      BY <1>2, <1>3 DEF Executes, Creates
    <2>2. {n \in 1 .. mined' : txs'[n].kind = "deploy"} = code \cup {new}
      BY <1>1, <1>3
    <2>3. StoredType'
      BY <1>2, <2>1, <2>2 DEF StoredType
    <2>4. MessagesAtHome'
      BY <1>1, <1>2, <2>1 DEF StoredInv, MessagesAtHome
    <2>5. CallsTakeEffect'
      <3> SUFFICES ASSUME NEW n \in 1 .. new, txs'[n].kind = "store", txs'[n].gas
                   PROVE  stored'[txs'[n].to] = txs'[n].from
        BY DEF CallsTakeEffect
      <3>1. n \in 1 .. mined /\ txs'[n] = txs[n]
        BY <1>1, <1>3
      <3>2. txs[n].to \in 1 .. n - 1
        BY <3>1 DEF TxsInv, CallsGoHome
      <3>3. txs[n].to = contract[txs[n].from] /\ txs[n].from \in Client
        BY <3>1 DEF TxsInv, CallsGoHome, Transaction
      <3>4. txs[n].to \in code
        <4>1. txs[n].to # 0 /\ txs[n].to \in 1 .. mined
          BY <1>1, <3>1, <3>2
        <4>2. txs[txs[n].to] = Deployment(txs[n].from)
          BY <3>3, <4>1 DEF TxsInv, ContractIsOwn
        <4> QED BY <4>1, <4>2 DEF Deployment
      <3>5. stored[txs[n].to] = txs[n].from
        BY <3>1 DEF StoredInv, CallsTakeEffect
      <3> QED BY <1>1, <2>1, <3>1, <3>2, <3>4, <3>5
    <2> QED BY <2>3, <2>4, <2>5 DEF StoredInv
  <1>4. CASE tx.kind = "store"
    <2>1. stored' = [a \in code |-> IF a = tx.to /\ tx.gas THEN tx.from ELSE stored[a]]
      BY <1>2, <1>4 DEF Executes, Calls
    <2>2. {n \in 1 .. mined' : txs'[n].kind = "deploy"} = code
      BY <1>1, <1>4
    <2>3. StoredType'
      BY <1>1, <1>2, <2>1, <2>2 DEF StoredType
    <2>4. ASSUME NEW n \in 1 .. new, txs'[n].kind = "store"
          PROVE  /\ txs'[n].to \in 1 .. mined
                 /\ txs'[txs'[n].to].kind = "deploy"
                 /\ txs'[txs'[n].to].from = txs'[n].from
      <3>1. txs'[n].to \in 1 .. n - 1 /\ txs'[n].to = contract'[txs'[n].from]
        BY <2>4 DEF TxsInv, CallsGoHome
      <3>2. txs'[n].from \in Client
        BY DEF TxsInv, Transaction
      <3>3. txs'[n].to # 0 /\ txs'[n].to \in 1 .. mined
        BY <1>1, <3>1
      <3>4. txs'[txs'[n].to] = Deployment(txs'[n].from)
        BY <3>1, <3>2, <3>3 DEF TxsInv, ContractIsOwn
      <3> QED BY <3>3, <3>4 DEF Deployment
    <2>5. MessagesAtHome'
      <3> SUFFICES ASSUME NEW a \in code
                   PROVE  stored'[a] \in {NoMessage, txs'[a].from}
        BY <2>1 DEF MessagesAtHome
      <3>1. stored[a] \in {NoMessage, txs'[a].from}
        BY <1>2 DEF StoredInv, MessagesAtHome
      <3>2. new \in 1 .. new
        BY <1>1
      <3>3. txs'[tx.to].from = tx.from
        BY <1>4, <2>4, <3>2
      <3> QED BY <2>1, <3>1, <3>3
    <2>6. CallsTakeEffect'
      <3> SUFFICES ASSUME NEW n \in 1 .. new, txs'[n].kind = "store", txs'[n].gas
                   PROVE  stored'[txs'[n].to] = txs'[n].from
        BY DEF CallsTakeEffect
      <3>1. txs'[n].to \in code
        BY <1>1, <2>4
      <3>2. CASE n = new
        BY <2>1, <3>1, <3>2
      <3>3. CASE n # new
        <4>1. n \in 1 .. mined /\ stored[txs'[n].to] = txs'[n].from
          BY <1>1, <3>3 DEF StoredInv, CallsTakeEffect
        <4>2. txs'[n].to = tx.to => txs'[n].from = tx.from
          <5>1. new \in 1 .. new
            BY <1>1
          <5> QED BY <1>4, <2>4, <5>1
        <4> QED BY <2>1, <3>1, <4>1, <4>2
      <3> QED BY <3>2, <3>3
    <2> QED BY <2>3, <2>5, <2>6 DEF StoredInv
  <1> QED BY <1>1, <1>3, <1>4 DEF Transaction

(* What the node accepts it appends, and mines at once or later.           *)
LEMMA AcceptsAppends ==
  ASSUME TypeOK, NEW tx \in Transaction, Accepts(tx)
  PROVE  /\ txs' \in Seq(Transaction) /\ Len(txs') = NextNonce
         /\ txs'[NextNonce] = tx /\ \A n \in 1 .. Len(txs) : txs'[n] = txs[n]
         /\ mined' \in mined .. mined + 1
  BY DEF TypeOK, Accepts, NextNonce

LEMMA AcceptsStored ==
  ASSUME IInv, NEW tx \in Transaction, Accepts(tx), TxsInv'
  PROVE  StoredInv' /\ AutomineKeepsUp' /\ mined' \in 0 .. Len(txs')
  <1>1. /\ Len(txs) \in Nat /\ mined \in 0 .. Len(txs)
        /\ Len(txs') = Len(txs) + 1 /\ txs'[Len(txs) + 1] = tx
        /\ \A n \in 1 .. Len(txs) : txs'[n] = txs[n]
    BY AcceptsAppends DEF IInv, TypeOK, NextNonce
  <1>2. CASE automine
    <2>1. mined = Len(txs) /\ mined' = mined + 1 /\ automine' = automine
      BY <1>2 DEF IInv, AutomineKeepsUp, Accepts
    <2>2. Executes(txs'[mined + 1], mined + 1)
      BY <1>1, <1>2, <2>1 DEF Accepts
    <2>3. mined + 1 \in 1 .. Len(txs') /\ \A n \in 1 .. mined : txs'[n] = txs[n]
      BY <1>1, <2>1
    <2>4. StoredInv'
      BY <1>1, <2>1, <2>2, <2>3, ExecutesStored DEF IInv
    <2> QED BY <1>1, <2>1, <2>4 DEF AutomineKeepsUp
  <1>3. CASE ~automine
    <2>1. mined' = mined /\ stored' = stored /\ ~automine'
      BY <1>3 DEF Accepts
    <2>2. \A n \in 1 .. mined : txs'[n] = txs[n]
      BY <1>1
    <2>3. StoredType'
      <3>1. {n \in 1 .. mined' : txs'[n].kind = "deploy"} =
              {n \in 1 .. mined : txs[n].kind = "deploy"}
        BY <2>1, <2>2
      <3> QED BY <2>1, <3>1 DEF IInv, StoredInv, StoredType
    <2>4. MessagesAtHome'
      <3>1. \A a \in DOMAIN stored : txs'[a] = txs[a]
        BY <2>2 DEF IInv, StoredInv, StoredType
      <3> QED BY <2>1, <3>1 DEF IInv, StoredInv, MessagesAtHome
    <2>5. CallsTakeEffect'
      BY <2>1, <2>2 DEF IInv, StoredInv, CallsTakeEffect
    <2> QED BY <1>1, <2>1, <2>3, <2>4, <2>5 DEF StoredInv, AutomineKeepsUp
  <1> QED BY <1>2, <1>3

(* A client that does not move keeps its place while the node goes on.     *)
LEMMA ProgressFrame ==
  ASSUME NEW d \in Client, TypeOK, Progress(d),
         at'[d] = at[d], contract'[d] = contract[d], sent'[d] = sent[d],
         automine' = automine, mined' \in Nat, mined <= mined',
         Len(txs') \in Nat, Len(txs) <= Len(txs'),
         \A n \in 1 .. Len(txs) : txs'[n] = txs[n]
  PROVE  Progress(d)'
  <1>1. contract[d] \in Nat /\ sent[d] \in Nat /\ mined \in Nat /\ Len(txs) \in Nat
    BY DEF TypeOK
  <1> QED BY <1>1 DEF Progress

(* A transaction on chain takes effect on its contract alone.              *)
LEMMA MineIInv == IInv /\ Mine => IInv'
  <1> SUFFICES ASSUME IInv, Mine PROVE IInv'
    OBVIOUS
  <1>1. /\ Len(txs) \in Nat /\ mined \in 0 .. Len(txs) /\ mined + 1 \in 1 .. Len(txs)
        /\ mined' = mined + 1
        /\ UNCHANGED <<automine, txs, at, nonce, contract, sent, printed>>
    BY DEF IInv, TypeOK, Mine
  <1>2. TxsInv'
    BY <1>1 DEF IInv, TxsInv, ContractIsOwn, CallsGoHome
  <1>3. StoredInv'
    BY <1>1, <1>2, ExecutesStored DEF IInv, Mine
  <1>4. AutomineKeepsUp'
    BY <1>1 DEF IInv, AutomineKeepsUp
  <1>5. TypeOK'
    BY <1>1, <1>3 DEF IInv, TypeOK, StoredInv, StoredType
  <1>6. ASSUME NEW d \in Client PROVE Progress(d)'
    BY <1>1, ProgressFrame DEF IInv
  <1>7. PrintsOwn'
    BY <1>1 DEF IInv, PrintsOwn
  <1> QED BY <1>2, <1>3, <1>4, <1>5, <1>6, <1>7 DEF IInv

(* What PrintsOwn allows a client to have printed.                         *)
MayPrint(c, message) ==
  \/ message = c
  \/ ~automine /\ Program[c] \in {"ethers", "viem"} /\ message = NoMessage

(* A step of one client that asks the node for nothing but an answer.      *)
LEMMA LocalIInv ==
  ASSUME IInv, NEW c \in Client, UNCHANGED <<nodeVars, contract, sent>>,
         NEW to \in Places, Goes(c, to),
         nonce' \in [Client -> 0 .. Len(txs) + 1],
         printed' \in [Client -> Client \cup {NoMessage}],
         \A d \in Client \ {c} : printed'[d] = printed[d],
         Progress(c)',
         to = "done" => MayPrint(c, printed'[c])
  PROVE  IInv'
  <1>1. UNCHANGED <<automine, txs, mined, stored, contract, sent>>
    BY DEF nodeVars
  <1>2. at' \in [Client -> Places] /\ at'[c] = to /\ \A d \in Client \ {c} : at'[d] = at[d]
    BY DEF Goes, IInv, TypeOK
  <1>3. TypeOK'
    BY <1>1, <1>2 DEF IInv, TypeOK
  <1>4. AutomineKeepsUp' /\ TxsInv' /\ StoredInv'
    BY <1>1 DEF IInv, AutomineKeepsUp, TxsInv, ContractIsOwn, CallsGoHome, StoredInv,
           StoredType, MessagesAtHome, CallsTakeEffect
  <1>5. ASSUME NEW d \in Client PROVE Progress(d)'
    <2>1. mined \in Nat /\ Len(txs) \in Nat
      BY DEF IInv, TypeOK
    <2>2. CASE d = c
      BY <2>2
    <2>3. CASE d # c
      BY <1>1, <1>2, <2>1, <2>3, ProgressFrame DEF IInv
    <2> QED BY <2>2, <2>3
  <1>6. PrintsOwn'
    BY <1>1, <1>2 DEF IInv, PrintsOwn, MayPrint
  <1> QED BY <1>3, <1>4, <1>5, <1>6 DEF IInv

(* Failing, asking, awaiting and reading.                                  *)
LEMMA FailIInv ==
  ASSUME IInv, NEW c \in Client, Goes(c, "failed"),
         UNCHANGED <<nodeVars, contract, sent, printed>>,
         nonce' \in [Client -> 0 .. Len(txs) + 1]
  PROVE  IInv'
  <1>1. at'[c] = "failed"
    BY DEF Goes, IInv, TypeOK
  <1>2. Progress(c)'
    BY <1>1 DEF Progress
  <1>3. printed' \in [Client -> Client \cup {NoMessage}] /\ printed' = printed
    BY DEF IInv, TypeOK
  <1> QED BY <1>2, <1>3, LocalIInv DEF Places

LEMMA NumberIInv ==
  ASSUME IInv, NEW c \in Client, Number(c)
  PROVE  IInv'
  <1>1. PICK to \in {"deploy", "store"} :
          Goes(c, to) /\ at[c] = IF to = "deploy" THEN "start" ELSE "deployed"
    BY DEF Number
  <1>2. at'[c] = to /\ UNCHANGED <<automine, txs, mined, stored, contract, sent, printed>>
    BY <1>1 DEF Goes, Number, nodeVars, IInv, TypeOK
  <1>3. Progress(c)'
    BY <1>1, <1>2 DEF IInv, Progress
  <1>4. nonce' \in [Client -> 0 .. Len(txs) + 1]
    BY DEF Number, NextNonce, IInv, TypeOK
  <1>5. printed' \in [Client -> Client \cup {NoMessage}]
    BY <1>2 DEF IInv, TypeOK
  <1>6. UNCHANGED <<nodeVars, contract, sent>>
    BY DEF Number
  <1> QED BY <1>1, <1>2, <1>3, <1>4, <1>5, <1>6, LocalIInv DEF Places

LEMMA AwaitDeploymentIInv ==
  ASSUME IInv, NEW c \in Client, AwaitDeployment(c)
  PROVE  IInv'
  <1>1. /\ UNCHANGED <<nodeVars, nonce, contract, sent, printed>> /\ at[c] = "deploying"
        /\ nonce' \in [Client -> 0 .. Len(txs) + 1]
        /\ printed' \in [Client -> Client \cup {NoMessage}]
    BY DEF AwaitDeployment, IInv, TypeOK
  <1>2. CASE HasReceipt(c) /\ Goes(c, Route(c).deploying)
    <2>1. at'[c] = Route(c).deploying /\ Route(c).deploying \in {"deployed", "store"}
      BY <1>2, RouteFacts DEF Goes, IInv, TypeOK
    <2>2. contract[c] # 0 /\ contract[c] <= mined
      BY <1>1, <1>2 DEF IInv, TypeOK, Progress, HasReceipt
    <2>3. Progress(c)'
      BY <1>1, <2>1, <2>2 DEF Progress, nodeVars
    <2> QED BY <1>1, <1>2, <2>1, <2>3, LocalIInv DEF Places
  <1>3. CASE Goes(c, "failed")
    BY <1>1, <1>3, FailIInv
  <1> QED BY <1>2, <1>3 DEF AwaitDeployment

LEMMA AwaitStoreIInv ==
  ASSUME IInv, NEW c \in Client, AwaitStore(c)
  PROVE  IInv'
  <1>1. /\ UNCHANGED <<nodeVars, nonce, contract, sent, printed>>
        /\ at[c] = "storing" /\ Goes(c, "stored") /\ HasReceipt(c)
        /\ nonce' \in [Client -> 0 .. Len(txs) + 1]
        /\ printed' \in [Client -> Client \cup {NoMessage}]
    BY DEF AwaitStore, IInv, TypeOK
  <1>2. at'[c] = "stored"
    BY <1>1 DEF Goes, IInv, TypeOK
  <1>3. sent[c] <= mined
    BY <1>1 DEF HasReceipt, IInv, TypeOK
  <1>4. Progress(c)'
    BY <1>1, <1>2, <1>3 DEF IInv, Progress, nodeVars
  <1> QED BY <1>1, <1>4, LocalIInv DEF Places

(* What is read is empty or the reader's own message, and the latter if    *)
(* the reader has waited or the node mines at once.                        *)
LEMMA RetrieveIInv ==
  ASSUME IInv, NEW c \in Client, Retrieve(c)
  PROVE  IInv'
  <1>1. /\ UNCHANGED <<nodeVars, nonce, contract, sent>> /\ at[c] = "stored"
        /\ nonce' \in [Client -> 0 .. Len(txs) + 1]
    BY DEF Retrieve, IInv, TypeOK
  <1>2. CASE contract[c] \in DOMAIN stored /\ Goes(c, "done")
             /\ printed' = [printed EXCEPT ![c] = stored[contract[c]]]
    <2>1. /\ sent[c] \in 1 .. Len(txs)
          /\ txs[sent[c]].kind = "store" /\ txs[sent[c]].from = c
          /\ WaitsForReceipts(c) \/ automine => txs[sent[c]].gas
          /\ WaitsForReceipts(c) => sent[c] <= mined
          /\ contract[c] # 0
      BY <1>1 DEF IInv, Progress
    <2>2. txs[sent[c]].to = contract[c]
      BY <2>1 DEF IInv, TxsInv, CallsGoHome
    <2>3. WaitsForReceipts(c) \/ automine => sent[c] \in 1 .. mined
      BY <2>1 DEF IInv, TypeOK, AutomineKeepsUp
    <2>4. WaitsForReceipts(c) \/ automine => stored[contract[c]] = c
      BY <2>1, <2>2, <2>3 DEF IInv, StoredInv, CallsTakeEffect
    <2>5. txs[contract[c]].from = c
      <3>1. txs[contract[c]] = Deployment(c)
        BY <2>1 DEF IInv, TxsInv, ContractIsOwn
      <3> QED BY <3>1 DEF Deployment
    <2>6. stored[contract[c]] \in {NoMessage, c}
      BY <1>2, <2>5 DEF IInv, StoredInv, MessagesAtHome
    <2>7. WaitsForReceipts(c) \/ Program[c] \in {"ethers", "viem"}
      BY RouteFacts
    <2>8. /\ printed'[c] = stored[contract[c]] /\ at'[c] = "done"
          /\ printed' \in [Client -> Client \cup {NoMessage}]
          /\ \A d \in Client \ {c} : printed'[d] = printed[d]
      BY <1>2, <2>6 DEF Goes, IInv, TypeOK
    <2>9. Progress(c)'
      BY <2>8 DEF Progress
    <2>10. MayPrint(c, printed'[c])
      BY <2>4, <2>6, <2>7, <2>8 DEF MayPrint
    <2> QED BY <1>1, <1>2, <2>8, <2>9, <2>10, LocalIInv DEF Places
  <1>3. CASE Goes(c, "failed") /\ UNCHANGED printed
    BY <1>1, <1>3, FailIInv
  <1> QED BY <1>2, <1>3 DEF Retrieve

(* Sending: a new transaction at the end, the client's own.                *)
LEMMA SendDeploymentIInv ==
  ASSUME IInv, NEW c \in Client, SendDeployment(c)
  PROVE  IInv'
  <1>1. CASE Refused(c) /\ Goes(c, "failed") /\ UNCHANGED <<nodeVars, contract, sent>>
    <2>1. nonce' \in [Client -> 0 .. Len(txs) + 1] /\ printed' = printed
      BY DEF SendDeployment, IInv, TypeOK
    <2> QED BY <1>1, <2>1, FailIInv
  <1>2. ASSUME NEW to \in {"store", "deploying"}, to = "store" => ~WaitsForReceipts(c),
               Accepts(Deployment(c)), Goes(c, to),
               contract' = [contract EXCEPT ![c] = NextNonce],
               sent' = [sent EXCEPT ![c] = NextNonce],
               nonce' = [nonce EXCEPT ![c] = 0], UNCHANGED printed
        PROVE  IInv'
    <2>1. /\ contract[c] = 0 /\ at[c] = "deploy"
          /\ Len(txs) \in Nat /\ mined \in 0 .. Len(txs) /\ NextNonce = Len(txs) + 1
      BY DEF SendDeployment, Progress, IInv, TypeOK, NextNonce
    <2>2. Deployment(c) \in Transaction /\ Deployment(c).kind = "deploy"
      BY DEF Deployment, Transaction
    <2>3. /\ txs' \in Seq(Transaction) /\ Len(txs') = NextNonce
          /\ txs'[NextNonce] = Deployment(c) /\ \A n \in 1 .. Len(txs) : txs'[n] = txs[n]
          /\ mined' \in mined .. mined + 1 /\ automine' = automine
      BY <1>2, <2>2, AcceptsAppends DEF IInv, Accepts
    <2>4. /\ contract'[c] = NextNonce /\ sent'[c] = NextNonce /\ at'[c] = to
          /\ \A d \in Client \ {c} :
               contract'[d] = contract[d] /\ sent'[d] = sent[d] /\ at'[d] = at[d]
      BY <1>2 DEF Goes, IInv, TypeOK
    <2>5. ContractIsOwn'
      <3> SUFFICES ASSUME NEW d \in Client, contract'[d] # 0
                   PROVE  contract'[d] <= Len(txs') /\ txs'[contract'[d]] = Deployment(d)
        BY DEF ContractIsOwn, Deployment
      <3>1. CASE d = c
        BY <2>1, <2>3, <2>4, <3>1
      <3>2. CASE d # c
        <4>1. /\ contract'[d] = contract[d] /\ contract[d] \in 1 .. Len(txs)
              /\ txs[contract[d]] = Deployment(d)
          BY <2>1, <2>4, <3>2 DEF IInv, TypeOK, ContractIsOwn, TxsInv
        <4> QED BY <2>1, <2>3, <4>1
      <3> QED BY <3>1, <3>2
    <2>6. CallsGoHome'
      <3> SUFFICES ASSUME NEW n \in 1 .. Len(txs'), txs'[n].kind = "store"
                   PROVE  txs'[n].to \in 1 .. n - 1 /\ txs'[n].to = contract'[txs'[n].from]
        BY DEF CallsGoHome
      <3>1. n \in 1 .. Len(txs) /\ txs'[n] = txs[n]
        BY <2>1, <2>2, <2>3
      <3>2. /\ txs[n].to \in 1 .. n - 1 /\ txs[n].to = contract[txs[n].from]
            /\ txs[n].from \in Client
        BY <3>1 DEF IInv, TxsInv, CallsGoHome, Transaction
      <3>3. txs[n].from # c
        BY <2>1, <3>1, <3>2
      <3> QED BY <2>4, <3>1, <3>2, <3>3
    <2>7. TxsInv'
      BY <2>3, <2>5, <2>6 DEF TxsInv
    <2>8. StoredInv' /\ AutomineKeepsUp' /\ mined' \in 0 .. Len(txs')
      BY <1>2, <2>2, <2>7, AcceptsStored
    <2>9. ASSUME NEW d \in Client PROVE Progress(d)'
      <3>1. CASE d = c
        BY <1>2, <2>1, <2>4, <3>1 DEF Progress
      <3>2. CASE d # c
        BY <2>1, <2>3, <2>4, <2>8, <3>2, ProgressFrame DEF IInv
      <3> QED BY <3>1, <3>2
    <2>10. TypeOK'
      BY <1>2, <2>1, <2>3, <2>8 DEF TypeOK, IInv, StoredInv, StoredType, Goes, Places
    <2>11. PrintsOwn'
      BY <1>2, <2>3, <2>4 DEF IInv, PrintsOwn
    <2> QED BY <2>7, <2>8, <2>9, <2>10, <2>11 DEF IInv
  <1> QED BY <1>1, <1>2, RouteFacts DEF SendDeployment

LEMMA SendStoreIInv ==
  ASSUME IInv, NEW c \in Client, SendStore(c)
  PROVE  IInv'
  <1>1. CASE Refused(c) /\ Goes(c, "failed") /\ UNCHANGED <<nodeVars, sent>>
    <2>1. nonce' \in [Client -> 0 .. Len(txs) + 1] /\ UNCHANGED <<contract, printed>>
      BY DEF SendStore, IInv, TypeOK
    <2> QED BY <1>1, <2>1, FailIInv
  <1>2. ASSUME NEW to \in {"storing", "stored"}, NEW gas \in BOOLEAN,
               to = "stored" => ~WaitsForReceipts(c),
               contract[c] \in DOMAIN stored => gas,
               Accepts(Store(c, gas)), Goes(c, to),
               sent' = [sent EXCEPT ![c] = NextNonce],
               nonce' = [nonce EXCEPT ![c] = 0], UNCHANGED <<contract, printed>>
        PROVE  IInv'
    <2>1. /\ at[c] = "store" /\ contract[c] # 0
          /\ WaitsForReceipts(c) => contract[c] <= mined
          /\ Len(txs) \in Nat /\ mined \in 0 .. Len(txs) /\ NextNonce = Len(txs) + 1
      BY DEF SendStore, Progress, IInv, TypeOK, NextNonce
    <2>2. contract[c] \in 1 .. Len(txs) /\ txs[contract[c]].kind = "deploy"
      <3>1. txs[contract[c]] = Deployment(c)
        BY <2>1 DEF IInv, TxsInv, ContractIsOwn
      <3> QED BY <2>1, <3>1 DEF IInv, TypeOK, Deployment
    <2>3. WaitsForReceipts(c) \/ automine => gas
      <3>1. WaitsForReceipts(c) \/ automine => contract[c] \in 1 .. mined
        BY <2>1, <2>2 DEF IInv, AutomineKeepsUp
      <3> QED BY <1>2, <2>2, <3>1 DEF IInv, StoredInv, StoredType
    <2>4. /\ Store(c, gas) \in Transaction /\ Store(c, gas).kind = "store"
          /\ Store(c, gas).from = c /\ Store(c, gas).to = contract[c] /\ Store(c, gas).gas = gas
      BY <2>2 DEF Store, Transaction
    <2>5. /\ txs' \in Seq(Transaction) /\ Len(txs') = NextNonce
          /\ txs'[NextNonce] = Store(c, gas) /\ \A n \in 1 .. Len(txs) : txs'[n] = txs[n]
          /\ mined' \in mined .. mined + 1 /\ automine' = automine
      BY <1>2, <2>4, AcceptsAppends DEF IInv, Accepts
    <2>6. /\ sent'[c] = NextNonce /\ at'[c] = to
          /\ \A d \in Client \ {c} : sent'[d] = sent[d] /\ at'[d] = at[d]
      BY <1>2 DEF Goes, IInv, TypeOK
    <2>7. ContractIsOwn'
      <3> SUFFICES ASSUME NEW d \in Client, contract[d] # 0
                   PROVE  contract[d] <= Len(txs') /\ txs'[contract[d]] = Deployment(d)
        BY <1>2 DEF ContractIsOwn, Deployment
      <3>1. contract[d] \in 1 .. Len(txs) /\ txs[contract[d]] = Deployment(d)
        BY <2>1 DEF IInv, TypeOK, ContractIsOwn, TxsInv
      <3> QED BY <2>1, <2>5, <3>1
    <2>8. CallsGoHome'
      <3> SUFFICES ASSUME NEW n \in 1 .. Len(txs'), txs'[n].kind = "store"
                   PROVE  txs'[n].to \in 1 .. n - 1 /\ txs'[n].to = contract[txs'[n].from]
        BY <1>2 DEF CallsGoHome
      <3>1. CASE n = NextNonce
        BY <2>1, <2>2, <2>4, <2>5, <3>1
      <3>2. CASE n # NextNonce
        <4>1. n \in 1 .. Len(txs) /\ txs'[n] = txs[n]
          BY <2>1, <2>5, <3>2
        <4> QED BY <4>1 DEF IInv, TxsInv, CallsGoHome
      <3> QED BY <3>1, <3>2
    <2>9. TxsInv'
      BY <2>5, <2>7, <2>8 DEF TxsInv
    <2>10. StoredInv' /\ AutomineKeepsUp' /\ mined' \in 0 .. Len(txs')
      BY <1>2, <2>4, <2>9, AcceptsStored
    <2>11. ASSUME NEW d \in Client PROVE Progress(d)'
      <3>1. CASE d = c
        BY <1>2, <2>1, <2>3, <2>4, <2>5, <2>6, <3>1 DEF Progress
      <3>2. CASE d # c
        BY <1>2, <2>1, <2>5, <2>6, <2>10, <3>2, ProgressFrame DEF IInv
      <3> QED BY <3>1, <3>2
    <2>12. TypeOK'
      BY <1>2, <2>1, <2>5, <2>10 DEF TypeOK, IInv, StoredInv, StoredType, Goes, Places
    <2>13. PrintsOwn'
      BY <1>2, <2>5, <2>6 DEF IInv, PrintsOwn
    <2> QED BY <2>9, <2>10, <2>11, <2>12, <2>13 DEF IInv
  <1> QED BY <1>1, <1>2, RouteFacts DEF SendStore, WaitsForReceipts

-----------------------------------------------------------------------------
LEMMA NextIInv == IInv /\ [Next]_vars => IInv'
  <1> SUFFICES ASSUME IInv, [Next]_vars PROVE IInv'
    OBVIOUS
  <1>1. CASE Mine
    BY <1>1, MineIInv
  <1>2. ASSUME NEW c \in Client, Step(c) PROVE IInv'
    BY <1>2, NumberIInv, SendDeploymentIInv, AwaitDeploymentIInv, SendStoreIInv,
       AwaitStoreIInv, RetrieveIInv DEF Step
  <1>3. ASSUME NEW c \in Client, Fail(c) PROVE IInv'
    <2>1. nonce' \in [Client -> 0 .. Len(txs) + 1]
      BY <1>3 DEF Fail, IInv, TypeOK
    <2> QED BY <1>3, <2>1, FailIInv DEF Fail
  <1>4. CASE UNCHANGED vars
    BY <1>4 DEF vars, nodeVars, IInv, TypeOK, AutomineKeepsUp, TxsInv, ContractIsOwn,
         CallsGoHome, StoredInv, StoredType, MessagesAtHome, CallsTakeEffect, Progress,
         PrintsOwn
  <1> QED BY <1>1, <1>2, <1>3, <1>4 DEF Next

LEMMA Inductive == Spec => []IInv
  BY InitIInv, NextIInv, PTL DEF Spec

(* Every address a client works with is that of its own deployment,        *)
(* whoever else sends with its account (main.go:91 asks for a nonce before *)
(* line 98 uses it).                                                       *)
THEOREM ContractsAreOwn == Spec => []ContractIsOwn
  <1>1. IInv => ContractIsOwn
    BY DEF IInv, TxsInv
  <1> QED BY <1>1, Inductive, PTL

(* A client that has waited, or whose node mines at once, prints its own   *)
(* message; the others print it or the empty string.                       *)
THEOREM MessagesAreOwn == Spec => []PrintsOwn
  <1>1. IInv => PrintsOwn
    BY DEF IInv
  <1> QED BY <1>1, Inductive, PTL
=============================================================================

------------------------------ MODULE BankProofs ------------------------------
(***************************************************************************)
(* Proofs about the bank for any accounts, amounts and sizes of register.  *)
(***************************************************************************)
EXTENDS Bank, FiniteSums

LEMMA TypeInit == Init => TypeOK
  BY BankConstants DEF Init, TypeOK

(* Registering keeps the register's type and adds one account to it.       *)
LEMMA RegisterStep ==
  ASSUME TypeOK, NEW caller \in Account, Register(caller)
  PROVE  /\ accountLedger' \in [0 .. MaxCount - 1 -> Account \cup {Zero}]
         /\ addressCount' \in 0 .. MaxCount
         /\ Registered \cup {caller} \subseteq Registered'
  <1> USE BankConstants DEF TypeOK, Register
  <1>1. accountLedger' \in [0 .. MaxCount - 1 -> Account \cup {Zero}]
    OBVIOUS
  <1>2. addressCount' \in 0 .. MaxCount
    OBVIOUS
  <1>3. Registered \subseteq Registered'
    <2> SUFFICES ASSUME NEW i \in 0 .. addressCount - 1
                 PROVE  accountLedger[i] \in Registered'
      BY DEF Registered
    <2>1. i \in 0 .. addressCount' - 1 /\ accountLedger'[i] = accountLedger[i]
      OBVIOUS
    <2> QED BY <2>1 DEF Registered
  <1>4. caller \in Registered'
    <2>1. addressCount \in 0 .. addressCount' - 1 /\ accountLedger'[addressCount] = caller
      OBVIOUS
    <2> QED BY <2>1 DEF Registered
  <1> QED BY <1>1, <1>2, <1>3, <1>4

LEMMA TypeStep == TypeOK /\ [Next]_vars => TypeOK'
  <1> SUFFICES ASSUME TypeOK, [Next]_vars PROVE TypeOK'
    OBVIOUS
  <1> USE BankConstants DEF TypeOK
  <1>1. ASSUME NEW caller \in Account, NEW value \in Amount, Deposit(caller, value)
        PROVE  TypeOK'
    <2>1. /\ accountLedger' \in [0 .. MaxCount - 1 -> Account \cup {Zero}]
          /\ addressCount' \in 0 .. MaxCount
      <3>1. CASE Register(caller)
        BY <3>1, RegisterStep
      <3>2. CASE UNCHANGED register
        BY <3>2 DEF register
      <3> QED BY <1>1, <3>1, <3>2 DEF Deposit
    <2>2. balanceLedger' \in [Account -> Nat] /\ ether' \in Nat
      BY <1>1 DEF Deposit
    <2>3. UNCHANGED history
      BY <1>1 DEF Deposit
    <2> QED BY <2>1, <2>2, <2>3 DEF history
  <1>2. ASSUME NEW caller \in Account, NEW amount \in Amount, Withdraw(caller, amount)
        PROVE  TypeOK'
    BY <1>2 DEF Withdraw, CanSpend, Pays, register, history
  <1>3. ASSUME NEW caller \in Account, NEW recipient \in Account, NEW amount \in Amount,
               Transfer(caller, recipient, amount)
        PROVE  TypeOK'
    BY <1>3 DEF Transfer, CanSpend, Pays, register
  <1>4. ASSUME NEW caller \in Account, DeleteMyAccount(caller)
        PROVE  TypeOK'
    BY <1>4 DEF DeleteMyAccount, Pays, register, history
  <1>5. ASSUME NEW caller \in Account, DissolveBank(caller)
        PROVE  TypeOK'
    <2>1. balanceLedger' \in [Account -> Nat]
      BY <1>5 DEF DissolveBank, Settlement
    <2>2. ether' \in Nat
      BY <1>5 DEF DissolveBank
    <2> QED BY <1>5, <2>1, <2>2 DEF DissolveBank, history
  <1>6. CASE UNCHANGED vars
    BY <1>6 DEF vars, register, history
  <1> QED BY <1>1, <1>2, <1>3, <1>4, <1>5, <1>6 DEF Next

(* Balances, register and ether keep their types: no balance and not the   *)
(* bank's ether is ever overdrawn.                                         *)
THEOREM TypeCorrect == Spec => []TypeOK
  BY TypeInit, TypeStep, PTL DEF Spec

-----------------------------------------------------------------------------
LEMMA DenseStep == TypeOK /\ RegisterIsDense /\ [Next]_vars => RegisterIsDense'
  <1> SUFFICES ASSUME TypeOK, RegisterIsDense, [Next]_vars PROVE RegisterIsDense'
    OBVIOUS
  <1> USE BankConstants DEF TypeOK, RegisterIsDense
  <1>1. CASE UNCHANGED register
    BY <1>1 DEF register
  <1>2. ASSUME NEW caller \in Account, Register(caller) PROVE RegisterIsDense'
    BY <1>2 DEF Register
  <1>3. ASSUME NEW caller \in Account, DissolveBank(caller) PROVE RegisterIsDense'
    BY <1>3 DEF DissolveBank
  <1>4. [Next]_vars => \/ UNCHANGED register
                       \/ \E caller \in Account : Register(caller) \/ DissolveBank(caller)
    BY DEF Next, Deposit, Withdraw, Transfer, DeleteMyAccount, vars
  <1> QED BY <1>1, <1>2, <1>3, <1>4

(* The register never has a hole nor an entry behind its end.              *)
THEOREM RegisterStaysDense == Spec => []RegisterIsDense
  <1>1. Init => RegisterIsDense
    BY BankConstants DEF Init, RegisterIsDense
  <1> QED BY <1>1, DenseStep, TypeCorrect, PTL DEF Spec

-----------------------------------------------------------------------------
LEMMA RegisteredStep ==
  TypeOK /\ DepositorsAreRegistered /\ [Next]_vars => DepositorsAreRegistered'
  <1> SUFFICES ASSUME TypeOK, DepositorsAreRegistered, [Next]_vars,
                      NEW a \in Account, balanceLedger'[a] > 0
               PROVE  a \in Registered' \cup credited'
    BY DEF DepositorsAreRegistered
  <1> USE BankConstants DEF TypeOK
  <1>1. balanceLedger[a] > 0 => a \in Registered \cup credited
    BY DEF DepositorsAreRegistered
  <1>2. balanceLedger[a] \in Nat /\ ~(balanceLedger[a] > 0) => balanceLedger[a] = 0
    OBVIOUS
  <1>3. ASSUME UNCHANGED register PROVE Registered' = Registered
    BY <1>3 DEF register, Registered
  <1>4. ASSUME NEW caller \in Account, NEW value \in Amount, Deposit(caller, value)
        PROVE  a \in Registered' \cup credited'
    <2>1. credited' = credited
      BY <1>4 DEF Deposit, history
    <2>2. CASE balanceLedger[a] > 0
      <3>1. CASE Register(caller)
        BY <1>1, <2>1, <2>2, <3>1, RegisterStep
      <3> QED BY <1>1, <1>3, <1>4, <2>1, <2>2, <3>1 DEF Deposit
    <2>3. CASE ~(balanceLedger[a] > 0)
      <3>1. a = caller
        BY <1>2, <1>4, <2>3 DEF Deposit
      <3>2. Register(caller)
        BY <1>2, <1>4, <2>3, <3>1 DEF Deposit
      <3> QED BY <3>1, <3>2, RegisterStep
    <2> QED BY <2>2, <2>3
  <1>5. ASSUME NEW caller \in Account, NEW amount \in Amount, Withdraw(caller, amount)
        PROVE  a \in Registered' \cup credited'
    <2>1. balanceLedger[a] > 0
      BY <1>5 DEF Withdraw, CanSpend
    <2> QED BY <1>1, <1>3, <1>5, <2>1 DEF Withdraw, history
  <1>6. ASSUME NEW caller \in Account, NEW recipient \in Account, NEW amount \in Amount,
               Transfer(caller, recipient, amount)
        PROVE  a \in Registered' \cup credited'
    <2>1. a = recipient \/ balanceLedger[a] > 0
      BY <1>6 DEF Transfer, CanSpend
    <2> QED BY <1>1, <1>3, <1>6, <2>1 DEF Transfer
  <1>7. ASSUME NEW caller \in Account, DeleteMyAccount(caller)
        PROVE  a \in Registered' \cup credited'
    <2>1. balanceLedger[a] > 0
      BY <1>7 DEF DeleteMyAccount
    <2> QED BY <1>1, <1>3, <1>7, <2>1 DEF DeleteMyAccount, history
  <1>8. ASSUME NEW caller \in Account, DissolveBank(caller)
        PROVE  a \in Registered' \cup credited'
    <2>1. a \notin Registered /\ balanceLedger[a] > 0
      BY <1>8 DEF DissolveBank, Settlement
    <2> QED BY <1>1, <1>8, <2>1 DEF DissolveBank, history
  <1>9. CASE UNCHANGED vars
    BY <1>1, <1>3, <1>9 DEF vars, history
  <1> QED BY <1>4, <1>5, <1>6, <1>7, <1>8, <1>9 DEF Next

(* No depositor is left out of the register.                               *)
THEOREM NoDepositorLeftOut == Spec => []DepositorsAreRegistered
  <1>1. Init => DepositorsAreRegistered
    BY DEF Init, DepositorsAreRegistered
  <1> QED BY <1>1, RegisteredStep, TypeCorrect, PTL DEF Spec

-----------------------------------------------------------------------------
(* What the accounts together are owed.                                    *)
Owed(ledger) == SumFunctionOnSet(ledger, Account)

LEMMA OwedInt ==
  ASSUME NEW f \in [Account -> Nat]
  PROVE  Owed(f) \in Int /\ Integral(f, Account)
  <1>1. Integral(f, Account)
    BY DEF Integral
  <1> QED BY <1>1, BankConstants, SumInt DEF Owed

LEMMA OwedIsSum ==
  ASSUME TypeOK
  PROVE  SumFunction(balanceLedger) = Owed(balanceLedger)
  <1>1. DOMAIN balanceLedger = Account
    BY DEF TypeOK
  <1> QED BY <1>1 DEF SumFunction, Owed

(* A change of one entry changes the total by as much.                     *)
LEMMA OwedEntry ==
  ASSUME NEW f \in [Account -> Nat], NEW h \in [Account -> Nat], NEW caller \in Account,
         \A a \in Account : a # caller => h[a] = f[a]
  PROVE  Owed(h) = Owed(f) + (h[caller] - f[caller])
  BY BankConstants, OwedInt, SumUpdate DEF Owed

RegisteredAreAccounts == Registered \subseteq Account

LEMMA DenseRegister ==
  TypeOK /\ RegisterIsDense => RegisteredAreAccounts
  <1> SUFFICES ASSUME TypeOK, RegisterIsDense, NEW i \in 0 .. addressCount - 1
               PROVE  accountLedger[i] \in Account
    BY DEF RegisteredAreAccounts, Registered
  <1>1. i \in 0 .. MaxCount - 1 /\ i < addressCount
    BY BankConstants DEF TypeOK
  <1> QED BY <1>1 DEF TypeOK, RegisterIsDense

(* Emptying the accounts of a set takes what they had from the total.      *)
LEMMA OwedEmptied ==
  ASSUME NEW f \in [Account -> Nat], NEW R \in SUBSET Account,
         NEW h, h = [a \in Account |-> IF a \in R THEN 0 ELSE f[a]]
  PROVE  Owed(h) = Owed(f) - SumFunctionOnSet(f, R)
  <1> DEFINE U == Account \ R
  <1>1. IsFiniteSet(R) /\ IsFiniteSet(U) /\ R \cap U = {} /\ R \cup U = Account
    BY BankConstants, FS_Subset
  <1>2. /\ Integral(f, R) /\ Integral(f, U)
        /\ Integral(h, R) /\ Integral(h, U)
    BY DEF Integral
  <1>3. \A a \in R : h[a] = 0
    OBVIOUS
  <1>4. \A a \in U : h[a] = f[a]
    OBVIOUS
  <1> HIDE DEF U
  <1>5. /\ SumFunctionOnSet(f, R \cup U) = SumFunctionOnSet(f, R) + SumFunctionOnSet(f, U)
        /\ SumFunctionOnSet(h, R \cup U) = SumFunctionOnSet(h, R) + SumFunctionOnSet(h, U)
    BY <1>1, <1>2, SumUnion
  <1>6. SumFunctionOnSet(h, R) = 0
    BY <1>1, <1>3, SumZero
  <1>7. SumFunctionOnSet(h, U) = SumFunctionOnSet(f, U)
    BY <1>1, <1>4, SumAgree
  <1>8. SumFunctionOnSet(f, R) \in Int /\ SumFunctionOnSet(f, U) \in Int
    BY <1>1, <1>2, SumInt
  <1>9. SumFunctionOnSet(h, R \cup U) = SumFunctionOnSet(f, R \cup U) - SumFunctionOnSet(f, R)
    BY <1>5, <1>6, <1>7, <1>8
  <1> QED BY <1>1, <1>9 DEF Owed

LEMMA OwedStep ==
  TypeOK /\ RegisterIsDense /\ OwedIsEtherAndTransfers /\ [Next]_vars
    => OwedIsEtherAndTransfers'
  <1> SUFFICES ASSUME TypeOK, RegisterIsDense, OwedIsEtherAndTransfers, [Next]_vars
               PROVE  OwedIsEtherAndTransfers'
    OBVIOUS
  <1>1. TypeOK'
    BY TypeStep
  <1>2. Owed(balanceLedger) = ether + transferred
    BY OwedIsSum DEF OwedIsEtherAndTransfers
  <1>3. SUFFICES Owed(balanceLedger') = ether' + transferred'
    <2>1. DOMAIN balanceLedger' = Account
      BY <1>1 DEF TypeOK
    <2> QED BY <2>1 DEF OwedIsEtherAndTransfers, SumFunction, Owed
  <1>4. /\ balanceLedger \in [Account -> Nat] /\ ether \in Nat /\ transferred \in Nat
        /\ balanceLedger' \in [Account -> Nat] /\ ether' \in Nat /\ transferred' \in Nat
        /\ Owed(balanceLedger) \in Int
    BY <1>1, OwedInt DEF TypeOK
  <1>5. ASSUME NEW caller \in Account, NEW value \in Amount, Deposit(caller, value)
        PROVE  Owed(balanceLedger') = ether' + transferred'
    <2>1. /\ \A a \in Account : a # caller => balanceLedger'[a] = balanceLedger[a]
          /\ balanceLedger'[caller] - balanceLedger[caller] = value
          /\ value \in Int
      BY <1>4, <1>5, BankConstants DEF Deposit
    <2>2. Owed(balanceLedger') = Owed(balanceLedger) + value
      BY <1>4, <2>1, OwedEntry
    <2> QED BY <1>2, <1>4, <1>5, <2>1, <2>2 DEF Deposit, history
  <1>6. ASSUME NEW caller \in Account, NEW amount \in Amount, Withdraw(caller, amount)
        PROVE  Owed(balanceLedger') = ether' + transferred'
    <2>1. /\ \A a \in Account : a # caller => balanceLedger'[a] = balanceLedger[a]
          /\ balanceLedger'[caller] - balanceLedger[caller] = - amount
          /\ amount \in Int
      BY <1>4, <1>6, BankConstants DEF Withdraw
    <2>2. Owed(balanceLedger') = Owed(balanceLedger) + (- amount)
      BY <1>4, <2>1, OwedEntry
    <2> QED BY <1>2, <1>4, <1>6, <2>1, <2>2 DEF Withdraw, history
  <1>7. ASSUME NEW caller \in Account, NEW recipient \in Account, NEW amount \in Amount,
               Transfer(caller, recipient, amount)
        PROVE  Owed(balanceLedger') = ether' + transferred'
    <2>1. amount \in Int /\ Integral(balanceLedger, Account)
      BY <1>4, BankConstants, OwedInt
    <2>2. Owed(balanceLedger') = Owed(balanceLedger) - amount + amount
      <3>1. balanceLedger' = [a \in Account |-> balanceLedger[a]
                                - (IF a = caller THEN amount ELSE 0)
                                + (IF a = recipient THEN amount ELSE 0)]
        BY <1>7 DEF Transfer
      <3>2. \A a \in Account : balanceLedger'[a] = balanceLedger[a]
                                - (IF a = caller THEN amount ELSE 0)
                                + (IF a = recipient THEN amount ELSE 0)
        BY <3>1
      <3>3. SumFunctionOnSet(balanceLedger', Account)
              = SumFunctionOnSet(balanceLedger, Account)
                  - (IF caller \in Account THEN amount ELSE 0)
                  + (IF recipient \in Account THEN amount ELSE 0)
        BY <2>1, <3>2, BankConstants, SumShift
      <3> QED BY <3>3 DEF Owed
    <2> QED BY <1>2, <1>4, <1>7, <2>1, <2>2 DEF Transfer
  <1>8. ASSUME NEW caller \in Account, DeleteMyAccount(caller)
        PROVE  Owed(balanceLedger') = ether' + transferred'
    <2>1. /\ \A a \in Account : a # caller => balanceLedger'[a] = balanceLedger[a]
          /\ balanceLedger'[caller] - balanceLedger[caller] = - balanceLedger[caller]
      BY <1>4, <1>8 DEF DeleteMyAccount
    <2>2. Owed(balanceLedger') = Owed(balanceLedger) + (- balanceLedger[caller])
      BY <1>4, <2>1, OwedEntry
    <2> QED BY <1>2, <1>4, <1>8, <2>1, <2>2 DEF DeleteMyAccount, history
  <1>9. ASSUME NEW caller \in Account, DissolveBank(caller)
        PROVE  Owed(balanceLedger') = ether' + transferred'
    <2> DEFINE paid == SumFunctionOnSet(balanceLedger, Registered)
    <2>1. /\ balanceLedger' = [a \in Account |-> IF a \in Registered THEN 0 ELSE balanceLedger[a]]
          /\ ether' = ether - paid /\ paid \in Int
          /\ UNCHANGED transferred
      BY <1>4, <1>9 DEF DissolveBank, Settlement, history
    <2>2. Registered \in SUBSET Account
      BY DenseRegister DEF RegisteredAreAccounts
    <2>3. Owed(balanceLedger') = Owed(balanceLedger) - paid
      BY <1>4, <2>1, <2>2, OwedEmptied
    <2> HIDE DEF paid
    <2> QED BY <1>2, <1>4, <2>1, <2>3
  <1>10. CASE UNCHANGED vars
    BY <1>2, <1>10 DEF vars, history
  <1> QED BY <1>5, <1>6, <1>7, <1>8, <1>9, <1>10 DEF Next

(* The books: whatever is deposited, withdrawn, transferred, deleted and   *)
(* dissolved, the ledger promises the ether and what transfers paid out.   *)
THEOREM BooksBalance == Spec => []OwedIsEtherAndTransfers
  <1>1. Init => OwedIsEtherAndTransfers
    <2> SUFFICES ASSUME Init PROVE OwedIsEtherAndTransfers
      OBVIOUS
    <2>1. \A a \in Account : balanceLedger[a] = 0
      BY DEF Init
    <2>2. SumFunctionOnSet(balanceLedger, Account) = 0
      BY <2>1, BankConstants, SumZero
    <2>3. DOMAIN balanceLedger = Account
      BY DEF Init
    <2> QED BY <2>2, <2>3 DEF Init, OwedIsEtherAndTransfers, SumFunction
  <1> QED BY <1>1, OwedStep, TypeCorrect, RegisterStaysDense, PTL DEF Spec

-----------------------------------------------------------------------------
(* The loop of dissolveBank.  After i entries of the register:             *)
FirstEntries(i) == {accountLedger[j] : j \in 0 .. i - 1}

After(i) ==
  [ledger |-> [a \in Account |-> IF a \in FirstEntries(i) THEN 0 ELSE balanceLedger[a]],
   paid |-> SumFunctionOnSet(balanceLedger, FirstEntries(i))]

(* g does what the loop does.                                              *)
IsLoop(g) ==
  g = [i \in 0 .. addressCount |->
         IF i = 0 THEN [ledger |-> balanceLedger, paid |-> 0]
         ELSE Settle(g[i - 1], accountLedger[i - 1])]

LEMMA AfterNothing ==
  ASSUME TypeOK
  PROVE  After(0) = [ledger |-> balanceLedger, paid |-> 0]
  <1>1. FirstEntries(0) = {}
    BY DEF FirstEntries
  <1>2. balanceLedger = [a \in Account |-> balanceLedger[a]]
    BY DEF TypeOK
  <1> QED BY <1>1, <1>2, SumEmpty DEF After

(* One entry more settles that entry, also one that was met before.        *)
LEMMA AfterEntry ==
  ASSUME TypeOK, RegisterIsDense, NEW i \in 1 .. addressCount
  PROVE  After(i) = Settle(After(i - 1), accountLedger[i - 1])
  <1> DEFINE who == accountLedger[i - 1]  R == FirstEntries(i - 1)
  <1>1. FirstEntries(i) = R \cup {who}
    <2>1. i - 1 \in 0 .. i - 1 /\ 0 .. i - 1 = (0 .. (i - 1) - 1) \cup {i - 1}
      OBVIOUS
    <2> QED BY <2>1 DEF FirstEntries
  <1>2. RegisteredAreAccounts
    BY DenseRegister
  <1>3. R \in SUBSET Account /\ who \in Account
    <2>1. \A j \in 0 .. i - 1 : j \in 0 .. addressCount - 1
      BY DEF TypeOK
    <2>2. \A j \in 0 .. i - 1 : accountLedger[j] \in Account
      BY <1>2, <2>1 DEF RegisteredAreAccounts, Registered
    <2> QED BY <2>2 DEF FirstEntries
  <1> HIDE DEF who, R
  <1>4. /\ IsFiniteSet(R) /\ Integral(balanceLedger, R)
        /\ balanceLedger[who] \in Int /\ SumFunctionOnSet(balanceLedger, R) \in Int
    <2>1. IsFiniteSet(R) /\ Integral(balanceLedger, R)
      BY <1>3, BankConstants, FS_Subset DEF TypeOK, Integral
    <2> QED BY <1>3, <2>1, SumInt DEF TypeOK
  <1> DEFINE was == [a \in Account |-> IF a \in R THEN 0 ELSE balanceLedger[a]]
             is == [a \in Account |-> IF a \in R \cup {who} THEN 0 ELSE balanceLedger[a]]
             sum == SumFunctionOnSet(balanceLedger, R)
             total == SumFunctionOnSet(balanceLedger, R \cup {who})
  <1>5. [was EXCEPT ![who] = 0] = is
    BY <1>3
  <1>6. sum + was[who] = total
    <2>1. CASE who \in R
      <3>1. R \cup {who} = R /\ was[who] = 0
        BY <1>3, <2>1
      <3> QED BY <1>4, <3>1
    <2>2. CASE who \notin R
      <3>1. was[who] = balanceLedger[who]
        BY <1>3, <2>2
      <3>2. total = sum + balanceLedger[who]
        BY <1>4, <2>2, SumAdd
      <3> QED BY <3>1, <3>2
    <2> QED BY <2>1, <2>2
  <1>7. After(i - 1) = [ledger |-> was, paid |-> sum]
    BY DEF After, R
  <1>8. After(i) = [ledger |-> is, paid |-> total]
    BY <1>1 DEF After
  <1> HIDE DEF was, is, sum, total
  <1>9. Settle([ledger |-> was, paid |-> sum], who)
          = [ledger |-> [was EXCEPT ![who] = 0], paid |-> sum + was[who]]
    BY DEF Settle
  <1> QED BY <1>5, <1>6, <1>7, <1>8, <1>9 DEF who

LEMMA LoopIsAfter ==
  ASSUME TypeOK, RegisterIsDense
  PROVE  IsLoop([i \in 0 .. addressCount |-> After(i)])
  <1> DEFINE g == [i \in 0 .. addressCount |-> After(i)]
  <1>1. ASSUME NEW i \in 0 .. addressCount
        PROVE  After(i) = IF i = 0 THEN [ledger |-> balanceLedger, paid |-> 0]
                          ELSE Settle(g[i - 1], accountLedger[i - 1])
    <2>1. CASE i = 0
      BY <2>1, AfterNothing
    <2>2. CASE i # 0
      <3>1. i \in 1 .. addressCount /\ i - 1 \in 0 .. addressCount
        BY <2>2 DEF TypeOK
      <3>2. g[i - 1] = After(i - 1)
        BY <3>1
      <3>3. After(i) = Settle(After(i - 1), accountLedger[i - 1])
        BY <3>1, AfterEntry
      <3> QED BY <2>2, <3>2, <3>3
    <2> QED BY <2>1, <2>2
  <1> QED BY <1>1 DEF IsLoop

LEMMA LoopIsUnique ==
  ASSUME TypeOK, RegisterIsDense, NEW g, IsLoop(g)
  PROVE  g[addressCount] = After(addressCount)
  <1> DEFINE T == {n \in Nat : n <= addressCount => g[n] = After(n)}
  <1>0. addressCount \in Nat
    BY BankConstants DEF TypeOK
  <1>1. 0 \in T
    <2>1. g[0] = [ledger |-> balanceLedger, paid |-> 0]
      BY <1>0 DEF IsLoop
    <2> QED BY <2>1, AfterNothing
  <1>2. ASSUME NEW n \in Nat, n \in T PROVE n + 1 \in T
    <2> SUFFICES ASSUME n + 1 <= addressCount PROVE g[n + 1] = After(n + 1)
      OBVIOUS
    <2>1. n + 1 \in 1 .. addressCount /\ n + 1 \in 0 .. addressCount /\ (n + 1) - 1 = n
      BY <1>0
    <2>2. g[n] = After(n)
      BY <1>0, <1>2
    <2>3. g[n + 1] = Settle(g[n], accountLedger[n])
      <3>1. ASSUME NEW i \in 0 .. addressCount, i # 0
            PROVE  g[i] = Settle(g[i - 1], accountLedger[i - 1])
        BY <3>1 DEF IsLoop
      <3>2. n + 1 # 0
        OBVIOUS
      <3>3. g[n + 1] = Settle(g[(n + 1) - 1], accountLedger[(n + 1) - 1])
        BY <2>1, <3>1, <3>2
      <3> QED BY <2>1, <3>3
    <2>4. After(n + 1) = Settle(After(n), accountLedger[n])
      BY <2>1, AfterEntry
    <2> QED BY <2>2, <2>3, <2>4
  <1>3. Nat \subseteq T
    <2> HIDE DEF T
    <2> QED BY <1>1, <1>2, NatInduct
  <1> QED BY <1>0, <1>3

LEMMA LoopSettles == TypeOK /\ RegisterIsDense => LoopPaysEachOnce
  <1> SUFFICES ASSUME TypeOK, RegisterIsDense PROVE LoopPaysEachOnce
    OBVIOUS
  <1>1. IsLoop(Settled)
    <2>1. \E g : IsLoop(g)
      BY LoopIsAfter
    <2>2. Settled = CHOOSE g : IsLoop(g)
      BY DEF Settled, IsLoop
    <2> QED BY <2>1, <2>2
  <1>2. Settled[addressCount] = After(addressCount)
    BY <1>1, LoopIsUnique
  <1>3. After(addressCount) = Settlement
    BY DEF After, Settlement, FirstEntries, Registered
  <1> QED BY <1>2, <1>3 DEF LoopPaysEachOnce

(* The loop of dissolveBank, entry by entry, pays every registered account *)
(* its balance once, however often it is registered, whatever came before. *)
THEOREM DissolutionPaysOnce == Spec => []LoopPaysEachOnce
  BY LoopSettles, TypeCorrect, RegisterStaysDense, PTL DEF Spec
=============================================================================

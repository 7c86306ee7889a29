-------------------------------- MODULE Bank --------------------------------
(***************************************************************************)
(* snippets/contracts/Bank.sol: a bank that keeps a balance per account, a *)
(* register of the accounts that have deposited, and the ether of all.     *)
(* `transfer' credits its recipient in the ledger and also pays it, so the *)
(* ledger may promise more than the bank holds; dissolveBank goes through  *)
(* the register and pays everybody, or, if one payment fails, nobody.      *)
(*                                                                         *)
(* A call executes at once and in full or reverts.  A payment is made with *)
(* the gas stipend of `transfer', which a contract may refuse, and which   *)
(* does not suffice to call the bank back.                                 *)
(***************************************************************************)
EXTENDS Integers, FiniteSets, Functions

CONSTANTS
  Account,     \* addresses that use the bank
  Zero,        \* address(0), the default of a mapping's entry
  Owner,       \* the account that deployed the bank
  Refusing,    \* accounts that accept no payment
  Amount,      \* the amounts calls are tried with
  MinBalance,  \* a withdrawal or transfer must leave more than this, 50
  MaxCount,    \* bound: entries of the register
  MaxOwed      \* bound: what all balances may add up to by deposits

ASSUME BankConstants ==
  /\ IsFiniteSet(Account)
  /\ Zero \notin Account
  /\ Owner \in Account
  /\ Refusing \subseteq Account
  /\ Amount \subseteq Nat
  /\ MinBalance \in Nat
  /\ MaxCount \in Nat
  /\ MaxOwed \in Nat

VARIABLES
  balanceLedger,  \* [Account -> Nat]
  accountLedger,  \* [0 .. MaxCount - 1 -> Account or Zero]
  addressCount,
  ether,          \* address(this).balance
  transferred,    \* history: what transfers have paid out and credited
  credited        \* history: accounts that were credited by a transfer

register == <<accountLedger, addressCount>>
history == <<transferred, credited>>
vars == <<balanceLedger, register, ether, history>>

Pays(to, amount) == to \notin Refusing /\ amount \in 0 .. ether

(* Mutant: the minimum is asked of the balance before.                     *)
CanSpendFromMinimum(caller, amount) == balanceLedger[caller] > MinBalance

(* checkBalance *)
CanSpend(caller, amount) ==
  /\ amount <= balanceLedger[caller]
  /\ balanceLedger[caller] - amount > MinBalance

-----------------------------------------------------------------------------
Init ==
  /\ balanceLedger = [a \in Account |-> 0]
  /\ accountLedger = [i \in 0 .. MaxCount - 1 |-> Zero]
  /\ addressCount = 0
  /\ ether = 0
  /\ transferred = 0
  /\ credited = {}

Register(caller) ==
  /\ addressCount < MaxCount
  /\ accountLedger' = [accountLedger EXCEPT ![addressCount] = caller]
  /\ addressCount' = addressCount + 1

(* Mutant: the balance is credited before it is asked whether it is zero.  *)
DepositCreditingFirst(caller, value) ==
  /\ IF balanceLedger[caller] + value = 0 THEN Register(caller) ELSE UNCHANGED register
  /\ balanceLedger' = [balanceLedger EXCEPT ![caller] = @ + value]
  /\ ether' = ether + value
  /\ UNCHANGED history

Deposit(caller, value) ==
  /\ IF balanceLedger[caller] = 0 THEN Register(caller) ELSE UNCHANGED register
  /\ balanceLedger' = [balanceLedger EXCEPT ![caller] = @ + value]
  /\ ether' = ether + value
  /\ UNCHANGED history

Withdraw(caller, amount) ==
  /\ CanSpend(caller, amount)
  /\ Pays(caller, amount)
  /\ balanceLedger' = [balanceLedger EXCEPT ![caller] = @ - amount]
  /\ ether' = ether - amount
  /\ UNCHANGED <<register, history>>

Transfer(caller, recipient, amount) ==
  /\ CanSpend(caller, amount)
  /\ Pays(recipient, amount)
  /\ balanceLedger' =
       [a \in Account |-> balanceLedger[a] - (IF a = caller THEN amount ELSE 0)
                                           + (IF a = recipient THEN amount ELSE 0)]
  /\ ether' = ether - amount
  /\ transferred' = transferred + amount
  /\ credited' = credited \cup {recipient}
  /\ UNCHANGED register

(* Mutant: the balance is deleted before it is paid.                       *)
DeleteMyAccountUnpaid(caller) ==
  /\ Pays(caller, 0)
  /\ balanceLedger' = [balanceLedger EXCEPT ![caller] = 0]
  /\ UNCHANGED <<register, ether, history>>

DeleteMyAccount(caller) ==
  /\ Pays(caller, balanceLedger[caller])
  /\ balanceLedger' = [balanceLedger EXCEPT ![caller] = 0]
  /\ ether' = ether - balanceLedger[caller]
  /\ UNCHANGED <<register, history>>

-----------------------------------------------------------------------------
(* dissolveBank.  The loop as it is written: what the ledger is and what   *)
(* has been paid after i entries of the register.                          *)

(* Mutant: the balance stays and a second entry is paid a second time.     *)
SettleKeepingBalance(before, who) ==
  [before EXCEPT !.paid = @ + before.ledger[who]]

Settle(before, who) ==
  [ledger |-> [before.ledger EXCEPT ![who] = 0],
   paid |-> before.paid + before.ledger[who]]

Settled[i \in 0 .. addressCount] ==
  IF i = 0 THEN [ledger |-> balanceLedger, paid |-> 0]
  ELSE Settle(Settled[i - 1], accountLedger[i - 1])

(* What the loop amounts to: every account in the register is paid what it *)
(* has.                                                                    *)
Registered == {accountLedger[i] : i \in 0 .. addressCount - 1}

Settlement ==
  [ledger |-> [a \in Account |-> IF a \in Registered THEN 0 ELSE balanceLedger[a]],
   paid |-> SumFunctionOnSet(balanceLedger, Registered)]

(* Mutant: the entries of the register stay.                               *)
DissolveBankKeepingEntries(caller) ==
  /\ caller = Owner
  /\ Registered \cap Refusing = {}
  /\ Settlement.paid \in 0 .. ether
  /\ balanceLedger' = Settlement.ledger
  /\ ether' = ether - Settlement.paid
  /\ addressCount' = 0
  /\ UNCHANGED <<accountLedger, history>>

DissolveBank(caller) ==
  /\ caller = Owner
  /\ Registered \cap Refusing = {}
  /\ Settlement.paid \in 0 .. ether
  /\ balanceLedger' = Settlement.ledger
  /\ ether' = ether - Settlement.paid
  /\ accountLedger' = [i \in 0 .. MaxCount - 1 |->
                         IF i < addressCount THEN Zero ELSE accountLedger[i]]
  /\ addressCount' = 0
  /\ UNCHANGED history

Next ==
  \E caller \in Account :
    \/ \E value \in Amount :
         SumFunction(balanceLedger) + value <= MaxOwed /\ Deposit(caller, value)
    \/ \E amount \in Amount : Withdraw(caller, amount)
    \/ \E recipient \in Account, amount \in Amount : Transfer(caller, recipient, amount)
    \/ DeleteMyAccount(caller)
    \/ DissolveBank(caller)

Spec == Init /\ [][Next]_vars

-----------------------------------------------------------------------------
(* The bank's variables have their types; the ether covers every payment.  *)
TypeOK ==
  /\ balanceLedger \in [Account -> Nat]
  /\ accountLedger \in [0 .. MaxCount - 1 -> Account \cup {Zero}]
  /\ addressCount \in 0 .. MaxCount
  /\ ether \in Nat
  /\ transferred \in Nat
  /\ credited \in SUBSET Account

(* The ledger promises what the bank holds and what transfers have paid    *)
(* out besides, to the last wei: deposits, withdrawals, deletions and      *)
(* dissolutions never strand ether nor promise more.  So without transfers *)
(* everybody can be paid, and after one of a positive amount never again.  *)
OwedIsEtherAndTransfers == SumFunction(balanceLedger) = ether + transferred

(* An account with a balance is in the register, where the dissolution     *)
(* finds it, unless a transfer ever credited it: deleting an account,      *)
(* depositing again and dissolving the bank leave no depositor out.        *)
DepositorsAreRegistered ==
  \A a \in Account : balanceLedger[a] > 0 => a \in Registered \cup credited

(* The register has no holes and nothing behind its end, so the loop never *)
(* pays address(0) and never an entry of a bank dissolved before.          *)
RegisterIsDense ==
  \A i \in 0 .. MaxCount - 1 : accountLedger[i] # Zero <=> i < addressCount

(* The loop of dissolveBank pays each account once, however often it is in *)
(* the register, and empties it.                                           *)
LoopPaysEachOnce == Settled[addressCount] = Settlement
=============================================================================

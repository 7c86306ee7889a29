------------------------------ MODULE GovToken ------------------------------
(***************************************************************************)
(* The voting token of the DAO, dao/lib/contracts/GovToken.sol: an ERC20   *)
(* whose balances carry voting power.  A holder's tokens count for the     *)
(* account the holder delegates to, and for nobody until it delegates; the *)
(* contract keeps, per account, the power at the end of every past block,  *)
(* which is what the governor reads.                                       *)
(*                                                                         *)
(* A token amount is a natural number of some unit; OpenZeppelin's         *)
(* checkpoint traces are kept as the function `past' from sealed blocks to *)
(* the values the traces return for them.                                  *)
(***************************************************************************)
EXTENDS Chain, FiniteSets, Functions

CONSTANTS
  InitialSupply,  \* the 1000 * 10 ** decimals() the constructor mints
  MaxSupply,      \* the largest total supply ERC20Votes admits, 2^208 - 1
  Amount,         \* the amounts transfers and mints are tried with
  Delegatee,      \* the accounts, or Zero, that power is delegated to
  OwnerTarget     \* the accounts, or Zero, that ownership is given to

ASSUME TokenConstants ==
  /\ IsFiniteSet(Account)
  /\ InitialSupply \in Nat
  /\ MaxSupply \in Nat
  /\ InitialSupply <= MaxSupply
  /\ Amount \subseteq Nat
  /\ Delegatee \subseteq Account \cup {Zero}
  /\ OwnerTarget \subseteq Account \cup {Zero}

VARIABLES
  balance,     \* [Account -> Nat], ERC20
  supply,      \* total supply
  delegatee,   \* [Account -> Account or Zero], Votes
  votes,       \* [Account -> Nat], the newest checkpoint of each account
  tokenOwner,  \* Ownable
  past         \* block before `clock' -> voting power and supply at its end

holdings == <<balance, supply, votes>>
tokenVars == <<holdings, delegatee, tokenOwner, past>>

Delegates(a) == IF a = Zero THEN Zero ELSE delegatee[a]

(* `amount' units taken from src and given to dst; Zero is neither. *)
Moved(f, src, dst, amount) ==
  [a \in DOMAIN f |-> f[a] - (IF a = src THEN amount ELSE 0)
                           + (IF a = dst THEN amount ELSE 0)]

(* The checkpoints subtract with checked arithmetic. *)
Covers(f, src, dst, amount) ==
  src # dst /\ src # Zero => f[src] >= amount

(***************************************************************************)
(* Initially: the constructor has minted the supply to the deployer.       *)
(***************************************************************************)
TokenInit ==
  /\ balance = [a \in Account |-> IF a = Deployer THEN InitialSupply ELSE 0]
  /\ supply = InitialSupply
  /\ delegatee = [a \in Account |-> Zero]
  /\ votes = [a \in Account |-> 0]
  /\ tokenOwner = Deployer
  /\ past = [t \in {0} |-> [votes |-> [a \in Account |-> 0], supply |-> 0]]

(* Mutants: the power does not follow the tokens; a balance may be overdrawn. *)
UpdateForgettingVotes(from, to, amount) ==
  /\ from # Zero => balance[from] >= amount
  /\ from = Zero => supply + amount <= MaxSupply
  /\ balance' = Moved(balance, from, to, amount)
  /\ supply' = IF from = Zero THEN supply + amount ELSE supply
  /\ UNCHANGED votes

UpdateUnchecked(from, to, amount) ==
  /\ from = Zero => supply + amount <= MaxSupply
  /\ balance' = Moved(balance, from, to, amount)
  /\ supply' = IF from = Zero THEN supply + amount ELSE supply
  /\ votes' = Moved(votes, Delegates(from), Delegates(to), amount)

(***************************************************************************)
(* _update: every mint and transfer moves a balance and then the voting    *)
(* power of the two delegates.                                             *)
(***************************************************************************)
Update(from, to, amount) ==
  /\ from # Zero => balance[from] >= amount
  /\ from = Zero => supply + amount <= MaxSupply
  /\ Covers(votes, Delegates(from), Delegates(to), amount)
  /\ balance' = Moved(balance, from, to, amount)
  /\ supply' = IF from = Zero THEN supply + amount ELSE supply
  /\ votes' = Moved(votes, Delegates(from), Delegates(to), amount)

Transfer(from, to, amount) ==
  /\ Update(from, to, amount)
  /\ UNCHANGED <<delegatee, tokenOwner, past>>

Mint(caller, to, amount) ==
  /\ caller = tokenOwner
  /\ Update(Zero, to, amount)
  /\ UNCHANGED <<delegatee, tokenOwner, past>>

(* Mutant: the former delegate keeps the power.                            *)
DelegateKeepingVotes(caller, to) ==
  /\ delegatee' = [delegatee EXCEPT ![caller] = to]
  /\ votes' = Moved(votes, Zero, to, balance[caller])
  /\ UNCHANGED <<balance, supply, tokenOwner, past>>

(* delegate: the whole balance of the caller changes sides. *)
Delegate(caller, to) ==
  /\ Covers(votes, Delegates(caller), to, balance[caller])
  /\ delegatee' = [delegatee EXCEPT ![caller] = to]
  /\ votes' = Moved(votes, Delegates(caller), to, balance[caller])
  /\ UNCHANGED <<balance, supply, tokenOwner, past>>

(* transferOwnership, and renounceOwnership when the new owner is Zero. *)
TransferTokenOwnership(caller, to) ==
  /\ caller = tokenOwner
  /\ tokenOwner' = to
  /\ UNCHANGED <<holdings, delegatee, past>>

(***************************************************************************)
(* A block is sealed: what the traces hold now is what they will answer    *)
(* for this block ever after.                                              *)
(***************************************************************************)
Now == [votes |-> votes, supply |-> supply]

(* Mutant: every past block answers with the present.                      *)
SealRewritingThePast ==
  /\ past' = [t \in 0 .. clock |-> Now]
  /\ UNCHANGED <<holdings, delegatee, tokenOwner>>

Seal ==
  /\ past' = [t \in 0 .. clock |-> IF t = clock THEN Now ELSE past[t]]
  /\ UNCHANGED <<holdings, delegatee, tokenOwner>>

TokenStep ==
  \/ \E from, to \in Account, amount \in Amount : Transfer(from, to, amount)
  \/ \E caller, to \in Account, amount \in Amount : Mint(caller, to, amount)
  \/ \E caller \in Account, to \in Delegatee : Delegate(caller, to)
  \/ \E caller \in Account, to \in OwnerTarget :
       TransferTokenOwnership(caller, to)

-----------------------------------------------------------------------------
Snapshot == [votes : [Account -> Nat], supply : Nat]

(* Every variable of the token has the type its contract declares; in      *)
(* particular no balance and no voting power underflows.                   *)
TokenTypeOK ==
  /\ balance \in [Account -> Nat]
  /\ supply \in 0 .. MaxSupply
  /\ delegatee \in [Account -> Account \cup {Zero}]
  /\ votes \in [Account -> Nat]
  /\ tokenOwner \in Account \cup {Zero}
  /\ past \in [0 .. clock - 1 -> Snapshot]

DelegatedTo(d) == {a \in Account : delegatee[a] = d}

(* The voting power of an account is exactly what is held by those who     *)
(* delegate to it, and all balances together are the total supply, however *)
(* transfers, mints and changes of delegate interleave (_update,           *)
(* GovToken.sol:23, moves the power on every movement of a balance).       *)
PowerIsDelegatedBalance ==
  /\ supply = SumFunction(balance)
  /\ \A d \in Account : votes[d] = SumFunctionOnSet(balance, DelegatedTo(d))

(* At no past block do the accounts together have more voting power than   *)
(* there were tokens: moving tokens within or between blocks never lets    *)
(* one token count twice at a snapshot.                                    *)
PastPowerWithinSupply ==
  \A t \in DOMAIN past : SumFunction(past[t].votes) <= past[t].supply

(* The past is never rewritten: a block that was sealed answers the same   *)
(* for every account for ever, whatever is transferred or minted later.    *)
PastIsImmutable ==
  [][\A t \in DOMAIN past : t \in DOMAIN past' /\ past'[t] = past[t]]_past
=============================================================================

------------------------------ MODULE ItemShop ------------------------------
(***************************************************************************)
(* snippets/contracts/ItemShop.sol over Token.sol: items that anybody may  *)
(* add and anybody may buy.  An item is a token, a token's number is the   *)
(* timestamp of the block it was minted in, and nothing asks whether that  *)
(* number is taken: two items added in one block are one token, and tokens *)
(* that no block has reached yet, or no item was added as, can be bought   *)
(* like any other, at the price 0 of a mapping's default.                  *)
(***************************************************************************)
EXTENDS Integers

CONSTANTS
  Account,   \* addresses that use the shop
  Zero,      \* address(0), the owner of a token nobody ever had
  Unit,      \* 1 ether, in wei
  Price,     \* the prices items are added with, in ether
  Value,     \* the amounts of wei sent along when buying
  LastTime,  \* bound: the last timestamp
  MaxVault   \* bound: the ether spent in the shop

ASSUME ShopConstants ==
  /\ Zero \notin Account
  /\ Unit \in Nat \ {0}
  /\ Price \subseteq Nat
  /\ Value \subseteq Nat
  /\ LastTime \in Nat \ {0}
  /\ MaxVault \in Nat

TokenId == 1 .. LastTime

VARIABLES
  now,    \* block.timestamp
  owner,  \* [TokenId -> Account or Zero], Token
  price,  \* [TokenId -> Nat], items[...].price in ether
  vault,  \* address(this).balance; the shop has no way to pay out
  adder,  \* history: [TokenId -> who added the item last]
  paid    \* history: [TokenId -> what was paid for it since]

history == <<adder, paid>>
vars == <<now, owner, price, vault, history>>

Init ==
  /\ now = 1
  /\ owner = [t \in TokenId |-> Zero]
  /\ price = [t \in TokenId |-> 0]
  /\ vault = 0
  /\ adder = [t \in TokenId |-> Zero]
  /\ paid = [t \in TokenId |-> 0]

(* Mutant: a token that has an owner keeps it.                             *)
MintUnlessTaken(caller) ==
  owner' = [owner EXCEPT ![now] = IF @ = Zero THEN caller ELSE @]

(* Token.mint: the token is named for the block.                           *)
Mint(caller) == owner' = [owner EXCEPT ![now] = caller]

Add(caller, p) ==
  /\ Mint(caller)
  /\ price' = [price EXCEPT ![now] = p]
  /\ adder' = [adder EXCEPT ![now] = caller]
  /\ paid' = [paid EXCEPT ![now] = 0]
  /\ UNCHANGED <<now, vault>>

(* Mutant: a part of an ether counts as a whole one.                       *)
SufficesRoundedUp(value, t) == (value + Unit - 1) \div Unit >= price[t]

Suffices(value, t) == value \div Unit >= price[t]

Buy(caller, t, value) ==
  /\ Suffices(value, t)
  /\ owner' = [owner EXCEPT ![t] = caller]
  /\ vault' = vault + value
  /\ paid' = [paid EXCEPT ![t] = value]
  /\ UNCHANGED <<now, price, adder>>

(* The next block is later than this one.                                  *)
NextBlock ==
  /\ now' \in now + 1 .. LastTime
  /\ UNCHANGED <<owner, price, vault, history>>

Next ==
  \/ \E caller \in Account, p \in Price : Add(caller, p)
  \/ \E caller \in Account, t \in TokenId, value \in Value :
       vault + value <= MaxVault /\ Buy(caller, t, value)
  \/ NextBlock

Spec == Init /\ [][Next]_vars

-----------------------------------------------------------------------------
(* The shop's variables have the types their contracts declare.            *)
TypeOK ==
  /\ now \in TokenId
  /\ owner \in [TokenId -> Account \cup {Zero}]
  /\ price \in [TokenId -> Nat]
  /\ vault \in Nat
  /\ adder \in [TokenId -> Account \cup {Zero}]
  /\ paid \in [TokenId -> Nat]

(* Whoever has an item and did not add it has paid its price for it, in    *)
(* full: buying a token before its item is added, at no price, gains       *)
(* nothing, for the item's adder takes it; and the division by 1 ether     *)
(* never lets a part of an ether count as a whole one.                     *)
OwnersAddedOrPaid ==
  \A t \in TokenId : owner[t] = adder[t] \/ paid[t] >= price[t] * Unit

(* An item is safe from other items once its block is over: its price      *)
(* stays and it changes hands only for that price.                         *)
ItemsSettleWithTheirBlock ==
  [][\A t \in TokenId : t < now =>
       /\ price'[t] = price[t]
       /\ owner'[t] # owner[t] => vault' - vault >= price[t] * Unit]_vars
=============================================================================

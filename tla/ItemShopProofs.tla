---------------------------- MODULE ItemShopProofs ----------------------------
(***************************************************************************)
(* Proofs about the item shop for any accounts, prices, payments and       *)
(* timestamps.                                                             *)
(***************************************************************************)
EXTENDS ItemShop, TLAPS

(* A payment that suffices in whole ether suffices in wei.                 *)
LEMMA WholeEther ==
  ASSUME NEW value \in Nat, NEW p \in Nat, value \div Unit >= p
  PROVE  value >= p * Unit
  <1> DEFINE q == value \div Unit
  <1>1. q \in Nat /\ q >= p /\ Unit \in Nat \ {0}
    BY ShopConstants
  <1>2. value >= q * Unit
    BY ShopConstants
  <1> HIDE DEF q
  <1>3. PICK d \in Nat : q = p + d
    BY <1>1
  <1>4. q * Unit = p * Unit + d * Unit /\ d * Unit \in Nat /\ p * Unit \in Nat
    BY <1>1, <1>3
  <1> QED BY <1>2, <1>4

LEMMA TypeInit == Init => TypeOK
  BY ShopConstants DEF Init, TypeOK, TokenId

LEMMA TypeStep == TypeOK /\ [Next]_vars => TypeOK'
  <1> SUFFICES ASSUME TypeOK, [Next]_vars PROVE TypeOK'
    OBVIOUS
  <1> USE ShopConstants DEF TypeOK
  <1>1. ASSUME NEW caller \in Account, NEW p \in Price, Add(caller, p)
        PROVE  TypeOK'
    BY <1>1 DEF Add, Mint
  <1>2. ASSUME NEW caller \in Account, NEW t \in TokenId, NEW value \in Value,
               Buy(caller, t, value)
        PROVE  TypeOK'
    BY <1>2 DEF Buy
  <1>3. CASE NextBlock
    BY <1>3 DEF NextBlock, history, TokenId
  <1>4. CASE UNCHANGED vars
    BY <1>4 DEF vars, history
  <1> QED BY <1>1, <1>2, <1>3, <1>4 DEF Next

LEMMA ShopTypes == Spec => []TypeOK
  BY TypeInit, TypeStep, PTL DEF Spec

-----------------------------------------------------------------------------
LEMMA PaidStep == TypeOK /\ OwnersAddedOrPaid /\ [Next]_vars => OwnersAddedOrPaid'
  <1> SUFFICES ASSUME TypeOK, OwnersAddedOrPaid, [Next]_vars, NEW t \in TokenId
               PROVE  owner'[t] = adder'[t] \/ paid'[t] >= price'[t] * Unit
    BY DEF OwnersAddedOrPaid
  <1> USE ShopConstants DEF TypeOK
  <1>1. owner[t] = adder[t] \/ paid[t] >= price[t] * Unit
    BY DEF OwnersAddedOrPaid
  <1>2. ASSUME NEW caller \in Account, NEW p \in Price, Add(caller, p)
        PROVE  owner'[t] = adder'[t] \/ paid'[t] >= price'[t] * Unit
    <2>1. CASE t = now
      <3>1. owner'[t] = caller /\ adder'[t] = caller
        BY <1>2, <2>1 DEF Add, Mint
      <3> QED BY <3>1
    <2>2. CASE t # now
      <3>1. owner'[t] = owner[t] /\ adder'[t] = adder[t] /\ paid'[t] = paid[t] /\ price'[t] = price[t]
        BY <1>2, <2>2 DEF Add, Mint
      <3> QED BY <1>1, <3>1
    <2> QED BY <2>1, <2>2
  <1>3. ASSUME NEW caller \in Account, NEW u \in TokenId, NEW value \in Value,
               Buy(caller, u, value)
        PROVE  owner'[t] = adder'[t] \/ paid'[t] >= price'[t] * Unit
    <2>1. CASE t = u
      <3>1. paid'[t] = value /\ price'[t] = price[t] /\ value \div Unit >= price[t]
        BY <1>3, <2>1 DEF Buy, Suffices
      <3>2. value \in Nat /\ price[t] \in Nat
        OBVIOUS
      <3> QED BY <3>1, <3>2, WholeEther
    <2>2. CASE t # u
      <3>1. owner'[t] = owner[t] /\ adder'[t] = adder[t] /\ paid'[t] = paid[t] /\ price'[t] = price[t]
        BY <1>3, <2>2 DEF Buy
      <3> QED BY <1>1, <3>1
    <2> QED BY <2>1, <2>2
  <1>4. CASE UNCHANGED <<owner, price, history>>
    BY <1>1, <1>4 DEF history
  <1> QED BY <1>2, <1>3, <1>4 DEF Next, NextBlock, vars

(* Whoever has an item added it or has paid its price in full.             *)
THEOREM NobodyOwnsUnpaid == Spec => []OwnersAddedOrPaid
  <1>1. Init => OwnersAddedOrPaid
    BY DEF Init, OwnersAddedOrPaid
  <1> QED BY <1>1, PaidStep, ShopTypes, PTL DEF Spec

(* An item of an earlier block keeps its price and is only ever sold.      *)
THEOREM SettledForGood == Spec => ItemsSettleWithTheirBlock
  <1>1. TypeOK /\ [Next]_vars =>
          [\A t \in TokenId : t < now =>
             /\ price'[t] = price[t]
             /\ owner'[t] # owner[t] => vault' - vault >= price[t] * Unit]_vars
    <2> SUFFICES ASSUME TypeOK, Next, NEW t \in TokenId, t < now
                 PROVE  /\ price'[t] = price[t]
                        /\ owner'[t] # owner[t] => vault' - vault >= price[t] * Unit
      OBVIOUS
    <2> USE ShopConstants DEF TypeOK
    <2>1. t # now
      BY DEF TokenId
    <2>2. ASSUME NEW caller \in Account, NEW p \in Price, Add(caller, p)
          PROVE  price'[t] = price[t] /\ owner'[t] = owner[t]
      BY <2>1, <2>2 DEF Add, Mint
    <2>3. ASSUME NEW caller \in Account, NEW u \in TokenId, NEW value \in Value,
                 Buy(caller, u, value)
          PROVE  /\ price'[t] = price[t]
                 /\ owner'[t] # owner[t] => vault' - vault >= price[t] * Unit
      <3>1. price' = price /\ vault' = vault + value /\ value \in Nat /\ price[t] \in Nat
        BY <2>3 DEF Buy
      <3>2. vault' - vault = value
        BY <3>1
      <3>3. ASSUME owner'[t] # owner[t] PROVE value >= price[t] * Unit
        <4>1. t = u
          BY <2>3, <3>3 DEF Buy
        <4>2. value \div Unit >= price[t]
          BY <2>3, <4>1 DEF Buy, Suffices
        <4> QED BY <3>1, <4>2, WholeEther
      <3> QED BY <3>1, <3>2, <3>3
    <2>4. CASE NextBlock
      BY <2>4 DEF NextBlock
    <2> QED BY <2>2, <2>3, <2>4 DEF Next
  <1> QED BY <1>1, ShopTypes, PTL DEF Spec, ItemsSettleWithTheirBlock
=============================================================================

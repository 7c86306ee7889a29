------------------------------ MODULE MCItemShop ------------------------------
(* Model values and bounds for the item shop.                              *)
EXTENDS ItemShop
=============================================================================

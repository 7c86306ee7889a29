------------------------------- MODULE MCBank -------------------------------
(* Model values and bounds for the bank.                                   *)
EXTENDS Bank
=============================================================================

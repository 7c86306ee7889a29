------------------------------ MODULE MCScanner ------------------------------
(* The scanner with its own seven tools.                                   *)
EXTENDS Scanner
=============================================================================

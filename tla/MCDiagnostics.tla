---------------------------- MODULE MCDiagnostics ----------------------------
(* The checks of the script in fewer numbers: one of each of its four ways *)
(* to treat a failure.                                                     *)
EXTENDS Diagnostics

FourChecks ==
  <<"get_network_info", "get_listening_status", "get_peer_count", "get_chain_id">>

ThreeChecks == <<"get_network_info", "get_listening_status", "get_chain_id">>
=============================================================================

-------------------------- MODULE MCStorageClients --------------------------
EXTENDS StorageClients

(* One program of each kind: Go numbers its transactions and waits, ethers *)
(* and viem do neither.  Rust does what Go does; what Python does, Go does *)
(* when nobody takes its nonce.                                            *)
OneOfEach == [c \in Client |-> c]
=============================================================================

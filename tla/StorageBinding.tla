--------------------------- MODULE StorageBinding ---------------------------
(***************************************************************************)
(* The Go binding of the Storage contract, snippets/go/Storage.go: it      *)
(* declares neither events nor errors.                                     *)
(***************************************************************************)
EXTENDS Abi

Retrieve == Method("retrieve", "0x2e64cec1", <<>>, <<"string">>)
Store == Method("store", "0x131a0680", <<"string">>, <<>>)

(* The parsed ABI that the binding holds.                                  *)
Methods == {Retrieve, Store}
=============================================================================

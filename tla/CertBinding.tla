---------------------------- MODULE CertBinding -----------------------------
(***************************************************************************)
(* The Go binding of the Cert contract, dao/lib/bindings/Cert.go.  One     *)
(* definition stands for the functions of one method (Pack, TryPack and,   *)
(* where something is returned, Unpack), event or custom error.            *)
(***************************************************************************)
EXTENDS Abi

(* PackConstructor: the types of the constructor's arguments.              *)
Constructor == <<"address">>

-----------------------------------------------------------------------------
(* Methods.                                                                *)
Certificates ==
  Method("Certificates", "0x9622c836", <<"uint256">>,
    <<"string", "string", "string", "string">>)
Issue ==
  Method("issue", "0xd1e7be26",
    <<"uint256", "string", "string", "string", "string">>, <<>>)
Owner == Method("owner", "0x8da5cb5b", <<>>, <<"address">>)
RenounceOwnership == Method("renounceOwnership", "0x715018a6", <<>>, <<>>)
TransferOwnership ==
  Method("transferOwnership", "0xf2fde38b", <<"address">>, <<>>)

-----------------------------------------------------------------------------
(* Events.                                                                 *)
IssuedEvent == Event("Issued", <<>>, <<"uint256", "string">>)
OwnershipTransferredEvent ==
  Event("OwnershipTransferred", <<"address", "address">>, <<>>)

-----------------------------------------------------------------------------
(* Custom errors.                                                          *)
OwnableInvalidOwnerError ==
  CustomError("OwnableInvalidOwner", "0x1e4fbdf7", <<"address">>)
OwnableUnauthorizedAccountError ==
  CustomError("OwnableUnauthorizedAccount", "0x118cdaa7", <<"address">>)

-----------------------------------------------------------------------------
(* What UnpackError compares the first four bytes of revert data with.     *)
Errors ==
  {OwnableInvalidOwnerError, OwnableUnauthorizedAccountError}

(* The rest of the parsed ABI that the binding holds.                      *)
Methods ==
  {Certificates, Issue, Owner, RenounceOwnership, TransferOwnership}

Events ==
  {IssuedEvent, OwnershipTransferredEvent}
=============================================================================

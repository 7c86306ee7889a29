-------------------------- MODULE GovTokenBinding ---------------------------
(***************************************************************************)
(* The Go binding of the voting token, dao/lib/bindings/GovToken.go,       *)
(* laid out like CertBinding.                                              *)
(***************************************************************************)
EXTENDS Abi

(* PackConstructor: the types of the constructor's arguments.              *)
Constructor == <<"address">>

-----------------------------------------------------------------------------
(* Methods.                                                                *)
CLOCKMODE == Method("CLOCK_MODE", "0x4bf5d7e9", <<>>, <<"string">>)
DOMAINSEPARATOR ==
  Method("DOMAIN_SEPARATOR", "0x3644e515", <<>>, <<"bytes32">>)
Allowance ==
  Method("allowance", "0xdd62ed3e", <<"address", "address">>, <<"uint256">>)
Approve ==
  Method("approve", "0x095ea7b3", <<"address", "uint256">>, <<"bool">>)
BalanceOf == Method("balanceOf", "0x70a08231", <<"address">>, <<"uint256">>)
Checkpoints ==
  Method("checkpoints", "0xf1127ed8", <<"address", "uint32">>,
    <<"uint48", "uint208">>)
Clock == Method("clock", "0x91ddadf4", <<>>, <<"uint48">>)
Decimals == Method("decimals", "0x313ce567", <<>>, <<"uint8">>)
Delegate == Method("delegate", "0x5c19a95c", <<"address">>, <<>>)
DelegateBySig ==
  Method("delegateBySig", "0xc3cda520",
    <<"address", "uint256", "uint256", "uint8", "bytes32", "bytes32">>,
    <<>>)
Delegates == Method("delegates", "0x587cde1e", <<"address">>, <<"address">>)
Eip712Domain ==
  Method("eip712Domain", "0x84b0196e", <<>>,
    <<"bytes1", "string", "string", "uint256", "address", "bytes32",
      "uint256[]">>)
GetPastTotalSupply ==
  Method("getPastTotalSupply", "0x8e539e8c", <<"uint256">>, <<"uint256">>)
GetPastVotes ==
  Method("getPastVotes", "0x3a46b1a8", <<"address", "uint256">>,
    <<"uint256">>)
GetVotes == Method("getVotes", "0x9ab24eb0", <<"address">>, <<"uint256">>)
Mint == Method("mint", "0x40c10f19", <<"address", "uint256">>, <<>>)
Name == Method("name", "0x06fdde03", <<>>, <<"string">>)
Nonces == Method("nonces", "0x7ecebe00", <<"address">>, <<"uint256">>)
NumCheckpoints ==
  Method("numCheckpoints", "0x6fcfff45", <<"address">>, <<"uint32">>)
Owner == Method("owner", "0x8da5cb5b", <<>>, <<"address">>)
Permit ==
  Method("permit", "0xd505accf",
    <<"address", "address", "uint256", "uint256", "uint8", "bytes32",
      "bytes32">>, <<>>)
RenounceOwnership == Method("renounceOwnership", "0x715018a6", <<>>, <<>>)
Symbol == Method("symbol", "0x95d89b41", <<>>, <<"string">>)
TotalSupply == Method("totalSupply", "0x18160ddd", <<>>, <<"uint256">>)
Transfer ==
  Method("transfer", "0xa9059cbb", <<"address", "uint256">>, <<"bool">>)
TransferFrom ==
  Method("transferFrom", "0x23b872dd", <<"address", "address", "uint256">>,
    <<"bool">>)
TransferOwnership ==
  Method("transferOwnership", "0xf2fde38b", <<"address">>, <<>>)

-----------------------------------------------------------------------------
(* Events.                                                                 *)
ApprovalEvent == Event("Approval", <<"address", "address">>, <<"uint256">>)
DelegateChangedEvent ==
  Event("DelegateChanged", <<"address", "address", "address">>, <<>>)
DelegateVotesChangedEvent ==
  Event("DelegateVotesChanged", <<"address">>, <<"uint256", "uint256">>)
EIP712DomainChangedEvent == Event("EIP712DomainChanged", <<>>, <<>>)
OwnershipTransferredEvent ==
  Event("OwnershipTransferred", <<"address", "address">>, <<>>)
TransferEvent == Event("Transfer", <<"address", "address">>, <<"uint256">>)

-----------------------------------------------------------------------------
(* Custom errors.                                                          *)
CheckpointUnorderedInsertionError ==
  CustomError("CheckpointUnorderedInsertion", "0x2520601d", <<>>)
ECDSAInvalidSignatureError ==
  CustomError("ECDSAInvalidSignature", "0xf645eedf", <<>>)
ECDSAInvalidSignatureLengthError ==
  CustomError("ECDSAInvalidSignatureLength", "0xfce698f7", <<"uint256">>)
ECDSAInvalidSignatureSError ==
  CustomError("ECDSAInvalidSignatureS", "0xd78bce0c", <<"bytes32">>)
ERC20ExceededSafeSupplyError ==
  CustomError("ERC20ExceededSafeSupply", "0x1cb15d26",
    <<"uint256", "uint256">>)
ERC20InsufficientAllowanceError ==
  CustomError("ERC20InsufficientAllowance", "0xfb8f41b2",
    <<"address", "uint256", "uint256">>)
ERC20InsufficientBalanceError ==
  CustomError("ERC20InsufficientBalance", "0xe450d38c",
    <<"address", "uint256", "uint256">>)
ERC20InvalidApproverError ==
  CustomError("ERC20InvalidApprover", "0xe602df05", <<"address">>)
ERC20InvalidReceiverError ==
  CustomError("ERC20InvalidReceiver", "0xec442f05", <<"address">>)
ERC20InvalidSenderError ==
  CustomError("ERC20InvalidSender", "0x96c6fd1e", <<"address">>)
ERC20InvalidSpenderError ==
  CustomError("ERC20InvalidSpender", "0x94280d62", <<"address">>)
ERC2612ExpiredSignatureError ==
  CustomError("ERC2612ExpiredSignature", "0x62791302", <<"uint256">>)
ERC2612InvalidSignerError ==
  CustomError("ERC2612InvalidSigner", "0x4b800e46",
    <<"address", "address">>)
ERC5805FutureLookupError ==
  CustomError("ERC5805FutureLookup", "0xecd3f81e", <<"uint256", "uint48">>)
ERC6372InconsistentClockError ==
  CustomError("ERC6372InconsistentClock", "0x6ff07140", <<>>)
InvalidAccountNonceError ==
  CustomError("InvalidAccountNonce", "0x752d88c0", <<"address", "uint256">>)
InvalidShortStringError ==
  CustomError("InvalidShortString", "0xb3512b0c", <<>>)
OwnableInvalidOwnerError ==
  CustomError("OwnableInvalidOwner", "0x1e4fbdf7", <<"address">>)
OwnableUnauthorizedAccountError ==
  CustomError("OwnableUnauthorizedAccount", "0x118cdaa7", <<"address">>)
SafeCastOverflowedUintDowncastError ==
  CustomError("SafeCastOverflowedUintDowncast", "0x6dfcc650",
    <<"uint8", "uint256">>)
StringTooLongError ==
  CustomError("StringTooLong", "0x305a27a9", <<"string">>)
VotesExpiredSignatureError ==
  CustomError("VotesExpiredSignature", "0x4683af0e", <<"uint256">>)

-----------------------------------------------------------------------------
(* What UnpackError compares the first four bytes of revert data with.     *)
Errors ==
  {CheckpointUnorderedInsertionError, ECDSAInvalidSignatureError,
   ECDSAInvalidSignatureLengthError, ECDSAInvalidSignatureSError,
   ERC20ExceededSafeSupplyError, ERC20InsufficientAllowanceError,
   ERC20InsufficientBalanceError, ERC20InvalidApproverError,
   ERC20InvalidReceiverError, ERC20InvalidSenderError,
   ERC20InvalidSpenderError, ERC2612ExpiredSignatureError,
   ERC2612InvalidSignerError, ERC5805FutureLookupError,
   ERC6372InconsistentClockError, InvalidAccountNonceError,
   InvalidShortStringError, OwnableInvalidOwnerError,
   OwnableUnauthorizedAccountError, SafeCastOverflowedUintDowncastError,
   StringTooLongError, VotesExpiredSignatureError}

(* The rest of the parsed ABI that the binding holds.                      *)
Methods ==
  {CLOCKMODE, DOMAINSEPARATOR, Allowance, Approve, BalanceOf, Checkpoints,
   Clock, Decimals, Delegate, DelegateBySig, Delegates, Eip712Domain,
   GetPastTotalSupply, GetPastVotes, GetVotes, Mint, Name, Nonces,
   NumCheckpoints, Owner, Permit, RenounceOwnership, Symbol, TotalSupply,
   Transfer, TransferFrom, TransferOwnership}

Events ==
  {ApprovalEvent, DelegateChangedEvent, DelegateVotesChangedEvent,
   EIP712DomainChangedEvent, OwnershipTransferredEvent, TransferEvent}
=============================================================================

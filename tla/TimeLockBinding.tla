-------------------------- MODULE TimeLockBinding ---------------------------
(***************************************************************************)
(* The Go binding of the timelock, dao/lib/bindings/TimeLock.go,           *)
(* laid out like CertBinding.                                              *)
(***************************************************************************)
EXTENDS Abi

(* PackConstructor: the types of the constructor's arguments.              *)
Constructor == <<"uint256", "address[]", "address[]", "address">>

-----------------------------------------------------------------------------
(* Methods.                                                                *)
CANCELLERROLE == Method("CANCELLER_ROLE", "0xb08e51c0", <<>>, <<"bytes32">>)
DEFAULTADMINROLE ==
  Method("DEFAULT_ADMIN_ROLE", "0xa217fddf", <<>>, <<"bytes32">>)
EXECUTORROLE == Method("EXECUTOR_ROLE", "0x07bd0265", <<>>, <<"bytes32">>)
PROPOSERROLE == Method("PROPOSER_ROLE", "0x8f61f4f5", <<>>, <<"bytes32">>)
Cancel == Method("cancel", "0xc4d252f5", <<"bytes32">>, <<>>)
Execute ==
  Method("execute", "0x134008d3",
    <<"address", "uint256", "bytes", "bytes32", "bytes32">>, <<>>)
ExecuteBatch ==
  Method("executeBatch", "0xe38335e5",
    <<"address[]", "uint256[]", "bytes[]", "bytes32", "bytes32">>, <<>>)
GetMinDelay == Method("getMinDelay", "0xf27a0c92", <<>>, <<"uint256">>)
GetOperationState ==
  Method("getOperationState", "0x7958004c", <<"bytes32">>, <<"uint8">>)
GetRoleAdmin ==
  Method("getRoleAdmin", "0x248a9ca3", <<"bytes32">>, <<"bytes32">>)
GetTimestamp ==
  Method("getTimestamp", "0xd45c4435", <<"bytes32">>, <<"uint256">>)
GrantRole ==
  Method("grantRole", "0x2f2ff15d", <<"bytes32", "address">>, <<>>)
HasRole ==
  Method("hasRole", "0x91d14854", <<"bytes32", "address">>, <<"bool">>)
HashOperation ==
  Method("hashOperation", "0x8065657f",
    <<"address", "uint256", "bytes", "bytes32", "bytes32">>, <<"bytes32">>)
HashOperationBatch ==
  Method("hashOperationBatch", "0xb1c5f427",
    <<"address[]", "uint256[]", "bytes[]", "bytes32", "bytes32">>,
    <<"bytes32">>)
IsOperation == Method("isOperation", "0x31d50750", <<"bytes32">>, <<"bool">>)
IsOperationDone ==
  Method("isOperationDone", "0x2ab0f529", <<"bytes32">>, <<"bool">>)
IsOperationPending ==
  Method("isOperationPending", "0x584b153e", <<"bytes32">>, <<"bool">>)
IsOperationReady ==
  Method("isOperationReady", "0x13bc9f20", <<"bytes32">>, <<"bool">>)
OnERC1155BatchReceived ==
  Method("onERC1155BatchReceived", "0xbc197c81",
    <<"address", "address", "uint256[]", "uint256[]", "bytes">>,
    <<"bytes4">>)
OnERC1155Received ==
  Method("onERC1155Received", "0xf23a6e61",
    <<"address", "address", "uint256", "uint256", "bytes">>, <<"bytes4">>)
OnERC721Received ==
  Method("onERC721Received", "0x150b7a02",
    <<"address", "address", "uint256", "bytes">>, <<"bytes4">>)
RenounceRole ==
  Method("renounceRole", "0x36568abe", <<"bytes32", "address">>, <<>>)
RevokeRole ==
  Method("revokeRole", "0xd547741f", <<"bytes32", "address">>, <<>>)
Schedule ==
  Method("schedule", "0x01d5062a",
    <<"address", "uint256", "bytes", "bytes32", "bytes32", "uint256">>,
    <<>>)
ScheduleBatch ==
  Method("scheduleBatch", "0x8f2a0bb0",
    <<"address[]", "uint256[]", "bytes[]", "bytes32", "bytes32", "uint256">>,
    <<>>)
SupportsInterface ==
  Method("supportsInterface", "0x01ffc9a7", <<"bytes4">>, <<"bool">>)
UpdateDelay == Method("updateDelay", "0x64d62353", <<"uint256">>, <<>>)

-----------------------------------------------------------------------------
(* Events.                                                                 *)
CallExecutedEvent ==
  Event("CallExecuted", <<"bytes32", "uint256">>,
    <<"address", "uint256", "bytes">>)
CallSaltEvent == Event("CallSalt", <<"bytes32">>, <<"bytes32">>)
CallScheduledEvent ==
  Event("CallScheduled", <<"bytes32", "uint256">>,
    <<"address", "uint256", "bytes", "bytes32", "uint256">>)
CancelledEvent == Event("Cancelled", <<"bytes32">>, <<>>)
MinDelayChangeEvent ==
  Event("MinDelayChange", <<>>, <<"uint256", "uint256">>)
RoleAdminChangedEvent ==
  Event("RoleAdminChanged", <<"bytes32", "bytes32", "bytes32">>, <<>>)
RoleGrantedEvent ==
  Event("RoleGranted", <<"bytes32", "address", "address">>, <<>>)
RoleRevokedEvent ==
  Event("RoleRevoked", <<"bytes32", "address", "address">>, <<>>)

-----------------------------------------------------------------------------
(* Custom errors.                                                          *)
AccessControlBadConfirmationError ==
  CustomError("AccessControlBadConfirmation", "0x6697b232", <<>>)
AccessControlUnauthorizedAccountError ==
  CustomError("AccessControlUnauthorizedAccount", "0xe2517d3f",
    <<"address", "bytes32">>)
FailedCallError == CustomError("FailedCall", "0xd6bda275", <<>>)
TimelockInsufficientDelayError ==
  CustomError("TimelockInsufficientDelay", "0x54336609",
    <<"uint256", "uint256">>)
TimelockInvalidOperationLengthError ==
  CustomError("TimelockInvalidOperationLength", "0xffb03211",
    <<"uint256", "uint256", "uint256">>)
TimelockUnauthorizedCallerError ==
  CustomError("TimelockUnauthorizedCaller", "0xe2850c59", <<"address">>)
TimelockUnexecutedPredecessorError ==
  CustomError("TimelockUnexecutedPredecessor", "0x90a9a618", <<"bytes32">>)
TimelockUnexpectedOperationStateError ==
  CustomError("TimelockUnexpectedOperationState", "0x5ead8eb5",
    <<"bytes32", "bytes32">>)

-----------------------------------------------------------------------------
(* What UnpackError compares the first four bytes of revert data with.     *)
Errors ==
  {AccessControlBadConfirmationError, AccessControlUnauthorizedAccountError,
   FailedCallError, TimelockInsufficientDelayError,
   TimelockInvalidOperationLengthError, TimelockUnauthorizedCallerError,
   TimelockUnexecutedPredecessorError,
   TimelockUnexpectedOperationStateError}

(* The rest of the parsed ABI that the binding holds.                      *)
Methods ==
  {CANCELLERROLE, DEFAULTADMINROLE, EXECUTORROLE, PROPOSERROLE, Cancel,
   Execute, ExecuteBatch, GetMinDelay, GetOperationState, GetRoleAdmin,
   GetTimestamp, GrantRole, HasRole, HashOperation, HashOperationBatch,
   IsOperation, IsOperationDone, IsOperationPending, IsOperationReady,
   OnERC1155BatchReceived, OnERC1155Received, OnERC721Received,
   RenounceRole, RevokeRole, Schedule, ScheduleBatch, SupportsInterface,
   UpdateDelay}

Events ==
  {CallExecutedEvent, CallSaltEvent, CallScheduledEvent, CancelledEvent,
   MinDelayChangeEvent, RoleAdminChangedEvent, RoleGrantedEvent,
   RoleRevokedEvent}
=============================================================================

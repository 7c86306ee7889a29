------------------------- MODULE MyGovernorBinding --------------------------
(***************************************************************************)
(* The Go binding of the governor, dao/lib/bindings/MyGovernor.go,         *)
(* laid out like CertBinding.                                              *)
(***************************************************************************)
EXTENDS Abi

(* PackConstructor: the types of the constructor's arguments.              *)
Constructor == <<"address", "address">>

-----------------------------------------------------------------------------
(* Methods.                                                                *)
BALLOTTYPEHASH ==
  Method("BALLOT_TYPEHASH", "0xdeaaa7cc", <<>>, <<"bytes32">>)
CLOCKMODE == Method("CLOCK_MODE", "0x4bf5d7e9", <<>>, <<"string">>)
COUNTINGMODE == Method("COUNTING_MODE", "0xdd4e2ba5", <<>>, <<"string">>)
EXTENDEDBALLOTTYPEHASH ==
  Method("EXTENDED_BALLOT_TYPEHASH", "0x2fe3e261", <<>>, <<"bytes32">>)
Cancel ==
  Method("cancel", "0x452115d6",
    <<"address[]", "uint256[]", "bytes[]", "bytes32">>, <<"uint256">>)
CastVote ==
  Method("castVote", "0x56781388", <<"uint256", "uint8">>, <<"uint256">>)
CastVoteBySig ==
  Method("castVoteBySig", "0x8ff262e3",
    <<"uint256", "uint8", "address", "bytes">>, <<"uint256">>)
CastVoteWithReason ==
  Method("castVoteWithReason", "0x7b3c71d3",
    <<"uint256", "uint8", "string">>, <<"uint256">>)
CastVoteWithReasonAndParams ==
  Method("castVoteWithReasonAndParams", "0x5f398a14",
    <<"uint256", "uint8", "string", "bytes">>, <<"uint256">>)
CastVoteWithReasonAndParamsBySig ==
  Method("castVoteWithReasonAndParamsBySig", "0x5b8d0e0d",
    <<"uint256", "uint8", "address", "string", "bytes", "bytes">>,
    <<"uint256">>)
Clock == Method("clock", "0x91ddadf4", <<>>, <<"uint48">>)
Eip712Domain ==
  Method("eip712Domain", "0x84b0196e", <<>>,
    <<"bytes1", "string", "string", "uint256", "address", "bytes32",
      "uint256[]">>)
Execute ==
  Method("execute", "0x2656227d",
    <<"address[]", "uint256[]", "bytes[]", "bytes32">>, <<"uint256">>)
GetProposalId ==
  Method("getProposalId", "0xa8f8a668",
    <<"address[]", "uint256[]", "bytes[]", "bytes32">>, <<"uint256">>)
GetVotes ==
  Method("getVotes", "0xeb9019d4", <<"address", "uint256">>, <<"uint256">>)
GetVotesWithParams ==
  Method("getVotesWithParams", "0x9a802a6d",
    <<"address", "uint256", "bytes">>, <<"uint256">>)
HasVoted ==
  Method("hasVoted", "0x43859632", <<"uint256", "address">>, <<"bool">>)
HashProposal ==
  Method("hashProposal", "0xc59057e4",
    <<"address[]", "uint256[]", "bytes[]", "bytes32">>, <<"uint256">>)
Name == Method("name", "0x06fdde03", <<>>, <<"string">>)
Nonces == Method("nonces", "0x7ecebe00", <<"address">>, <<"uint256">>)
OnERC1155BatchReceived ==
  Method("onERC1155BatchReceived", "0xbc197c81",
    <<"address", "address", "uint256[]", "uint256[]", "bytes">>,
    <<"bytes4">>)
OnERC1155Received ==
  Method("onERC1155Received", "0xf23a6e61",
    <<"address", "address", "uint256", "uint256", "bytes">>, <<"bytes4">>)
OnERC721Received ==
  Method("onERC721Received", "0x150b7a02",
    <<"address", "address", "uint256", "bytes">>, <<"bytes4">>)
ProposalDeadline ==
  Method("proposalDeadline", "0xc01f9e37", <<"uint256">>, <<"uint256">>)
ProposalEta ==
  Method("proposalEta", "0xab58fb8e", <<"uint256">>, <<"uint256">>)
ProposalNeedsQueuing ==
  Method("proposalNeedsQueuing", "0xa9a95294", <<"uint256">>, <<"bool">>)
ProposalProposer ==
  Method("proposalProposer", "0x143489d0", <<"uint256">>, <<"address">>)
ProposalSnapshot ==
  Method("proposalSnapshot", "0x2d63f693", <<"uint256">>, <<"uint256">>)
ProposalThreshold ==
  Method("proposalThreshold", "0xb58131b0", <<>>, <<"uint256">>)
ProposalVotes ==
  Method("proposalVotes", "0x544ffc9c", <<"uint256">>,
    <<"uint256", "uint256", "uint256">>)
Propose ==
  Method("propose", "0x7d5e81e2",
    <<"address[]", "uint256[]", "bytes[]", "string">>, <<"uint256">>)
Queue ==
  Method("queue", "0x160cbed7",
    <<"address[]", "uint256[]", "bytes[]", "bytes32">>, <<"uint256">>)
Quorum == Method("quorum", "0xf8ce560a", <<"uint256">>, <<"uint256">>)
QuorumDenominator ==
  Method("quorumDenominator", "0x97c3d334", <<>>, <<"uint256">>)
QuorumNumerator ==
  Method("quorumNumerator", "0x60c4247f", <<"uint256">>, <<"uint256">>)
QuorumNumerator0 ==
  Overload("quorumNumerator0", "quorumNumerator", "0xa7713a70", <<>>,
    <<"uint256">>)
Relay ==
  Method("relay", "0xc28bc2fa", <<"address", "uint256", "bytes">>, <<>>)
SetProposalThreshold ==
  Method("setProposalThreshold", "0xece40cc1", <<"uint256">>, <<>>)
SetVotingDelay == Method("setVotingDelay", "0x79051887", <<"uint48">>, <<>>)
SetVotingPeriod ==
  Method("setVotingPeriod", "0xe540d01d", <<"uint32">>, <<>>)
State == Method("state", "0x3e4f49e6", <<"uint256">>, <<"uint8">>)
SupportsInterface ==
  Method("supportsInterface", "0x01ffc9a7", <<"bytes4">>, <<"bool">>)
Timelock == Method("timelock", "0xd33219b4", <<>>, <<"address">>)
Token == Method("token", "0xfc0c546a", <<>>, <<"address">>)
UpdateQuorumNumerator ==
  Method("updateQuorumNumerator", "0x06f3f9e6", <<"uint256">>, <<>>)
UpdateTimelock == Method("updateTimelock", "0xa890c910", <<"address">>, <<>>)
Version == Method("version", "0x54fd4d50", <<>>, <<"string">>)
VotingDelay == Method("votingDelay", "0x3932abb1", <<>>, <<"uint256">>)
VotingPeriod == Method("votingPeriod", "0x02a251a3", <<>>, <<"uint256">>)

-----------------------------------------------------------------------------
(* Events.                                                                 *)
EIP712DomainChangedEvent == Event("EIP712DomainChanged", <<>>, <<>>)
ProposalCanceledEvent == Event("ProposalCanceled", <<>>, <<"uint256">>)
ProposalCreatedEvent ==
  Event("ProposalCreated", <<>>,
    <<"uint256", "address", "address[]", "uint256[]", "string[]",
      "bytes[]", "uint256", "uint256", "string">>)
ProposalExecutedEvent == Event("ProposalExecuted", <<>>, <<"uint256">>)
ProposalQueuedEvent ==
  Event("ProposalQueued", <<>>, <<"uint256", "uint256">>)
ProposalThresholdSetEvent ==
  Event("ProposalThresholdSet", <<>>, <<"uint256", "uint256">>)
QuorumNumeratorUpdatedEvent ==
  Event("QuorumNumeratorUpdated", <<>>, <<"uint256", "uint256">>)
TimelockChangeEvent ==
  Event("TimelockChange", <<>>, <<"address", "address">>)
VoteCastEvent ==
  Event("VoteCast", <<"address">>,
    <<"uint256", "uint8", "uint256", "string">>)
VoteCastWithParamsEvent ==
  Event("VoteCastWithParams", <<"address">>,
    <<"uint256", "uint8", "uint256", "string", "bytes">>)
VotingDelaySetEvent ==
  Event("VotingDelaySet", <<>>, <<"uint256", "uint256">>)
VotingPeriodSetEvent ==
  Event("VotingPeriodSet", <<>>, <<"uint256", "uint256">>)

-----------------------------------------------------------------------------
(* Custom errors.                                                          *)
CheckpointUnorderedInsertionError ==
  CustomError("CheckpointUnorderedInsertion", "0x2520601d", <<>>)
FailedCallError == CustomError("FailedCall", "0xd6bda275", <<>>)
GovernorAlreadyCastVoteError ==
  CustomError("GovernorAlreadyCastVote", "0x71c6af49", <<"address">>)
GovernorAlreadyQueuedProposalError ==
  CustomError("GovernorAlreadyQueuedProposal", "0xf20e7d37", <<"uint256">>)
GovernorDisabledDepositError ==
  CustomError("GovernorDisabledDeposit", "0xe90a651e", <<>>)
GovernorInsufficientProposerVotesError ==
  CustomError("GovernorInsufficientProposerVotes", "0xc242ee16",
    <<"address", "uint256", "uint256">>)
GovernorInvalidProposalLengthError ==
  CustomError("GovernorInvalidProposalLength", "0x447b05d0",
    <<"uint256", "uint256", "uint256">>)
GovernorInvalidQuorumFractionError ==
  CustomError("GovernorInvalidQuorumFraction", "0x243e5445",
    <<"uint256", "uint256">>)
GovernorInvalidSignatureError ==
  CustomError("GovernorInvalidSignature", "0x94ab6c07", <<"address">>)
GovernorInvalidVoteParamsError ==
  CustomError("GovernorInvalidVoteParams", "0x867db771", <<>>)
GovernorInvalidVoteTypeError ==
  CustomError("GovernorInvalidVoteType", "0x06b337c2", <<>>)
GovernorInvalidVotingPeriodError ==
  CustomError("GovernorInvalidVotingPeriod", "0xf1cfbf05", <<"uint256">>)
GovernorNonexistentProposalError ==
  CustomError("GovernorNonexistentProposal", "0x6ad06075", <<"uint256">>)
GovernorNotQueuedProposalError ==
  CustomError("GovernorNotQueuedProposal", "0xd5ddb825", <<"uint256">>)
GovernorOnlyExecutorError ==
  CustomError("GovernorOnlyExecutor", "0x47096e47", <<"address">>)
GovernorQueueNotImplementedError ==
  CustomError("GovernorQueueNotImplemented", "0x90884a46", <<>>)
GovernorRestrictedProposerError ==
  CustomError("GovernorRestrictedProposer", "0xd9b39557", <<"address">>)
GovernorUnableToCancelError ==
  CustomError("GovernorUnableToCancel", "0x8fe5d8a9",
    <<"uint256", "address">>)
GovernorUnexpectedProposalStateError ==
  CustomError("GovernorUnexpectedProposalState", "0x31b75e4d",
    <<"uint256", "uint8", "bytes32">>)
InvalidAccountNonceError ==
  CustomError("InvalidAccountNonce", "0x752d88c0", <<"address", "uint256">>)
InvalidShortStringError ==
  CustomError("InvalidShortString", "0xb3512b0c", <<>>)
SafeCastOverflowedUintDowncastError ==
  CustomError("SafeCastOverflowedUintDowncast", "0x6dfcc650",
    <<"uint8", "uint256">>)
StringTooLongError ==
  CustomError("StringTooLong", "0x305a27a9", <<"string">>)

-----------------------------------------------------------------------------
(* What UnpackError compares the first four bytes of revert data with.     *)
Errors ==
  {CheckpointUnorderedInsertionError, FailedCallError,
   GovernorAlreadyCastVoteError, GovernorAlreadyQueuedProposalError,
   GovernorDisabledDepositError, GovernorInsufficientProposerVotesError,
   GovernorInvalidProposalLengthError, GovernorInvalidQuorumFractionError,
   GovernorInvalidSignatureError, GovernorInvalidVoteParamsError,
   GovernorInvalidVoteTypeError, GovernorInvalidVotingPeriodError,
   GovernorNonexistentProposalError, GovernorNotQueuedProposalError,
   GovernorOnlyExecutorError, GovernorQueueNotImplementedError,
   GovernorRestrictedProposerError, GovernorUnableToCancelError,
   GovernorUnexpectedProposalStateError, InvalidAccountNonceError,
   InvalidShortStringError, SafeCastOverflowedUintDowncastError,
   StringTooLongError}

(* The rest of the parsed ABI that the binding holds.                      *)
Methods ==
  {BALLOTTYPEHASH, CLOCKMODE, COUNTINGMODE, EXTENDEDBALLOTTYPEHASH, Cancel,
   CastVote, CastVoteBySig, CastVoteWithReason, CastVoteWithReasonAndParams,
   CastVoteWithReasonAndParamsBySig, Clock, Eip712Domain, Execute,
   GetProposalId, GetVotes, GetVotesWithParams, HasVoted, HashProposal,
   Name, Nonces, OnERC1155BatchReceived, OnERC1155Received,
   OnERC721Received, ProposalDeadline, ProposalEta, ProposalNeedsQueuing,
   ProposalProposer, ProposalSnapshot, ProposalThreshold, ProposalVotes,
   Propose, Queue, Quorum, QuorumDenominator, QuorumNumerator,
   QuorumNumerator0, Relay, SetProposalThreshold, SetVotingDelay,
   SetVotingPeriod, State, SupportsInterface, Timelock, Token,
   UpdateQuorumNumerator, UpdateTimelock, Version, VotingDelay,
   VotingPeriod}

Events ==
  {EIP712DomainChangedEvent, ProposalCanceledEvent, ProposalCreatedEvent,
   ProposalExecutedEvent, ProposalQueuedEvent, ProposalThresholdSetEvent,
   QuorumNumeratorUpdatedEvent, TimelockChangeEvent, VoteCastEvent,
   VoteCastWithParamsEvent, VotingDelaySetEvent, VotingPeriodSetEvent}
=============================================================================

-------------------------------- MODULE Cert --------------------------------
(***************************************************************************)
(* The certificates the DAO governs, dao/lib/contracts/Cert.sol: a record  *)
(* per certificate number, written by the contract's owner only.  The      *)
(* record's four strings are one value of Certificate.                     *)
(***************************************************************************)
EXTENDS Chain

CONSTANTS
  CertId,       \* certificate numbers
  Certificate,  \* what issue can write
  NoCert        \* the empty record of a number never issued

ASSUME CertConstants == NoCert \notin Certificate

VARIABLES
  certificates,  \* [CertId -> Certificate or NoCert]
  certOwner      \* Ownable

certVars == <<certificates, certOwner>>

CertInit ==
  /\ certificates = [id \in CertId |-> NoCert]
  /\ certOwner = TimeLockAddress

(* Mutant: issue without onlyOwner.                                        *)
IssueByAnyone(caller, id, certificate) ==
  /\ certificates' = [certificates EXCEPT ![id] = certificate]
  /\ UNCHANGED certOwner

Issue(caller, id, certificate) ==
  /\ caller = certOwner
  /\ certificates' = [certificates EXCEPT ![id] = certificate]
  /\ UNCHANGED certOwner

(* transferOwnership, and renounceOwnership when the new owner is Zero.    *)
TransferCertOwnership(caller, to) ==
  /\ caller = certOwner
  /\ certOwner' = to
  /\ UNCHANGED certificates

(* Calls of accounts; the timelock's calls are part of its operations.     *)
CertStep ==
  \/ \E caller \in Account, id \in CertId, c \in Certificate : Issue(caller, id, c)
  \/ \E caller \in Account, to \in Account \cup {Zero, TimeLockAddress} :
       TransferCertOwnership(caller, to)

(* The certificates and the owner have the types the contract declares.    *)
CertTypeOK ==
  /\ certificates \in [CertId -> Certificate \cup {NoCert}]
  /\ certOwner \in Account \cup {Zero, TimeLockAddress}
=============================================================================

---------------------------- MODULE MCMyGovernor ----------------------------
(* Model values and bounds for the composed DAO.  The model values are     *)
(* declared here so that the calls of the proposals can name them.         *)
EXTENDS MyGovernor

CONSTANTS alice, bob, p1, p2, id1, gold, silver

issue == [kind |-> "issue", id |-> id1, certificate |-> gold]
giveAway == [kind |-> "transferOwnership", to |-> alice]

(* One proposal issues a certificate and takes a role from the deployer.   *)
IssueAndRevoke ==
  [op \in {p1} |->
     [cert |-> issue, self |-> [kind |-> "revokeRole", role |-> "EXECUTOR", who |-> alice]]]

(* One proposal issues a certificate and does away with the delay, the     *)
(* other gives the certificates away and lets alice cancel operations.     *)
IssueOrGiveAway ==
  [op \in {p1, p2} |->
     IF op = p1
     THEN [cert |-> issue, self |-> [kind |-> "updateDelay", delay |-> 0]]
     ELSE [cert |-> giveAway,
           self |-> [kind |-> "grantRole", role |-> "CANCELLER", who |-> alice]]]
=============================================================================

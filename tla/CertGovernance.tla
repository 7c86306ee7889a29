--------------------------- MODULE CertGovernance ---------------------------
(***************************************************************************)
(* What the DAO promises, without tokens, blocks, delays or roles: each    *)
(* proposal goes through the stages of its life in order, and once the     *)
(* DAO is sovereign -- nobody but the governor can act through the         *)
(* timelock, and the timelock owns the certificates -- a certificate is    *)
(* written exactly when a proposal that won its vote is carried out.       *)
(***************************************************************************)

CONSTANTS Proposal, Op, Batch, CertId, Certificate, NoCert

VARIABLES
  stage,         \* [Proposal -> Stage]
  certificates,  \* [CertId -> Certificate or NoCert]
  sovereign      \* whether only votes decide

Stage == {"Nonexistent", "Pending", "Active", "Canceled", "Defeated",
          "Succeeded", "Queued", "Executed"}

(* The ways of a proposal while it is deliberated on ...                   *)
Deliberation == {<<"Nonexistent", "Pending">>,
                 <<"Pending", "Canceled">>, <<"Pending", "Active">>,
                 <<"Active", "Defeated">>, <<"Active", "Succeeded">>,
                 <<"Succeeded", "Queued">>}

(* ... and those that others can send a queued proposal on: to execute it, *)
(* to cancel it, and to schedule anew what was cancelled.                  *)
Intervention == {<<"Queued", "Executed">>, <<"Queued", "Canceled">>,
                 <<"Canceled", "Queued">>}

Move(ways) ==
  /\ stage' \in [Proposal -> Stage]
  /\ \A p \in Proposal : stage'[p] = stage[p] \/ <<stage[p], stage'[p]>> \in ways

PromiseInit ==
  /\ stage = [p \in Proposal |-> "Nonexistent"]
  /\ certificates = [id \in CertId |-> NoCert]
  /\ sovereign = FALSE

Deliberate ==
  /\ Move(Deliberation)
  /\ certificates' = certificates
  /\ sovereign' \in {sovereign, TRUE}

(* Carrying out a proposal does what it says.  The vote can end the DAO's  *)
(* sovereignty, by giving the certificates or a role away, and by taking   *)
(* the last role from somebody it can complete it.                         *)
CarryOut(p) ==
  /\ stage[p] \in {"Succeeded", "Queued"}
  /\ stage' = [stage EXCEPT ![p] = "Executed"]
  /\ \/ /\ Batch[p].cert.kind = "issue"
        /\ certificates' = [certificates EXCEPT ![Batch[p].cert.id] = Batch[p].cert.certificate]
     \/ /\ Batch[p].cert.kind # "issue"
        /\ certificates' = certificates
  /\ \/ sovereign' = sovereign
     \/ /\ Batch[p].cert.kind = "transferOwnership" \/ Batch[p].self.kind = "grantRole"
        /\ sovereign' = FALSE
     \/ /\ Batch[p].self.kind = "revokeRole"
        /\ sovereign' = TRUE

(* Until the DAO is sovereign others may write certificates too.           *)
Intervene ==
  /\ ~sovereign
  /\ Move(Intervention)
  /\ certificates' \in [CertId -> Certificate \cup {NoCert}]
  /\ sovereign' \in BOOLEAN

PromiseNext == Deliberate \/ Intervene \/ \E p \in Proposal : CarryOut(p)

PromiseSpec ==
  PromiseInit /\ [][PromiseNext]_<<stage, certificates, sovereign>>
=============================================================================

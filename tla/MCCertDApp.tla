----------------------------- MODULE MCCertDApp -----------------------------
(* Model values and bounds for the certificate application.                *)
EXTENDS CertDApp

CONSTANTS id0, id1, blank, gold, none, chemistry

(* The form's fields are empty to begin with.                              *)
CoursesOf == [c \in {blank, gold} |-> IF c = gold THEN chemistry ELSE none]

OneIssue == {[id |-> id1, certificate |-> gold]}

(* About what the requests issue, and about what the blank form issues.    *)
Asked ==
  {[kind |-> "certificate", id |-> id1],
   [kind |-> "events", course |-> chemistry], [kind |-> "events", course |-> none]}
=============================================================================

------------------------------- MODULE Scanner -------------------------------
(***************************************************************************)
(* env-scanner.sh: a loop over a list of tools that counts those it finds, *)
(* and a summary.  The script runs under `set -e', and a command           *)
(* ((counter++)) has the truth value of the counter before it was          *)
(* incremented as its exit status.                                         *)
(***************************************************************************)
EXTENDS Integers

CONSTANT Total  \* the tools in the list, 7, at least one

VARIABLES
  present,    \* the tools that are installed
  installed,  \* local installed
  total,      \* local total
  scanned,    \* how many tools have been scanned and printed
  at,         \* "check", "count" or "total" in the loop; "summary", "aborted"
  summary     \* what the summary says, or "none"

vars == <<present, installed, total, scanned, at, summary>>

Init ==
  /\ present \in SUBSET (1 .. Total)
  /\ installed = 0
  /\ total = 0
  /\ scanned = 0
  /\ at = "check"
  /\ summary = "none"

(* if check_tool: a condition, where errexit is suspended.                 *)
CheckTool ==
  /\ at = "check" /\ scanned < Total
  /\ scanned' = scanned + 1
  /\ at' = IF scanned + 1 \in present THEN "count" ELSE "total"
  /\ UNCHANGED <<present, installed, total, summary>>

(* ((installed++)) *)
CountInstalled ==
  /\ at = "count"
  /\ installed' = installed + 1
  /\ at' = IF installed = 0 THEN "aborted" ELSE "total"
  /\ UNCHANGED <<present, total, scanned, summary>>

(* ((total++)) *)
CountTool ==
  /\ at = "total"
  /\ total' = total + 1
  /\ at' = IF total = 0 THEN "aborted" ELSE "check"
  /\ UNCHANGED <<present, installed, scanned, summary>>

Summary ==
  /\ at = "check" /\ scanned = Total
  /\ at' = "summary"
  /\ LET percentage == (installed * 100) \div total
     IN summary' = IF percentage = 100 THEN "All tools ready"
                   ELSE IF percentage >= 75 THEN "Almost there"
                   ELSE "Setup incomplete"
  /\ UNCHANGED <<present, installed, total, scanned>>

Next == CheckTool \/ CountInstalled \/ CountTool \/ Summary

Spec == Init /\ [][Next]_vars

(* The script checks the toolchain ("Checks your toolchain with style"):   *)
(* it does not stop before it has looked at every tool.                    *)
EveryToolIsScanned == at \in {"summary", "aborted"} => scanned = Total
=============================================================================

----------------------------- MODULE Diagnostics -----------------------------
(***************************************************************************)
(* json-rpc/eth-diagnostics.sh: a list of checks, each one a request to an *)
(* Ethereum node that is tried up to MaxRetries times and then reported on *)
(* a line of its own, and a summary at the end.  The checks run one after  *)
(* the other or, with --parallel, each in a background job.                *)
(*                                                                         *)
(* The script runs under `set -e'.  Bash suspends it for a function called *)
(* as the condition of an `if', as the sequential mode does, but not in a  *)
(* background job nor at a `wait'.  A request is made in a command         *)
(* substitution, a process of its own: killing the job that waits for it   *)
(* does not kill it, and it goes on asking and logging.  In sequence the   *)
(* script does not end before a substitution it waits for.                 *)
(***************************************************************************)
EXTENDS Integers, Sequences, Functions

CONSTANTS
  Checks,      \* the sequence of checks, a part of the script's nine
  MaxRetries   \* MAX_RETRIES, 3

AllChecks == {"get_client_version", "get_network_info", "get_listening_status",
              "get_peer_count", "get_chain_id", "get_gas_price",
              "get_accounts", "get_block_number", "get_latest_block"}

ASSUME DiagnosticsConstants ==
  /\ Checks \in Seq(AllChecks)
  /\ IsInjective(Checks)
  /\ MaxRetries \in Nat \ {0}

Check == Range(Checks)

(* Checks that store the answer first and look at the exit code then, and  *)
(* checks that succeed even when they have failed.                         *)
Probing == {"get_listening_status", "get_peer_count"}
Forgiving == {"get_client_version", "get_network_info", "get_listening_status"}

VARIABLES
  mode,     \* "sequential" or "parallel"
  script,   \* "checking", "waiting" for jobs; or over: "ended" with the
            \* summary, "aborted" by errexit, "interrupted" by a signal
  next,     \* index of the check to start or to wait for
  phase,    \* [Check -> "idle", "request", "answered" or "exited"]
  attempt,  \* [Check -> 1 .. MaxRetries]
  answer,   \* [Check -> what req_handler returned, or "none"]
  line,     \* [Check -> what the check has reported on stdout]
  logged,   \* [Check -> number of lines it has logged on stderr, those
            \* of level DEBUG left out]
  code,     \* [Check -> exit code]
  killed    \* checks that ended with the script

checkVars == <<phase, attempt, answer, line, logged, code>>
vars == <<mode, script, next, checkVars, killed>>

Init ==
  /\ mode \in {"sequential", "parallel"}
  /\ script = "checking"
  /\ next = 1
  /\ phase = [c \in Check |-> "idle"]
  /\ attempt = [c \in Check |-> 1]
  /\ answer = [c \in Check |-> "none"]
  /\ line = [c \in Check |-> "none"]
  /\ logged = [c \in Check |-> 0]
  /\ code = [c \in Check |-> 0]
  /\ killed = {}

-----------------------------------------------------------------------------
(* One check.                                                              *)

Over == script \in {"ended", "aborted", "interrupted"}

Logs(c, lines) == logged' = [logged EXCEPT ![c] = @ + lines]

(* An error the node answers is logged, unless it is that it does not know *)
(* the method; a failed attempt is logged as such, and that it is tried    *)
(* again or was the last one.                                              *)
LinesOf == [result |-> 0, method_not_found |-> 0, error |-> 1, gave_up |-> 2]

Answers(c, a) ==
  /\ answer' = [answer EXCEPT ![c] = a]
  /\ phase' = [phase EXCEPT ![c] = "answered"]
  /\ Logs(c, LinesOf[a])
  /\ UNCHANGED attempt

(* Mutant: after the last attempt comes the first.                         *)
RetriesForEver(c) ==
  /\ attempt' = [attempt EXCEPT ![c] = (@ % MaxRetries) + 1]
  /\ UNCHANGED <<phase, answer, logged>>

Retries(c) ==
  /\ attempt[c] < MaxRetries
  /\ attempt' = [attempt EXCEPT ![c] = @ + 1]
  /\ Logs(c, 2)
  /\ UNCHANGED <<phase, answer>>

(* Mutant: an error the node answered is tried again like a lost request.  *)
AttemptRetryingErrors(c) ==
  /\ phase[c] = "request" /\ (Over => mode = "parallel")
  /\ \/ \E a \in {"result", "method_not_found"} : Answers(c, a)
     \/ /\ attempt[c] < MaxRetries
        /\ attempt' = [attempt EXCEPT ![c] = @ + 1]
        /\ answer' = [answer EXCEPT ![c] = "error"]
        /\ Logs(c, 2)
        /\ UNCHANGED phase
     \/ Retries(c)
     \/ attempt[c] = MaxRetries /\ Answers(c, "gave_up")
  /\ UNCHANGED <<mode, script, next, line, code, killed>>

(* req_handler, one turn of its loop: the node answers with a result or a  *)
(* JSON-RPC error, which is returned; or with a bad status, a bad body or  *)
(* not at all within the timeout, which is tried again.                    *)
Attempt(c) ==
  /\ phase[c] = "request" /\ (Over => mode = "parallel")
  /\ \/ \E a \in {"result", "method_not_found", "error"} : Answers(c, a)
     \/ Retries(c)
     \/ attempt[c] = MaxRetries /\ Answers(c, "gave_up")
  /\ UNCHANGED <<mode, script, next, line, code, killed>>

Exits(c, text, status) ==
  /\ line' = [line EXCEPT ![c] = text]
  /\ code' = [code EXCEPT ![c] = status]
  /\ phase' = [phase EXCEPT ![c] = "exited"]

(* `body=$(req_handler "$req")' with errexit in force: the job is over     *)
(* before it can look at the exit code.                                    *)
ExitsAtOnce(c) ==
  mode = "parallel" /\ c \in Probing /\ answer[c] # "result"

(* The rest of a get_ function: what it makes of the answer.               *)
Report(c) ==
  /\ phase[c] = "answered"
  /\ c \notin killed
  /\ \/ ExitsAtOnce(c) /\ Exits(c, "none", 1)
     \/ answer[c] = "result" /\ Exits(c, "ok", 0)
     \/ /\ ~ExitsAtOnce(c)
        /\ c \in Probing /\ answer[c] = "method_not_found"
        /\ Exits(c, "N/A (dev node)", 0)
     \/ /\ ~ExitsAtOnce(c)
        /\ answer[c] \in {"error", "gave_up"} \cup
                         (IF c \in Probing THEN {} ELSE {"method_not_found"})
        /\ Exits(c, "Failed", IF c \in Forgiving THEN 0 ELSE 1)
  /\ UNCHANGED <<mode, script, next, attempt, answer, logged, killed>>

-----------------------------------------------------------------------------
(* execute_diagnostics                                                     *)

Starts(c) ==
  /\ phase' = [phase EXCEPT ![c] = "request"]
  /\ next' = next + 1
  /\ UNCHANGED <<mode, script, attempt, answer, line, logged, code, killed>>

(* Mutant: the jobs are not killed.                                        *)
EndsWithoutCleanup(how) ==
  /\ script' = how
  /\ killed' = {c \in Check : mode = "sequential" /\ phase[c] # "exited"}
  /\ UNCHANGED <<mode, next, checkVars>>

(* Where the script ends cleanup kills the jobs that are left; in sequence *)
(* a check is a function of the script itself.                             *)
Ends(how) ==
  /\ script' = how
  /\ killed' = {c \in Check : phase[c] # "exited"}
  /\ UNCHANGED <<mode, next, checkVars>>

Previous == Checks[next - 1]

(* Mutant: a function that fails ends the script here too.                 *)
RunSequentiallyUnguarded ==
  /\ mode = "sequential" /\ script = "checking"
  /\ next > 1 => phase[Previous] = "exited"
  /\ \/ next > 1 /\ code[Previous] = 1 /\ Ends("aborted")
     \/ next <= Len(Checks) /\ (next > 1 => code[Previous] = 0) /\ Starts(Checks[next])
     \/ next > Len(Checks) /\ Ends("ended")

(* if ! $func: the next one when the one before has returned, whatever it  *)
(* returned.                                                               *)
RunSequentially ==
  /\ mode = "sequential" /\ script = "checking"
  /\ next > 1 => phase[Previous] = "exited"
  /\ \/ next <= Len(Checks) /\ Starts(Checks[next])
     \/ next > Len(Checks) /\ Ends("ended")

(* $func &                                                                 *)
Launch ==
  /\ mode = "parallel" /\ script = "checking"
  /\ \/ next <= Len(Checks) /\ Starts(Checks[next])
     \/ /\ next > Len(Checks)
        /\ script' = "waiting"
        /\ next' = 1
        /\ UNCHANGED <<mode, checkVars, killed>>

(* Mutant: the jobs are not waited for.                                    *)
WaitForNothing == script = "waiting" /\ Ends("ended")

(* wait "$pid", which fails as the job has failed, and with it the script. *)
Wait ==
  /\ script = "waiting"
  /\ \/ /\ next <= Len(Checks)
        /\ phase[Checks[next]] = "exited"
        /\ \/ /\ code[Checks[next]] = 0
              /\ next' = next + 1
              /\ UNCHANGED <<mode, script, checkVars, killed>>
           \/ code[Checks[next]] = 1 /\ Ends("aborted")
     \/ next > Len(Checks) /\ Ends("ended")

(* trap ... INT TERM                                                       *)
Interrupt == ~Over /\ Ends("interrupted")

Next ==
  \/ RunSequentially \/ Launch \/ Wait \/ Interrupt
  \/ \E c \in Check : Attempt(c) \/ Report(c)

Spec == Init /\ [][Next]_vars

(* Every request ends, for curl has a time limit, and the shell goes on.   *)
FairSpec ==
  /\ Spec
  /\ WF_vars(RunSequentially) /\ WF_vars(Launch) /\ WF_vars(Wait)
  /\ \A c \in Check : WF_vars(Attempt(c)) /\ WF_vars(Report(c))

-----------------------------------------------------------------------------
(* When the summary is printed every check has printed its line, in both   *)
(* modes and however the node answered.                                    *)
SummaryMeansAllReported ==
  script = "ended" => \A c \in Check : phase[c] = "exited" /\ line[c] # "none"

(* When the script is over no check reports any more, for cleanup kills    *)
(* the jobs.  What is still printed is the log of requests that killed     *)
(* jobs of the parallel mode have left under way, and of nothing else.     *)
ReportsEndWithScript ==
  [][Over => /\ line' = line
             /\ \A c \in Check : logged'[c] # logged[c] =>
                  mode = "parallel" /\ c \in killed /\ phase[c] = "request"]_vars

(* What the node has answered is not asked again, be it an error; only     *)
(* requests that were not answered are repeated.                           *)
AnswerIsFinal ==
  [][\A c \in Check : answer[c] # "none" =>
       answer'[c] = answer[c] /\ attempt'[c] = attempt[c]]_vars

(* In sequence the summary is always reached, whatever fails, unless the   *)
(* script is interrupted.                                                  *)
SequentialReachesSummary ==
  mode = "sequential" => <>(script \in {"ended", "interrupted"})

(* The script ends in both modes, also on a node that never answers.       *)
AlwaysEnds == <>Over

(* A listening status that cannot be had does not end the script ("Don't   *)
(* exit the script, continue with other checks").                          *)
ListeningFailureIsHarmless ==
  script = "aborted" =>
    \E c \in Check \ {"get_listening_status"} : phase[c] = "exited" /\ code[c] = 1
=============================================================================

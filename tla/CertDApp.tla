------------------------------ MODULE CertDApp ------------------------------
(***************************************************************************)
(* The certificate application: the server of dapp-server-side, with its   *)
(* /issue, /fetch and /events and the program that listens for events, and *)
(* the page of dapp-client-side, which issues and reads certificates       *)
(* through the user's wallet.  Only one account may issue, so the server   *)
(* and the wallet send their transactions from the same.                   *)
(*                                                                         *)
(* Every await is a step of its own, between which anything may happen:    *)
(* other requests, keys typed into the form, blocks.                       *)
(***************************************************************************)
EXTENDS Naturals, SequencesExt

CONSTANTS
  Post,         \* POST requests to /issue
  Submit,       \* submissions of the page's form
  Reader,       \* GET requests to /fetch and /events, queries of the page
  Id,           \* certificate numbers
  Certificate,  \* what is certified
  Course,       \* courses
  CourseOf,     \* [Certificate -> Course]
  BlankId,      \* 0, in the form that is reset
  Blank,        \* all fields empty, in the form and in a new contract
  Requested,    \* what the POST requests ask to be issued
  Question,     \* what readers ask for
  Fee           \* fees a transaction may offer

Issue == [id : Id, certificate : Certificate]

ASSUME DAppConstants ==
  /\ Post \cap Submit = {}
  /\ IsFiniteSet(Post \cup Submit)
  /\ CourseOf \in [Certificate -> Course]
  /\ BlankId \in Id /\ Blank \in Certificate
  /\ Requested \subseteq Issue
  /\ Question \subseteq [kind : {"certificate"}, id : Id] \cup
                         [kind : {"events"}, course : Course]
  /\ Fee \subseteq Nat

Job == Post \cup Submit

NoCourse == CourseOf[Blank]

ASSUME AnswersDiffer == Job \cap {"none", "refused", "unsure"} = {}

VARIABLES
  txs,       \* the account's transactions by nonce, the last of each
  mined,     \* how many of them are in blocks
  form,      \* the page's form
  job,       \* [Job -> the state of its handler]
  reader,    \* [Reader -> the state of its handler]
  listener   \* the program that listens, and what it has shown

chainVars == <<txs, mined>>
vars == <<txs, mined, form, job, reader, listener>>

BlankForm == [id |-> BlankId, certificate |-> Blank]

NewJob == [stage |-> "idle", asked |-> BlankForm, nonce |-> 0, fee |-> 0, answer |-> "none"]

NewReader == [stage |-> "idle", what |-> [kind |-> "none"], known |-> {}, value |-> "none"]

(* `from' is how many events there had been when it started to listen.     *)
NewListener == [state |-> "down", from |-> 0, pipe |-> <<>>, shown |-> <<>>]

Init ==
  /\ txs = <<>> /\ mined = 0
  /\ form = BlankForm
  /\ job = [j \in Job |-> NewJob]
  /\ reader = [r \in Reader |-> NewReader]
  /\ listener = NewListener

-----------------------------------------------------------------------------
(* Issuing, by the server and by the page.                                 *)

(* A request arrives at /issue.                                            *)
CallPost(j, issue) ==
  /\ job[j].stage = "idle"
  /\ job' = [job EXCEPT ![j] = [@ EXCEPT !.stage = "called", !.asked = issue]]
  /\ UNCHANGED <<chainVars, form, reader, listener>>

(* handleSubmit has the form as it is at this moment in its closure.       *)
CallSubmit(j) ==
  /\ job[j].stage = "idle"
  /\ job' = [job EXCEPT ![j] = [@ EXCEPT !.stage = "called", !.asked = form]]
  /\ UNCHANGED <<chainVars, form, reader, listener>>

(* The transaction gets the first nonce that is free now, and the fee the  *)
(* network asks for now.                                                   *)
Prepare(j, fee) ==
  /\ job[j].stage = "called"
  /\ job' = [job EXCEPT ![j] =
               [@ EXCEPT !.stage = "prepared", !.nonce = Len(txs) + 1, !.fee = fee]]
  /\ UNCHANGED <<chainVars, form, reader, listener>>

Answered(j, answer) ==
  job' = [job EXCEPT ![j] = [@ EXCEPT !.stage = "answered", !.answer = answer]]

(* The wallet is not connected, the user refuses, the node fails, or the   *)
(* call would revert: nothing has been sent.                               *)
FailCall(j) ==
  /\ job[j].stage \in {"called", "prepared"}
  /\ Answered(j, "refused")
  /\ UNCHANGED <<chainVars, form, reader, listener>>

Tx(j, issue) == [by |-> j, issue |-> issue, fee |-> job[j].fee]

(* The node takes a transaction with the next nonce, or one that pays more *)
(* than the one with its nonce, as long as that waits.                     *)
Accepts(tx, nonce) ==
  \/ nonce = Len(txs) + 1
  \/ mined < nonce /\ nonce <= Len(txs) /\ tx.fee > txs[nonce].fee

Put(tx, nonce) ==
  txs' = [n \in 1 .. Len(txs) \cup {nonce} |-> IF n = nonce THEN tx ELSE txs[n]]

(* The hash is returned, or lost on its way.                               *)
Send(j, issue) ==
  /\ job[j].stage = "prepared"
  /\ Accepts(Tx(j, issue), job[j].nonce)
  /\ Put(Tx(j, issue), job[j].nonce)
  /\ \/ job' = [job EXCEPT ![j].stage = "waiting"]
     \/ Answered(j, "unsure")
  /\ UNCHANGED <<mined, form, reader, listener>>

(* Mutant: the page takes the values from the form when it writes.         *)
WriteWithFormOfNow(j) == Send(j, IF j \in Submit THEN form ELSE job[j].asked)

Write(j) == Send(j, job[j].asked)

(* "nonce too low", "replacement transaction underpriced".                 *)
RefuseWrite(j) ==
  /\ job[j].stage = "prepared"
  /\ ~Accepts(Tx(j, job[j].asked), job[j].nonce)
  /\ Answered(j, "refused")
  /\ UNCHANGED <<chainVars, form, reader, listener>>

(* Page and server go on; the page resets its form.                        *)
Resume(j, answer) ==
  /\ Answered(j, answer)
  /\ form' = IF j \in Submit THEN BlankForm ELSE form
  /\ UNCHANGED <<chainVars, reader, listener>>

(* Mutants: the answer does not wait for the receipt, or does not look     *)
(* whose it is.                                                            *)
AwaitHash(j) ==
  /\ job[j].stage = "waiting"
  /\ Resume(j, txs[job[j].nonce].by)

AwaitBlock(j) ==
  /\ job[j].stage = "waiting"
  /\ job[j].nonce <= mined
  /\ Resume(j, j)

(* waitForTransactionReceipt: where another transaction took the nonce, it *)
(* is that one's receipt.                                                  *)
AwaitReceipt(j) ==
  /\ job[j].stage = "waiting"
  /\ job[j].nonce <= mined
  /\ Resume(j, txs[job[j].nonce].by)

(* Mutant: it waits for ever.                                              *)
NeverTimeOut(j) == job[j].stage = "waiting" /\ UNCHANGED vars

(* It gives up after three minutes.                                        *)
TimeOut(j) ==
  /\ job[j].stage = "waiting"
  /\ Answered(j, "unsure")
  /\ UNCHANGED <<chainVars, form, reader, listener>>

-----------------------------------------------------------------------------
(* The page's form.                                                        *)

(* handleChange: one field changes at a time.                              *)
Type ==
  /\ \/ \E id \in Id : form' = [form EXCEPT !.id = id]
     \/ \E c \in Certificate : form' = [form EXCEPT !.certificate = c]
  /\ UNCHANGED <<chainVars, job, reader, listener>>

ResetForm == form' = BlankForm /\ UNCHANGED <<chainVars, job, reader, listener>>

-----------------------------------------------------------------------------
(* The chain.  Events are emitted in the order of the transactions.        *)

(* A block with some of the waiting transactions.                          *)
Mine ==
  \E count \in mined + 1 .. Len(txs) :
    /\ mined' = count
    /\ listener' = IF listener.state # "up" THEN listener
                   ELSE [listener EXCEPT !.pipe = @ \o SubSeq(txs, mined + 1, count)]
    /\ UNCHANGED <<txs, form, job, reader>>

(* issue overwrites the certificate of that number.                        *)
Stored(id) ==
  LET writes == {n \in 1 .. mined : txs[n].issue.id = id} IN
  IF writes = {} THEN Blank
  ELSE txs[CHOOSE n \in writes : \A m \in writes : m <= n].issue.certificate

(* The requests whose issues emitted an event for the course.              *)
Logged(course) ==
  {txs[n].by : n \in {m \in 1 .. mined : CourseOf[txs[m].issue.certificate] = course}}

(* /events does not look for events without a course, although             *)
(* certificates without one can be issued.                                 *)
EventsFor(course) == {j \in Logged(course) : course # NoCourse}

-----------------------------------------------------------------------------
(* Reading: /fetch and getCertificate ask for a certificate, /events for   *)
(* all events of a course.                                                 *)

(* `known' are the issues whose own receipt had been answered before.      *)
Ask(r, what) ==
  /\ reader[r].stage = "idle"
  /\ reader' = [reader EXCEPT ![r] =
       [stage |-> "asked", what |-> what, value |-> "none",
        known |-> {j \in Job : job[j].answer = j}]]
  /\ UNCHANGED <<chainVars, form, job, listener>>

(* The node reads; createEventFilter has asked for events from the first   *)
(* block on, so it does not matter when getFilterLogs is called after it.  *)
Read(r) ==
  /\ reader[r].stage = "asked"
  /\ LET what == reader[r].what IN
     reader' = [reader EXCEPT ![r] = [@ EXCEPT !.stage = "answered",
       !.value = IF what.kind = "certificate" THEN Stored(what.id) ELSE EventsFor(what.course)]]
  /\ UNCHANGED <<chainVars, form, job, listener>>

(* The node fails, or has forgotten the filter.                            *)
FailRead(r) ==
  /\ reader[r].stage = "asked"
  /\ reader' = [reader EXCEPT ![r] = NewReader]
  /\ UNCHANGED <<chainVars, form, job, listener>>

-----------------------------------------------------------------------------
(* listener.ts: the node pushes the events of new blocks over a websocket, *)
(* one at a time, so that logs[0] is all that onLogs is given.             *)

Listens(l) == listener' = l /\ UNCHANGED <<chainVars, form, job, reader>>

StartListening ==
  /\ listener.state = "down"
  /\ Listens([state |-> "up", from |-> mined, pipe |-> <<>>, shown |-> <<>>])

(* Mutant: the last of the events that have come is shown first.           *)
ShowLast ==
  /\ listener.pipe # <<>>
  /\ Listens([listener EXCEPT !.pipe = Front(@), !.shown = Append(@, Last(listener.pipe))])

(* onLogs.                                                                 *)
Show ==
  /\ listener.pipe # <<>>
  /\ Listens([listener EXCEPT !.pipe = Tail(@), !.shown = Append(@, Head(listener.pipe))])

(* Nobody is told that the connection is lost.                             *)
LoseConnection ==
  /\ listener.state = "up"
  /\ Listens([listener EXCEPT !.state = "deaf", !.pipe = <<>>])

StopListening == listener.state # "down" /\ Listens(NewListener)

-----------------------------------------------------------------------------
Handle(j) ==
  \/ \E fee \in Fee : Prepare(j, fee)
  \/ FailCall(j) \/ Write(j) \/ RefuseWrite(j)
  \/ AwaitReceipt(j) \/ TimeOut(j)

Next ==
  \/ \E j \in Post, issue \in Requested : CallPost(j, issue)
  \/ \E j \in Submit : CallSubmit(j)
  \/ \E j \in Job : Handle(j)
  \/ Type \/ ResetForm
  \/ Mine
  \/ \E r \in Reader : (\E what \in Question : Ask(r, what)) \/ Read(r) \/ FailRead(r)
  \/ StartListening \/ Show \/ LoseConnection \/ StopListening

Spec == Init /\ [][Next]_vars

(* Calls of the node end one way or the other, and waiting for a receipt   *)
(* does, too.  Blocks need not be mined, and the user need never answer    *)
(* the wallet, where writeContract of the page waits without a time-out.   *)
FairSpec ==
  /\ Spec
  /\ \A j \in Post : WF_vars(Handle(j))
  /\ \A j \in Submit : WF_vars(AwaitReceipt(j) \/ TimeOut(j))

-----------------------------------------------------------------------------
Senders == {txs[n].by : n \in DOMAIN txs}

(* What is on its way to the chain or on it was asked for, with the same   *)
(* content, however the form was changed between the submission and the    *)
(* write; and nothing is issued twice for one request, whatever was        *)
(* refused, replaced or given up (/issue, index.ts:11, and handleSubmit).  *)
IssuedAsAsked ==
  /\ \A n \in DOMAIN txs : txs[n].issue = job[txs[n].by].asked
  /\ \A m, n \in DOMAIN txs : txs[m].by = txs[n].by => m = n

(* A request that is answered with its own transaction's receipt has been  *)
(* issued; one answered with another's has not, and never will be, nor one *)
(* that was refused (index.ts:21 and 27).                                  *)
AnswersAreTrue ==
  \A j \in Job :
    /\ job[j].answer \in Job =>
         /\ job[j].nonce <= mined
         /\ txs[job[j].nonce].by = job[j].answer
         /\ job[j].answer # j => j \notin Senders
    /\ job[j].answer = "refused" => j \notin Senders

(* Who asks after a request was answered with its receipt finds what was   *)
(* issued: the certificate, or what overwrote it, and the event, unless it *)
(* was issued without a course (/events answers nothing without one).      *)
ReadsFollowReceipts ==
  \A r \in Reader : reader[r].stage = "answered" =>
    LET what == reader[r].what value == reader[r].value IN
    \A j \in reader[r].known :
      /\ what.kind = "certificate" /\ what.id = job[j].asked.id =>
           \E n \in job[j].nonce .. mined :
             txs[n].issue = [id |-> what.id, certificate |-> value]
      /\ /\ what.kind = "events" /\ what.course # NoCourse
         /\ what.course = CourseOf[job[j].asked.certificate]
         => j \in value

(* The listener shows the events from when it started until its connection *)
(* is lost, each once, in the order of the chain, and none is missing: what *)
(* it has not shown is on its way.                                         *)
ListenerShowsInOrder ==
  LET next == listener.from + Len(listener.shown) IN
  /\ next + Len(listener.pipe) <= mined
  /\ listener.state = "up" => next + Len(listener.pipe) = mined
  /\ \A i \in 1 .. Len(listener.shown) : listener.shown[i] = txs[listener.from + i]
  /\ \A i \in 1 .. Len(listener.pipe) : listener.pipe[i] = txs[next + i]

(* Every POST request is answered, and every submission of the form once   *)
(* the wallet has sent it, even if no block is ever mined (index.ts:21 and *)
(* App.tsx:63).                                                            *)
RequestsAreAnswered ==
  /\ \A j \in Post : job[j].stage = "called" ~> job[j].stage = "answered"
  /\ \A j \in Submit : job[j].stage = "waiting" ~> job[j].stage = "answered"
=============================================================================

--------------------------- MODULE CertDAppProofs ---------------------------
(***************************************************************************)
(* What CertDApp promises of requests, answers and the listener, for any   *)
(* number of requests, submissions, readers, certificates and fees.        *)
(***************************************************************************)
EXTENDS CertDApp, SequenceTheorems, FiniteSums, TLAPS

Answer == Job \cup {"none", "refused", "unsure"}

JobState ==
  [stage : {"idle", "called", "prepared", "waiting", "answered"}, asked : Issue,
   nonce : Nat, fee : Nat, answer : Answer]

TxOf == [by : Job, issue : Issue, fee : Nat]

ListenerState ==
  [state : {"down", "up", "deaf"}, from : Nat, pipe : Seq(TxOf), shown : Seq(TxOf)]

TypeInv ==
  /\ txs \in Seq(TxOf)
  /\ mined \in Nat /\ mined <= Len(txs)
  /\ form \in Issue
  /\ job \in [Job -> JobState]

(* A request sends at most one transaction, with its own nonce; it has     *)
(* sent none before it writes, and none if it was refused.                 *)
JobInv(j) ==
  /\ job[j].stage \in {"idle", "called", "prepared"} =>
       j \notin Senders /\ job[j].answer = "none"
  /\ job[j].stage = "prepared" => job[j].nonce \in 1 .. Len(txs) + 1
  /\ job[j].stage = "waiting" =>
       job[j].nonce \in 1 .. Len(txs) /\ job[j].answer = "none"
  /\ \A n \in DOMAIN txs : txs[n].by = j => job[j].nonce = n /\ txs[n].issue = job[j].asked

AnswerInv(j) ==
  /\ job[j].answer \in Job =>
       /\ job[j].nonce \in 1 .. mined
       /\ txs[job[j].nonce].by = job[j].answer
       /\ job[j].answer # j => j \notin Senders
  /\ job[j].answer = "refused" => j \notin Senders

IInv == TypeInv /\ \A j \in Job : JobInv(j) /\ AnswerInv(j)

LEMMA IInvInit == Init => IInv
  BY DAppConstants, AnswersDiffer DEF Init, IInv, TypeInv, JobInv, AnswerInv, JobState, Answer,
     NewJob, BlankForm, Issue, Senders, TxOf

(* Where neither the transactions nor their senders change, it is enough   *)
(* to look at the request that moves.                                      *)
LEMMA MoveOfOne ==
  ASSUME IInv, NEW j \in Job, txs' = txs, mined' = mined, form' \in Issue,
         NEW s \in JobState, job' = [job EXCEPT ![j] = s],
         (JobInv(j) /\ AnswerInv(j))'
  PROVE  IInv'
<1>1. TypeInv'
  BY DEF IInv, TypeInv
<1>2. ASSUME NEW k \in Job, k # j PROVE (JobInv(k) /\ AnswerInv(k))'
  BY <1>2 DEF IInv, TypeInv, JobInv, AnswerInv, Senders
<1> QED BY <1>1, <1>2 DEF IInv

LEMMA SendStep ==
  ASSUME IInv, NEW j \in Job, Write(j) PROVE IInv'
<1> DEFINE tx == Tx(j, job[j].asked)
           nonce == job[j].nonce
<1>1. /\ job[j] \in JobState /\ job[j].stage = "prepared" /\ j \notin Senders
      /\ job[j].answer = "none" /\ nonce \in 1 .. Len(txs) + 1
  BY DEF IInv, TypeInv, JobInv, Write, Send
<1>2. tx \in TxOf /\ tx.by = j /\ tx.issue = job[j].asked
  BY <1>1 DEF Tx, TxOf, JobState
<1>3. nonce > mined
  BY <1>1 DEF Write, Send, Accepts, IInv, TypeInv
<1>4. txs' = [n \in 1 .. Len(txs) \cup {nonce} |-> IF n = nonce THEN tx ELSE txs[n]]
  BY DEF Write, Send, Put
<1>5. 1 .. Len(txs) \cup {nonce} = 1 .. Len(txs) \/ 1 .. Len(txs) \cup {nonce} = 1 .. Len(txs) + 1
  BY <1>1 DEF IInv, TypeInv
<1>6. /\ txs' \in Seq(TxOf) /\ Len(txs') >= Len(txs) /\ nonce \in 1 .. Len(txs')
      /\ \A n \in 1 .. Len(txs') : txs'[n] = IF n = nonce THEN tx ELSE txs[n]
      /\ \A n \in 1 .. Len(txs') : n # nonce => n \in 1 .. Len(txs)
  <2>1. PICK m \in Nat : /\ 1 .. Len(txs) \cup {nonce} = 1 .. m /\ m >= Len(txs)
                         /\ m = Len(txs) \/ (m = Len(txs) + 1 /\ nonce = m)
    <3>1. Len(txs) \in Nat
      BY DEF IInv, TypeInv
    <3>2. CASE nonce = Len(txs) + 1
      BY <3>1, <3>2
    <3>3. CASE nonce \in 1 .. Len(txs)
      BY <3>1, <3>3
    <3> QED BY <1>1, <3>1, <3>2, <3>3
  <2>2. txs' = [n \in 1 .. m |-> IF n = nonce THEN tx ELSE txs[n]]
    BY <1>4, <2>1
  <2>3. \A n \in 1 .. m : n # nonce => n \in 1 .. Len(txs)
    BY <2>1
  <2>4. \A n \in 1 .. Len(txs) : txs[n] \in TxOf
    BY DEF IInv, TypeInv
  <2>5. txs' \in [1 .. m -> TxOf]
    BY <1>2, <2>2, <2>3, <2>4
  <2>6. txs' \in Seq(TxOf) /\ Len(txs') = m
    BY <2>5, SeqDef, LenProperties
  <2> QED BY <1>1, <2>1, <2>2, <2>3, <2>6
<1>7. \E s \in JobState :
        /\ job' = [job EXCEPT ![j] = s]
        /\ \/ s.stage = "waiting" /\ s.answer = "none"
           \/ s.stage = "answered" /\ s.answer = "unsure"
        /\ s.nonce = nonce /\ s.asked = job[j].asked
  <2>1. CASE job' = [job EXCEPT ![j].stage = "waiting"]
    <3> DEFINE s == [job[j] EXCEPT !.stage = "waiting"]
    <3>1. job' = [job EXCEPT ![j] = s] /\ s \in JobState /\ s.stage = "waiting"
          /\ s.answer = "none" /\ s.nonce = nonce /\ s.asked = job[j].asked
      BY <1>1, <2>1 DEF JobState
    <3> HIDE DEF s
    <3> QED BY <3>1
  <2>2. CASE Answered(j, "unsure")
    <3> DEFINE s == [job[j] EXCEPT !.stage = "answered", !.answer = "unsure"]
    <3>1. job' = [job EXCEPT ![j] = s] /\ s \in JobState /\ s.stage = "answered"
          /\ s.answer = "unsure" /\ s.nonce = nonce /\ s.asked = job[j].asked
      BY <1>1, <2>2 DEF JobState, Answered, Answer
    <3> HIDE DEF s
    <3> QED BY <3>1
  <2> QED BY <2>1, <2>2 DEF Write, Send
<1>8. PICK s \in JobState :
        /\ job' = [job EXCEPT ![j] = s]
        /\ \/ s.stage = "waiting" /\ s.answer = "none"
           \/ s.stage = "answered" /\ s.answer = "unsure"
        /\ s.nonce = nonce /\ s.asked = job[j].asked
  BY <1>7
<1>9. mined' = mined /\ form' = form
  BY DEF Write, Send
<1>10. TypeInv'
  BY <1>6, <1>8, <1>9 DEF IInv, TypeInv
<1>11. (JobInv(j) /\ AnswerInv(j))'
  BY <1>2, <1>6, <1>8, <1>1, AnswersDiffer DEF JobInv, AnswerInv, IInv, TypeInv, Senders
<1>12. ASSUME NEW k \in Job, k # j PROVE (JobInv(k) /\ AnswerInv(k))'
  <2>1. job'[k] = job[k] /\ JobInv(k) /\ AnswerInv(k)
    BY <1>8, <1>12 DEF IInv, TypeInv
  <2>2. k \notin Senders => k \notin Senders'
    BY <1>2, <1>6, <1>12 DEF Senders, IInv, TypeInv
  <2>3. JobInv(k)'
    <3>1. Len(txs) \in Nat /\ Len(txs') \in Nat
      BY <1>6, LenProperties DEF IInv, TypeInv
    <3>2. 1 .. Len(txs) \subseteq 1 .. Len(txs')
          /\ 1 .. Len(txs) + 1 \subseteq 1 .. Len(txs') + 1
      BY <1>6, <3>1
    <3>3. /\ job'[k].stage \in {"idle", "called", "prepared"} =>
               k \notin Senders' /\ job'[k].answer = "none"
          /\ job'[k].stage = "prepared" => job'[k].nonce \in 1 .. Len(txs') + 1
          /\ job'[k].stage = "waiting" =>
               job'[k].nonce \in 1 .. Len(txs') /\ job'[k].answer = "none"
      BY <2>1, <2>2, <3>2 DEF JobInv
    <3>4. ASSUME NEW n \in DOMAIN txs', txs'[n].by = k
          PROVE  job'[k].nonce = n /\ txs'[n].issue = job'[k].asked
      <4>1. n \in 1 .. Len(txs')
        BY <1>6, LenProperties
      <4>2. n # nonce
        BY <1>2, <1>6, <1>12, <3>4, <4>1
      <4>3. txs'[n] = txs[n] /\ n \in DOMAIN txs
        BY <1>6, <4>1, <4>2, LenProperties DEF IInv, TypeInv
      <4> QED BY <2>1, <3>4, <4>3 DEF JobInv
    <3> QED BY <3>3, <3>4 DEF JobInv
  <2>4. job[k].answer \in Job => job[k].nonce # nonce /\ job[k].nonce \in 1 .. Len(txs')
    BY <1>3, <1>6, <2>1 DEF AnswerInv, IInv, TypeInv, JobState
  <2>5. AnswerInv(k)'
    BY <1>6, <1>9, <2>1, <2>2, <2>4 DEF AnswerInv
  <2> QED BY <2>3, <2>5
<1> QED BY <1>10, <1>11, <1>12 DEF IInv

LEMMA SendersAreJobs ==
  ASSUME IInv, NEW n \in 1 .. Len(txs) PROVE txs[n] \in TxOf /\ txs[n].by \in Job
<1>1. txs[n] \in TxOf
  BY ElementOfSeq DEF IInv, TypeInv
<1> QED BY <1>1 DEF TxOf

LEMMA HandleStep ==
  ASSUME IInv, NEW j \in Job, Handle(j) PROVE IInv'
<1>0. job[j] \in JobState /\ JobInv(j) /\ AnswerInv(j)
  BY DEF IInv, TypeInv
<1>1. ASSUME NEW fee \in Fee, Prepare(j, fee) PROVE IInv'
  <2> DEFINE s == [job[j] EXCEPT !.stage = "prepared", !.nonce = Len(txs) + 1, !.fee = fee]
  <2>0. Len(txs) + 1 \in Nat /\ fee \in Nat
    BY DAppConstants DEF IInv, TypeInv
  <2>1. s \in JobState /\ job' = [job EXCEPT ![j] = s]
    BY <1>0, <1>1, <2>0 DEF Prepare, JobState
  <2>2. txs' = txs /\ mined' = mined /\ form' \in Issue
    BY <1>1 DEF Prepare, chainVars, IInv, TypeInv
  <2>3. job'[j] = s /\ job[j].stage = "called"
    BY <1>1, <2>1 DEF Prepare, IInv, TypeInv
  <2>4. (JobInv(j) /\ AnswerInv(j))'
    BY <1>0, <2>2, <2>3, AnswersDiffer DEF JobInv, AnswerInv, Senders, JobState, IInv, TypeInv
  <2> QED BY <2>1, <2>2, <2>4, MoveOfOne
<1>2. ASSUME NEW a \in Answer, Answered(j, a), txs' = txs, mined' = mined, form' \in Issue,
             \/ a = "refused" /\ job[j].stage \in {"called", "prepared"}
             \/ a = "unsure"
             \/ /\ job[j].stage = "waiting" /\ job[j].nonce <= mined
                /\ a = txs[job[j].nonce].by
      PROVE  IInv'
  <2> DEFINE s == [job[j] EXCEPT !.stage = "answered", !.answer = a]
  <2>1. s \in JobState /\ job' = [job EXCEPT ![j] = s]
    BY <1>0, <1>2 DEF Answered, JobState
  <2>2. job'[j] = s
    BY <2>1 DEF IInv, TypeInv
  <2>3. s.stage = "answered" /\ s.answer = a /\ s.nonce = job[j].nonce /\ s.asked = job[j].asked
    BY <1>0 DEF JobState
  <2>4. JobInv(j)'
    BY <1>0, <1>2, <2>2, <2>3 DEF JobInv
  <2>5. AnswerInv(j)'
    <3>1. CASE a = "refused" /\ job[j].stage \in {"called", "prepared"}
      BY <1>0, <1>2, <2>2, <2>3, <3>1, AnswersDiffer DEF JobInv, AnswerInv, Senders
    <3>2. CASE a = "unsure"
      BY <2>2, <2>3, <3>2, AnswersDiffer DEF AnswerInv
    <3>3. CASE /\ job[j].stage = "waiting" /\ job[j].nonce <= mined
               /\ a = txs[job[j].nonce].by
      <4>0. job[j].nonce \in 1 .. Len(txs) /\ job[j].nonce \in 1 .. mined
        BY <1>0, <3>3 DEF JobInv, IInv, TypeInv
      <4>1. a \in Job
        BY <3>3, <4>0, SendersAreJobs
      <4>2. a # j => j \notin Senders
        BY <1>0, <3>3 DEF JobInv, Senders
      <4> QED BY <1>2, <2>2, <2>3, <3>3, <4>0, <4>1, <4>2, AnswersDiffer DEF AnswerInv, Senders
    <3> QED BY <1>2, <3>1, <3>2, <3>3
  <2> QED BY <1>2, <2>1, <2>4, <2>5, MoveOfOne
<1>3. CASE FailCall(j) \/ RefuseWrite(j)
  BY <1>2, <1>3 DEF FailCall, RefuseWrite, chainVars, IInv, TypeInv, Answer
<1>4. CASE TimeOut(j)
  BY <1>2, <1>4 DEF TimeOut, chainVars, IInv, TypeInv, Answer
<1>5. CASE AwaitReceipt(j)
  <2>0. job[j].nonce \in 1 .. Len(txs)
    BY <1>0, <1>5 DEF AwaitReceipt, JobInv
  <2>1. txs[job[j].nonce].by \in Answer
    BY <2>0, SendersAreJobs DEF Answer
  <2>2. form' \in Issue
    BY <1>5, DAppConstants DEF AwaitReceipt, Resume, BlankForm, Issue, IInv, TypeInv
  <2> QED BY <1>2, <1>5, <2>1, <2>2 DEF AwaitReceipt, Resume, chainVars
<1> QED BY <1>1, <1>3, <1>4, <1>5, SendStep DEF Handle

LEMMA CallStep ==
  ASSUME IInv, NEW j \in Job, NEW issue \in Issue, job[j].stage = "idle",
         job' = [job EXCEPT ![j] = [@ EXCEPT !.stage = "called", !.asked = issue]],
         UNCHANGED <<chainVars, form>>
  PROVE  IInv'
<1> DEFINE s == [job[j] EXCEPT !.stage = "called", !.asked = issue]
<1>1. job[j] \in JobState /\ JobInv(j) /\ AnswerInv(j)
  BY DEF IInv, TypeInv
<1>2. s \in JobState /\ job' = [job EXCEPT ![j] = s] /\ job'[j] = s
  BY <1>1 DEF JobState, IInv, TypeInv
<1>3. s.stage = "called" /\ s.answer = "none"
  BY <1>1 DEF JobState, JobInv
<1>4. txs' = txs /\ mined' = mined /\ form' \in Issue
  BY DEF chainVars, IInv, TypeInv
<1>5. (JobInv(j) /\ AnswerInv(j))'
  BY <1>1, <1>2, <1>3, <1>4, AnswersDiffer DEF JobInv, AnswerInv, Senders
<1> QED BY <1>2, <1>4, <1>5, MoveOfOne

LEMMA MineStep ==
  ASSUME IInv, Mine PROVE IInv'
<1>1. PICK count \in mined + 1 .. Len(txs) :
        mined' = count /\ UNCHANGED <<txs, form, job, reader>>
  BY DEF Mine
<1>2. TypeInv'
  BY <1>1 DEF IInv, TypeInv
<1>3. ASSUME NEW k \in Job PROVE (JobInv(k) /\ AnswerInv(k))'
  BY <1>1 DEF IInv, TypeInv, JobInv, AnswerInv, Senders, JobState
<1> QED BY <1>2, <1>3 DEF IInv

(* The page's form and those who only read leave the requests alone.       *)
LEMMA IdleStep ==
  ASSUME IInv, UNCHANGED <<txs, mined, job>>, form' \in Issue PROVE IInv'
<1>1. TypeInv'
  BY DEF IInv, TypeInv
<1>2. ASSUME NEW k \in Job PROVE (JobInv(k) /\ AnswerInv(k))'
  BY DEF IInv, JobInv, AnswerInv, Senders
<1> QED BY <1>1, <1>2 DEF IInv

LEMMA IInvStep == IInv /\ [Next]_vars => IInv'
<1> SUFFICES ASSUME IInv, [Next]_vars PROVE IInv'
  OBVIOUS
<1>1. ASSUME NEW j \in Post, NEW issue \in Requested, CallPost(j, issue) PROVE IInv'
  BY <1>1, CallStep, DAppConstants DEF CallPost, Job
<1>2. ASSUME NEW j \in Submit, CallSubmit(j) PROVE IInv'
  <2>1. form \in Issue /\ j \in Job
    BY DEF IInv, TypeInv, Job
  <2> QED BY <1>2, <2>1, CallStep DEF CallSubmit
<1>3. ASSUME NEW j \in Job, Handle(j) PROVE IInv'
  BY <1>3, HandleStep
<1>4. CASE Type
  <2>1. form' \in Issue
    BY <1>4 DEF Type, IInv, TypeInv, Issue
  <2> QED BY <1>4, <2>1, IdleStep DEF Type, chainVars
<1>5. CASE ResetForm
  <2>1. form' \in Issue
    BY <1>5, DAppConstants DEF ResetForm, BlankForm, Issue
  <2> QED BY <1>5, <2>1, IdleStep DEF ResetForm, chainVars
<1>6. CASE Mine
  BY <1>6, MineStep
<1>7. ASSUME NEW r \in Reader, (\E what \in Question : Ask(r, what)) \/ Read(r) \/ FailRead(r)
      PROVE  IInv'
  BY <1>7, IdleStep DEF Ask, Read, FailRead, chainVars, IInv, TypeInv
<1>8. CASE StartListening \/ Show \/ LoseConnection \/ StopListening
  BY <1>8, IdleStep DEF StartListening, Show, LoseConnection, StopListening, Listens,
     chainVars, IInv, TypeInv
<1>9. CASE UNCHANGED vars
  BY <1>9, IdleStep DEF vars, IInv, TypeInv
<1> QED BY <1>1, <1>2, <1>3, <1>4, <1>5, <1>6, <1>7, <1>8, <1>9 DEF Next

LEMMA IInvHolds == Spec => []IInv
BY IInvInit, IInvStep, PTL DEF Spec

(* Whatever the server and the page send was asked for as it is, and is    *)
(* sent once.                                                              *)
THEOREM OnlyAskedForIsIssued == Spec => []IssuedAsAsked
<1>1. IInv => IssuedAsAsked
  <2> SUFFICES ASSUME IInv PROVE IssuedAsAsked
    OBVIOUS
  <2>1. \A n \in DOMAIN txs : n \in 1 .. Len(txs)
    BY DEF IInv, TypeInv
  <2>2. \A n \in DOMAIN txs : JobInv(txs[n].by)
    BY <2>1, SendersAreJobs DEF IInv
  <2> QED BY <2>2 DEF IssuedAsAsked, JobInv
<1> QED BY <1>1, IInvHolds, PTL

(* An answer with a receipt names the request whose transaction took the   *)
(* nonce; the request that lost it, or was refused, has not been issued.   *)
THEOREM AnswersTellTheTruth == Spec => []AnswersAreTrue
<1>1. IInv => AnswersAreTrue
  BY DEF IInv, TypeInv, AnswersAreTrue, AnswerInv
<1> QED BY <1>1, IInvHolds, PTL

-----------------------------------------------------------------------------
(* The listener.                                                           *)

ListenerInv == listener \in ListenerState /\ ListenerShowsInOrder

LEMMA ListenerInvInit == Init => ListenerInv
<1> SUFFICES ASSUME Init PROVE ListenerInv
  OBVIOUS
<1>1. /\ listener.state = "down" /\ listener.from = 0 /\ listener.pipe = <<>>
      /\ listener.shown = <<>> /\ mined = 0 /\ listener \in ListenerState
  BY DEF Init, NewListener, ListenerState
<1> QED BY <1>1 DEF ListenerInv, ListenerShowsInOrder

(* A transaction in a block is never replaced.                             *)
LEMMA PastStays ==
  ASSUME IInv, [Next]_vars
  PROVE  mined <= mined' /\ \A n \in 1 .. mined : txs'[n] = txs[n]
<1>0. mined \in Nat /\ mined <= Len(txs) /\ txs \in Seq(TxOf)
  BY DEF IInv, TypeInv
<1>1. ASSUME NEW j \in Job, Write(j) PROVE mined' = mined /\ \A n \in 1 .. mined : txs'[n] = txs[n]
  <2>1. job[j].nonce \in 1 .. Len(txs) + 1
    BY <1>1 DEF Write, Send, IInv, JobInv
  <2>2. job[j].nonce > mined
    BY <1>0, <1>1, <2>1 DEF Write, Send, Accepts
  <2> QED BY <1>0, <1>1, <2>1, <2>2 DEF Write, Send, Put
<1>2. CASE Mine
  <2>1. PICK count \in mined + 1 .. Len(txs) : mined' = count /\ txs' = txs
    BY <1>2 DEF Mine
  <2> QED BY <1>0, <2>1
<1>3. CASE UNCHANGED <<txs, mined>>
  BY <1>0, <1>3
<1>4. ASSUME NEW j \in Job, Handle(j), ~Write(j) PROVE UNCHANGED <<txs, mined>>
  BY <1>4 DEF Handle, Prepare, FailCall, RefuseWrite, AwaitReceipt, Resume, TimeOut, chainVars
<1>5. ASSUME ~(\E j \in Job : Handle(j)), ~Mine PROVE UNCHANGED <<txs, mined>>
  <2>1. ASSUME NEW r \in Reader, (\E what \in Question : Ask(r, what)) \/ Read(r) \/ FailRead(r)
        PROVE  UNCHANGED <<txs, mined>>
    BY <2>1 DEF Ask, Read, FailRead, chainVars
  <2>2. CASE StartListening \/ Show \/ LoseConnection \/ StopListening
    BY <2>2 DEF StartListening, Show, LoseConnection, StopListening, Listens, chainVars
  <2>3. CASE \/ \E j \in Post, issue \in Requested : CallPost(j, issue)
             \/ \E j \in Submit : CallSubmit(j)
    BY <2>3 DEF CallPost, CallSubmit, chainVars
  <2>4. CASE Type \/ ResetForm
    BY <2>4 DEF Type, ResetForm, chainVars
  <2>5. CASE UNCHANGED vars
    BY <2>5 DEF vars
  <2> QED BY <1>5, <2>1, <2>2, <2>3, <2>4, <2>5 DEF Next
<1>6. CASE \E j \in Job : Write(j)
  BY <1>0, <1>1, <1>6
<1>7. UNCHANGED <<txs, mined>> \/ (\E j \in Job : Write(j)) \/ Mine
  BY <1>4, <1>5
<1> QED BY <1>2, <1>3, <1>6, <1>7

(* Runs(s, from, t): s is what follows `from' in t.                        *)
Runs(s, from, t) == \A i \in 1 .. Len(s) : s[i] = t[from + i]

(* Showing moves the first event that came behind those shown.             *)
LEMMA ShowRuns ==
  ASSUME NEW S, NEW s \in Seq(S), NEW p \in Seq(S), NEW t, NEW from \in Nat,
         p # <<>>, Runs(s, from, t), Runs(p, from + Len(s), t)
  PROVE  /\ Append(s, Head(p)) \in Seq(S) /\ Len(Append(s, Head(p))) = Len(s) + 1
         /\ Tail(p) \in Seq(S) /\ Len(Tail(p)) = Len(p) - 1
         /\ Runs(Append(s, Head(p)), from, t)
         /\ Runs(Tail(p), from + (Len(s) + 1), t)
<1>1. /\ Len(s) \in Nat /\ Len(p) \in Nat /\ Len(p) >= 1
      /\ Head(p) = p[1] /\ p[1] \in S /\ p[1] = t[from + Len(s) + 1]
  BY LenProperties, EmptySeq, ElementOfSeq DEF Runs
<1>2. /\ Append(s, Head(p)) \in Seq(S) /\ Len(Append(s, Head(p))) = Len(s) + 1
      /\ \A i \in 1 .. Len(s) : Append(s, Head(p))[i] = s[i]
      /\ Append(s, Head(p))[Len(s) + 1] = p[1]
  BY <1>1, AppendProperties
<1>3. /\ Tail(p) \in Seq(S) /\ Len(Tail(p)) = Len(p) - 1
      /\ \A i \in 1 .. Len(p) - 1 : Tail(p)[i] = p[i + 1]
  BY <1>1, HeadTailProperties
<1>4. ASSUME NEW i \in 1 .. Len(Append(s, Head(p)))
      PROVE  Append(s, Head(p))[i] = t[from + i]
  <2>1. CASE i \in 1 .. Len(s)
    <3>1. Append(s, Head(p))[i] = s[i]
      BY <1>2, <2>1
    <3>2. s[i] = t[from + i]
      BY <2>1 DEF Runs
    <3> QED BY <3>1, <3>2
  <2>2. CASE i = Len(s) + 1
    <3>1. from + i = from + Len(s) + 1
      BY <1>1, <2>2
    <3> QED BY <1>1, <1>2, <2>2, <3>1
  <2>3. i \in 1 .. Len(s) \/ i = Len(s) + 1
    BY <1>1, <1>2
  <2> QED BY <2>1, <2>2, <2>3
<1>5. ASSUME NEW i \in 1 .. Len(Tail(p)) PROVE Tail(p)[i] = t[from + (Len(s) + 1) + i]
  <2>1. Tail(p)[i] = p[i + 1] /\ i + 1 \in 1 .. Len(p)
    BY <1>1, <1>3
  <2>2. p[i + 1] = t[from + Len(s) + (i + 1)]
    BY <2>1 DEF Runs
  <2>3. from + Len(s) + (i + 1) = from + (Len(s) + 1) + i
    BY <1>1, <1>3
  <2> QED BY <2>1, <2>2, <2>3
<1> QED BY <1>2, <1>3, <1>4, <1>5 DEF Runs

(* p and what follows the m-th of t, to the c-th.                          *)
Extended(p, t, m, c) == p \o SubSeq(t, m + 1, c)

(* What follows is appended to what runs along t.                          *)
LEMMA MineRuns ==
  ASSUME NEW S, NEW p \in Seq(S), NEW t \in Seq(S), NEW from \in Nat, NEW m \in Nat,
         NEW c \in Nat, m < c, c <= Len(t), from + Len(p) = m, Runs(p, from, t)
  PROVE  /\ Extended(p, t, m, c) \in Seq(S)
         /\ from + Len(Extended(p, t, m, c)) = c
         /\ Runs(Extended(p, t, m, c), from, t)
<1> DEFINE q == SubSeq(t, m + 1, c)
           pq == p \o q
<1>1. Len(t) \in Nat /\ Len(p) \in Nat /\ c \in Nat
  BY LenProperties
<1>2. /\ q \in Seq(S) /\ Len(q) = c - m
      /\ \A i \in 1 .. c - m : q[i] = t[m + i]
  <2>1. \A i \in m + 1 .. c : t[i] \in S
    BY <1>1, ElementOfSeq
  <2>2. q = [i \in 1 .. c - m |-> t[m + i]]
    BY <1>1, <2>1
  <2> QED BY <1>1, <2>1, <2>2
<1> HIDE DEF q
<1>3. /\ pq \in Seq(S) /\ Len(pq) = Len(p) + Len(q)
      /\ \A i \in 1 .. Len(p) + Len(q) : pq[i] = IF i <= Len(p) THEN p[i] ELSE q[i - Len(p)]
  <2>1. q \in Seq(S) /\ p \in Seq(S)
    BY <1>2
  <2>2. /\ p \o q \in Seq(S) /\ Len(p \o q) = Len(p) + Len(q)
        /\ \A i \in 1 .. Len(p) + Len(q) :
             (p \o q)[i] = IF i <= Len(p) THEN p[i] ELSE q[i - Len(p)]
    BY ONLY <2>1, ConcatProperties, Zenon
  <2> QED BY <2>2, Zenon
<1> HIDE DEF pq
<1>4. Len(pq) = Len(p) + (c - m) /\ from + Len(pq) = c
  <2>1. Len(pq) = Len(p) + Len(q) /\ Len(q) = c - m
    BY <1>2, <1>3
  <2> QED BY <1>1, <2>1
<1>5. ASSUME NEW i \in 1 .. Len(pq) PROVE pq[i] = t[from + i]
  <2>0. i \in 1 .. Len(p) + Len(q) /\ i \in Nat
    BY <1>1, <1>3
  <2>1. CASE i <= Len(p)
    <3>1. pq[i] = p[i]
      BY <1>3, <2>0, <2>1
    <3>2. i \in 1 .. Len(p)
      BY <1>1, <2>0, <2>1
    <3> QED BY <3>1, <3>2 DEF Runs
  <2>2. CASE ~(i <= Len(p))
    <3>1. i - Len(p) \in 1 .. c - m /\ m + (i - Len(p)) = from + i
      BY <1>1, <1>4, <2>2
    <3>2. pq[i] = q[i - Len(p)]
      BY <1>3, <2>0, <2>2
    <3> QED BY <1>2, <3>1, <3>2
  <2> QED BY <2>1, <2>2
<1>6. pq = Extended(p, t, m, c)
  BY DEF Extended, pq, q
<1> QED BY <1>3, <1>4, <1>5, <1>6 DEF Runs
LEMMA InOrderIsRuns ==
  ListenerShowsInOrder <=>
    /\ listener.from + Len(listener.shown) + Len(listener.pipe) <= mined
    /\ listener.state = "up" =>
         listener.from + Len(listener.shown) + Len(listener.pipe) = mined
    /\ Runs(listener.shown, listener.from, txs)
    /\ Runs(listener.pipe, listener.from + Len(listener.shown), txs)
BY DEF ListenerShowsInOrder, Runs

(* A listener that has the same events of a chain that grew, or none left. *)
LEMMA ChainGrows ==
  ASSUME IInv, ListenerInv, [Next]_vars, listener' \in ListenerState,
         listener'.from = listener.from, listener'.shown = listener.shown,
         listener'.pipe = listener.pipe \/ listener'.pipe = <<>>,
         listener'.state = "up" =>
           /\ listener.state = "up" /\ mined' = mined
           /\ listener'.pipe = listener.pipe
  PROVE  ListenerInv'
<1>1. /\ mined \in Nat /\ mined' \in Nat /\ mined <= mined'
      /\ \A n \in 1 .. mined : txs'[n] = txs[n]
  BY PastStays, IInvStep DEF IInv, TypeInv
<1>2. /\ Len(listener.shown) \in Nat /\ Len(listener.pipe) \in Nat /\ listener.from \in Nat
  BY LenProperties DEF ListenerInv, ListenerState
<1>3. /\ listener.from + Len(listener.shown) + Len(listener.pipe) <= mined
      /\ \A i \in 1 .. Len(listener.shown) : listener.shown[i] = txs[listener.from + i]
      /\ \A i \in 1 .. Len(listener.pipe) :
           listener.pipe[i] = txs[listener.from + Len(listener.shown) + i]
  BY DEF ListenerInv, ListenerShowsInOrder
<1>4. ASSUME NEW i \in 1 .. Len(listener.shown)
      PROVE  listener.shown[i] = txs'[listener.from + i]
  <2>1. listener.from + i \in 1 .. mined
    BY <1>1, <1>2, <1>3
  <2> QED BY <1>1, <1>3, <2>1
<1>5. ASSUME NEW i \in 1 .. Len(listener.pipe)
      PROVE  listener.pipe[i] = txs'[listener.from + Len(listener.shown) + i]
  <2>1. listener.from + Len(listener.shown) + i \in 1 .. mined
    BY <1>1, <1>2, <1>3
  <2> QED BY <1>1, <1>3, <2>1
<1>6. listener'.state = "up" =>
        listener'.from + Len(listener'.shown) + Len(listener'.pipe) = mined'
  BY DEF ListenerInv, ListenerShowsInOrder
<1>7. ListenerShowsInOrder'
  <2>1. CASE listener'.pipe = listener.pipe
    <3>1. listener'.from + Len(listener'.shown) + Len(listener'.pipe) <= mined'
      BY <1>1, <1>2, <1>3, <2>1
    <3> QED BY <1>4, <1>5, <1>6, <2>1, <3>1 DEF ListenerShowsInOrder
  <2>2. CASE listener'.pipe = <<>>
    <3>1. Len(listener'.pipe) = 0
      BY <2>2
    <3>2. listener'.from + Len(listener'.shown) + Len(listener'.pipe) <= mined'
      BY <1>1, <1>2, <1>3, <3>1
    <3> QED BY <1>4, <1>6, <3>1, <3>2 DEF ListenerShowsInOrder
  <2> QED BY <2>1, <2>2
<1> QED BY <1>3, <1>7 DEF ListenerInv

(* A listener that has nothing yet.                                        *)
LEMMA StartsEmpty ==
  ASSUME IInv, [Next]_vars, listener' \in ListenerState, listener'.from <= mined',
         listener'.shown = <<>>, listener'.pipe = <<>>,
         listener'.state = "up" => listener'.from = mined'
  PROVE  ListenerInv'
<1>1. Len(listener'.shown) = 0 /\ Len(listener'.pipe) = 0
  OBVIOUS
<1>2. listener'.from \in Nat /\ mined' \in Nat
  BY IInvStep DEF ListenerState, IInv, TypeInv
<1> QED BY <1>1, <1>2 DEF ListenerInv, ListenerShowsInOrder

LEMMA ListenerMineStep ==
  ASSUME IInv, ListenerInv, Mine, listener.state = "up" PROVE ListenerInv'
<1> DEFINE base == listener.from + Len(listener.shown)
           pipe == Extended(listener.pipe, txs, mined, mined')
<1>1. /\ mined' \in mined + 1 .. Len(txs) /\ txs' = txs
      /\ listener' = [listener EXCEPT !.pipe = pipe]
  BY DEF Mine, Extended
<1>2. /\ mined \in Nat /\ txs \in Seq(TxOf) /\ listener \in ListenerState
      /\ listener.pipe \in Seq(TxOf)
  BY DEF IInv, TypeInv, ListenerInv, ListenerState
<1>3. base \in Nat
  BY <1>2, LenProperties DEF ListenerState
<1>4. /\ base + Len(listener.pipe) = mined
      /\ Runs(listener.shown, listener.from, txs) /\ Runs(listener.pipe, base, txs)
  BY InOrderIsRuns DEF ListenerInv
<1> HIDE DEF base
<1>5. pipe \in Seq(TxOf) /\ base + Len(pipe) = mined' /\ Runs(pipe, base, txs)
  <2>1. /\ listener.pipe \in Seq(TxOf) /\ txs \in Seq(TxOf) /\ base \in Nat /\ mined \in Nat
        /\ mined' \in Nat /\ mined < mined' /\ mined' <= Len(txs)
        /\ base + Len(listener.pipe) = mined /\ Runs(listener.pipe, base, txs)
    BY <1>1, <1>2, <1>3, <1>4, LenProperties
  <2>2. ASSUME NEW p, NEW t, NEW from, NEW m, NEW c, p = listener.pipe, t = txs,
               from = base, m = mined, c = mined'
        PROVE  /\ Extended(p, t, m, c) \in Seq(TxOf) /\ from + Len(Extended(p, t, m, c)) = c
               /\ Runs(Extended(p, t, m, c), from, t)
    <3>1. /\ p \in Seq(TxOf) /\ t \in Seq(TxOf) /\ from \in Nat /\ m \in Nat /\ c \in Nat
          /\ m < c /\ c <= Len(t) /\ from + Len(p) = m /\ Runs(p, from, t)
      BY <2>1, <2>2
    <3> QED BY ONLY <3>1, MineRuns
  <2> QED BY <2>2, Zenon
<1> HIDE DEF pipe
<1>6. /\ listener' \in ListenerState /\ listener'.pipe = pipe
      /\ listener'.from = listener.from /\ listener'.shown = listener.shown
  BY <1>1, <1>2, <1>5 DEF ListenerState
<1>7. listener'.from + Len(listener'.shown) = base
  BY <1>6 DEF base
<1>8. mined' \in Nat
  BY <1>1, <1>2, LenProperties
<1>9. ListenerShowsInOrder'
  BY <1>1, <1>4, <1>5, <1>6, <1>7, <1>8 DEF ListenerShowsInOrder, Runs
<1> QED BY <1>5, <1>6, <1>7, <1>9 DEF ListenerInv

LEMMA ListenerShowStep ==
  ASSUME IInv, ListenerInv, [Next]_vars, Show PROVE ListenerInv'
<1> DEFINE shown == Append(listener.shown, Head(listener.pipe))
           pipe == Tail(listener.pipe)
<1>1. /\ listener.pipe # <<>> /\ mined' = mined /\ txs' = txs
      /\ listener' = [listener EXCEPT !.pipe = pipe, !.shown = shown]
  BY DEF Show, Listens, chainVars
<1>2. /\ listener \in ListenerState /\ listener.from \in Nat /\ mined \in Nat
      /\ listener.shown \in Seq(TxOf) /\ listener.pipe \in Seq(TxOf)
  BY DEF IInv, TypeInv, ListenerInv, ListenerState
<1>3. /\ listener.from + Len(listener.shown) + Len(listener.pipe) <= mined
      /\ listener.state = "up" =>
           listener.from + Len(listener.shown) + Len(listener.pipe) = mined
      /\ Runs(listener.shown, listener.from, txs)
      /\ Runs(listener.pipe, listener.from + Len(listener.shown), txs)
  BY InOrderIsRuns DEF ListenerInv
<1>4. Len(listener.shown) \in Nat /\ Len(listener.pipe) \in Nat
  BY <1>2, LenProperties
<1>5. /\ shown \in Seq(TxOf) /\ Len(shown) = Len(listener.shown) + 1
      /\ pipe \in Seq(TxOf) /\ Len(pipe) = Len(listener.pipe) - 1
      /\ Runs(shown, listener.from, txs)
      /\ Runs(pipe, listener.from + (Len(listener.shown) + 1), txs)
  BY <1>1, <1>2, <1>3, ShowRuns
<1> HIDE DEF shown, pipe
<1>6. /\ listener' \in ListenerState /\ listener'.pipe = pipe /\ listener'.shown = shown
      /\ listener'.from = listener.from /\ listener'.state = listener.state
  BY <1>1, <1>2, <1>5 DEF ListenerState
<1>7. listener.from + (Len(listener.shown) + 1) = listener'.from + Len(listener'.shown)
  BY <1>5, <1>6
<1>8. listener'.from + Len(listener'.shown) + Len(listener'.pipe)
        = listener.from + Len(listener.shown) + Len(listener.pipe)
  <2>1. /\ listener'.from = listener.from
        /\ Len(listener'.shown) = Len(listener.shown) + 1
        /\ Len(listener'.pipe) = Len(listener.pipe) - 1
    BY <1>5, <1>6
  <2> QED BY <1>2, <1>4, <2>1
<1>9. ListenerShowsInOrder'
  BY <1>1, <1>3, <1>5, <1>6, <1>7, <1>8 DEF ListenerShowsInOrder, Runs
<1> QED BY <1>1, <1>3, <1>6, <1>8, <1>9 DEF ListenerInv

LEMMA ListenerInvStep == IInv /\ ListenerInv /\ [Next]_vars => ListenerInv'
<1> SUFFICES ASSUME IInv, ListenerInv, [Next]_vars PROVE ListenerInv'
  OBVIOUS
<1>0. listener \in ListenerState /\ mined \in Nat
  BY DEF ListenerInv, IInv, TypeInv
<1>1. CASE Mine /\ listener.state = "up"
  BY <1>1, ListenerMineStep
<1>2. CASE Mine /\ listener.state # "up"
  BY <1>0, <1>2, ChainGrows DEF Mine
<1>3. CASE Show
  BY <1>3, ListenerShowStep
<1>4. CASE StartListening
  BY <1>0, <1>4, StartsEmpty DEF StartListening, Listens, chainVars, ListenerState
<1>5. CASE StopListening
  BY <1>0, <1>5, StartsEmpty DEF StopListening, Listens, chainVars, ListenerState, NewListener
<1>6. CASE LoseConnection
  <2>1. /\ mined' = mined
        /\ listener' = [listener EXCEPT !.state = "deaf", !.pipe = <<>>]
    BY <1>6 DEF LoseConnection, Listens, chainVars
  <2>2. /\ listener' \in ListenerState /\ listener'.state = "deaf" /\ listener'.pipe = <<>>
        /\ listener'.from = listener.from /\ listener'.shown = listener.shown
    <3>1. <<>> \in Seq(TxOf)
      BY EmptySeq
    <3> DEFINE none == <<>>
    <3>2. listener' = [listener EXCEPT !.state = "deaf", !.pipe = none] /\ none \in Seq(TxOf)
      BY <2>1, <3>1
    <3> HIDE DEF none
    <3>3. /\ listener' \in ListenerState /\ listener'.state = "deaf" /\ listener'.pipe = none
          /\ listener'.from = listener.from /\ listener'.shown = listener.shown
      BY <1>0, <3>2 DEF ListenerState
    <3> QED BY <3>3 DEF none
  <2>3. listener'.state # "up"
    BY <2>2
  <2> QED BY <2>2, <2>3, ChainGrows
<1>7. ASSUME listener' = listener, mined' = mined PROVE ListenerInv'
  BY <1>0, <1>7, ChainGrows
<1>8. ASSUME NEW j \in Job, Handle(j) PROVE ListenerInv'
  <2>1. CASE Write(j)
    BY <1>7, <2>1 DEF Write, Send
  <2>2. CASE ~Write(j)
    BY <1>7, <1>8, <2>2 DEF Handle, Prepare, FailCall, RefuseWrite, AwaitReceipt, Resume,
       TimeOut, chainVars
  <2> QED BY <2>1, <2>2
<1>9. CASE \/ \E j \in Post, issue \in Requested : CallPost(j, issue)
           \/ \E j \in Submit : CallSubmit(j)
           \/ Type \/ ResetForm
  BY <1>7, <1>9 DEF CallPost, CallSubmit, Type, ResetForm, chainVars
<1>10. ASSUME NEW r \in Reader, (\E what \in Question : Ask(r, what)) \/ Read(r) \/ FailRead(r)
       PROVE  ListenerInv'
  BY <1>7, <1>10 DEF Ask, Read, FailRead, chainVars
<1>11. CASE UNCHANGED vars
  BY <1>7, <1>11 DEF vars
<1> QED BY <1>1, <1>2, <1>3, <1>4, <1>5, <1>6, <1>8, <1>9, <1>10, <1>11 DEF Next

(* Whatever is mined, replaced or lost, the listener shows what followed   *)
(* in the chain from when it started, each event once and in order.        *)
THEOREM ListenerKeepsTheOrder == Spec => []ListenerShowsInOrder
<1>1. ListenerInv => ListenerShowsInOrder
  BY DEF ListenerInv
<1> QED BY <1>1, IInvHolds, ListenerInvInit, ListenerInvStep, PTL DEF Spec

-----------------------------------------------------------------------------
(* Who reads.                                                              *)

Asked == Question \cup {[kind |-> "none"]}
Found == {"none"} \cup (Certificate \cup SUBSET Job)

ReaderState ==
  [stage : {"idle", "asked", "answered"}, what : Asked, known : SUBSET Job, value : Found]

LEMMA NothingFound == [kind |-> "none"] \in Asked /\ "none" \in Found /\ {} \in SUBSET Job
<1>1. [kind |-> "none"] \in Asked
  BY Zenon DEF Asked
<1>2. "none" \in Found
  <2>1. \A A : "none" \in {"none"} \cup A
    OBVIOUS
  <2> QED BY <2>1 DEF Found
<1> QED BY <1>1, <1>2

(* The issue of a request that was answered with its own receipt is in a   *)
(* block and stays there, for the request is over.                         *)
Settled(j) ==
  /\ job[j].answer = j
  /\ job[j].nonce \in 1 .. mined
  /\ txs[job[j].nonce].by = j
  /\ txs[job[j].nonce].issue = job[j].asked

(* What the reader was given: the issue of j, or what overwrote it.        *)
Follows(what, value, j) ==
  /\ what.kind = "certificate" /\ what.id = job[j].asked.id =>
       \E n \in job[j].nonce .. mined :
         txs[n].issue = [id |-> what.id, certificate |-> value]
  /\ /\ what.kind = "events" /\ what.course # NoCourse
     /\ what.course = CourseOf[job[j].asked.certificate]
     => j \in value

ReaderInv ==
  /\ reader \in [Reader -> ReaderState]
  /\ \A r \in Reader : \A j \in reader[r].known :
       /\ Settled(j)
       /\ reader[r].stage = "answered" => Follows(reader[r].what, reader[r].value, j)

(* A set of numbers that is not empty and has a bound has a maximum.       *)
LEMMA Maximum ==
  ASSUME NEW m \in Nat, NEW S \in SUBSET (1 .. m), S # {}
  PROVE  \E n \in S : \A k \in S : k <= n
<1> DEFINE T == {i \in Nat : \A A \in SUBSET (1 .. i) :
                  A # {} => \E n \in A : \A k \in A : k <= n}
<1>1. 0 \in T
  <2>1. \A A \in SUBSET (1 .. 0) : A = {}
    OBVIOUS
  <2> QED BY <2>1
<1>2. ASSUME NEW i \in Nat, i \in T PROVE i + 1 \in T
  <2> SUFFICES ASSUME NEW A \in SUBSET (1 .. i + 1), A # {}
               PROVE  \E n \in A : \A k \in A : k <= n
    OBVIOUS
  <2>1. CASE i + 1 \in A
    <3>1. \A k \in A : k <= i + 1
      OBVIOUS
    <3> QED BY <2>1, <3>1
  <2>2. CASE i + 1 \notin A
    <3>1. A \in SUBSET (1 .. i)
      BY <2>2
    <3> QED BY <1>2, <3>1
  <2> QED BY <2>1, <2>2
<1>3. Nat \subseteq T
  <2> HIDE DEF T
  <2> QED BY <1>1, <1>2, NatInduct
<1>4. m \in T
  BY <1>3
<1> QED BY <1>4

(* Whoever was answered with its own receipt has settled, for good.        *)
LEMMA AnsweredIsSettled ==
  ASSUME IInv, NEW j \in Job, job[j].answer = j
  PROVE  Settled(j)
<1>1. job[j].nonce \in 1 .. mined /\ txs[job[j].nonce].by = j
  BY DEF IInv, AnswerInv
<1>2. job[j].nonce \in DOMAIN txs
  BY <1>1, LenProperties DEF IInv, TypeInv
<1> QED BY <1>1, <1>2 DEF Settled, IInv, JobInv

LEMMA SettledStays ==
  ASSUME IInv, [Next]_vars, NEW j \in Job, Settled(j)
  PROVE  job'[j] = job[j] /\ Settled(j)'
<1>0. /\ job \in [Job -> JobState] /\ mined \in Nat /\ mined' \in Nat
      /\ mined <= mined' /\ \A n \in 1 .. mined : txs'[n] = txs[n]
  BY PastStays, IInvStep DEF IInv, TypeInv
<1>1. job[j].stage = "answered"
  <2>1. job[j].answer # "none"
    BY AnswersDiffer DEF Settled
  <2>2. job[j].stage \in {"idle", "called", "prepared", "waiting", "answered"}
    BY <1>0 DEF JobState
  <2> QED BY <2>1, <2>2 DEF IInv, JobInv
<1>2. job'[j] = job[j]
  <2>1. ASSUME NEW k \in Job, k # j, NEW s, job' = [job EXCEPT ![k] = s]
        PROVE  job'[j] = job[j]
    BY <1>0, <2>1
  <2>2. ASSUME NEW k \in Job, Handle(k) PROVE job'[j] = job[j]
    <3>1. k # j
      BY <1>1, <2>2 DEF Handle, Prepare, FailCall, Write, Send, RefuseWrite, AwaitReceipt,
         TimeOut
    <3>2. CASE \E fee \in Fee : Prepare(k, fee)
      BY <1>0, <3>1, <3>2 DEF Prepare
    <3>3. CASE FailCall(k) \/ RefuseWrite(k) \/ AwaitReceipt(k) \/ TimeOut(k)
      BY <1>0, <3>1, <3>3 DEF FailCall, RefuseWrite, AwaitReceipt, TimeOut, Resume, Answered
    <3>4. CASE Write(k)
      BY <1>0, <3>1, <3>4 DEF Write, Send, Answered
    <3> QED BY <2>2, <3>2, <3>3, <3>4 DEF Handle
  <2>3. ASSUME NEW k \in Post, NEW issue \in Requested, CallPost(k, issue)
        PROVE  job'[j] = job[j]
    BY <1>0, <1>1, <2>3 DEF CallPost, Job
  <2>4. ASSUME NEW k \in Submit, CallSubmit(k) PROVE job'[j] = job[j]
    BY <1>0, <1>1, <2>4 DEF CallSubmit, Job
  <2>5. CASE Type \/ ResetForm \/ Mine
    BY <2>5 DEF Type, ResetForm, Mine
  <2>6. ASSUME NEW r \in Reader, (\E what \in Question : Ask(r, what)) \/ Read(r) \/ FailRead(r)
        PROVE  job'[j] = job[j]
    BY <2>6 DEF Ask, Read, FailRead
  <2>7. CASE StartListening \/ Show \/ LoseConnection \/ StopListening
    BY <2>7 DEF StartListening, Show, LoseConnection, StopListening, Listens
  <2>8. CASE UNCHANGED vars
    BY <2>8 DEF vars
  <2> QED BY <2>2, <2>3, <2>4, <2>5, <2>6, <2>7, <2>8 DEF Next
<1> QED BY <1>0, <1>2 DEF Settled

(* What was read stays what followed, for the chain only grows.            *)
LEMMA FollowsStays ==
  ASSUME IInv, [Next]_vars, NEW j \in Job, Settled(j), NEW what, NEW value,
         Follows(what, value, j)
  PROVE  Follows(what, value, j)'
<1>1. /\ job'[j] = job[j] /\ mined \in Nat /\ mined' \in Nat
      /\ mined <= mined' /\ \A n \in 1 .. mined : txs'[n] = txs[n]
  BY SettledStays, PastStays, IInvStep DEF IInv, TypeInv
<1>2. job[j].nonce \in 1 .. mined
  BY DEF Settled
<1>3. ASSUME NEW n \in job[j].nonce .. mined
      PROVE  n \in job'[j].nonce .. mined' /\ txs'[n] = txs[n]
  BY <1>1, <1>2
<1> QED BY <1>1, <1>3 DEF Follows

(* What the node reads follows what had settled before.                    *)
LEMMA ReadFollows ==
  ASSUME IInv, NEW j \in Job, Settled(j), NEW what,
         what.kind = "certificate" => what.id \in Id
  PROVE  /\ what.kind = "certificate" => Follows(what, Stored(what.id), j)
         /\ what.kind = "events" => Follows(what, EventsFor(what.course), j)
<1>0. mined \in Nat /\ job[j].nonce \in 1 .. mined /\ txs[job[j].nonce].issue = job[j].asked
  BY DEF Settled, IInv, TypeInv
<1>1. ASSUME what.kind = "certificate", what.id = job[j].asked.id
      PROVE  \E n \in job[j].nonce .. mined :
               txs[n].issue = [id |-> what.id, certificate |-> Stored(what.id)]
  <2> DEFINE writes == {n \in 1 .. mined : txs[n].issue.id = what.id}
             last == CHOOSE n \in writes : \A m \in writes : m <= n
  <2>1. job[j].nonce \in writes
    BY <1>0, <1>1
  <2>2. last \in writes /\ \A m \in writes : m <= last
    <3>1. \E n \in writes : \A m \in writes : m <= n
      <4>1. writes \in SUBSET (1 .. mined) /\ writes # {}
        BY <2>1
      <4> HIDE DEF writes
      <4> QED BY <1>0, <4>1, Maximum
    <3> HIDE DEF writes
    <3> QED BY <3>1
  <2>3. Stored(what.id) = txs[last].issue.certificate
    BY <2>1 DEF Stored
  <2>4. last \in job[j].nonce .. mined
    <3>1. job[j].nonce <= last
      BY <2>1, <2>2
    <3> QED BY <1>0, <2>2, <3>1
  <2>5. txs[last].issue \in Issue /\ txs[last].issue.id = what.id
    <3>1. last \in 1 .. Len(txs)
      BY <1>0, <2>2 DEF IInv, TypeInv
    <3> QED BY <2>2, <3>1, SendersAreJobs DEF TxOf
  <2> HIDE DEF last
  <2>6. txs[last].issue = [id |-> what.id, certificate |-> Stored(what.id)]
    BY <2>3, <2>5 DEF Issue
  <2> QED BY <2>4, <2>6
<1>2. ASSUME what.kind = "events", what.course # NoCourse,
             what.course = CourseOf[job[j].asked.certificate]
      PROVE  j \in EventsFor(what.course)
  <2>1. j \in Logged(what.course)
    BY <1>0, <1>2 DEF Logged, Settled
  <2> QED BY <1>2, <2>1 DEF EventsFor
<1> QED BY <1>1, <1>2 DEF Follows

(* A read finds a certificate, or requests.                                *)
LEMMA ReadType ==
  ASSUME IInv, NEW id, NEW course
  PROVE  Stored(id) \in Certificate /\ EventsFor(course) \in SUBSET Job
<1>0. /\ mined \in Nat
      /\ \A n \in 1 .. mined : txs[n].by \in Job /\ txs[n].issue.certificate \in Certificate
  <2>1. mined \in Nat /\ \A n \in 1 .. mined : n \in 1 .. Len(txs)
    BY DEF IInv, TypeInv
  <2> QED BY <2>1, SendersAreJobs DEF TxOf, Issue
<1> DEFINE writes == {n \in 1 .. mined : txs[n].issue.id = id}
<1>1. CASE writes = {}
  BY <1>0, <1>1, DAppConstants DEF Stored, EventsFor, Logged
<1>2. CASE writes # {}
  <2> DEFINE last == CHOOSE n \in writes : \A m \in writes : m <= n
  <2>1. last \in writes
    <3>1. writes \in SUBSET (1 .. mined)
      OBVIOUS
    <3> HIDE DEF writes
    <3> QED BY <1>0, <1>2, <3>1, Maximum
  <2>2. Stored(id) = txs[last].issue.certificate
    BY <1>2 DEF Stored
  <2> HIDE DEF last
  <2>3. EventsFor(course) \in SUBSET Job
    BY <1>0 DEF EventsFor, Logged
  <2> QED BY <1>0, <2>1, <2>2, <2>3
<1> QED BY <1>1, <1>2

(* A reader that has the same answer, or has none yet, is as it was.       *)
LEMMA ReadersStay ==
  ASSUME IInv, [Next]_vars, ReaderInv, reader' = reader PROVE ReaderInv'
<1>1. ASSUME NEW r \in Reader, NEW j \in reader[r].known
      PROVE  /\ Settled(j)'
             /\ reader[r].stage = "answered" => Follows(reader[r].what, reader[r].value, j)'
  <2>1. j \in Job
    BY DEF ReaderInv, ReaderState
  <2>2. Settled(j)' /\ Settled(j)
    BY <2>1, SettledStays DEF ReaderInv
  <2>3. ASSUME reader[r].stage = "answered", NEW what, NEW value,
               what = reader[r].what, value = reader[r].value
        PROVE  Follows(what, value, j)'
    BY <2>1, <2>2, <2>3, FollowsStays DEF ReaderInv
  <2>4. reader[r].stage = "answered" => Follows(reader[r].what, reader[r].value, j)'
    BY <2>3 DEF Follows
  <2> QED BY <2>2, <2>4
<1> QED BY <1>1 DEF ReaderInv

(* The reader that moves, and those that do not.                           *)
LEMMA MoveOfReader ==
  ASSUME IInv, [Next]_vars, ReaderInv, NEW r \in Reader, NEW s \in ReaderState,
         UNCHANGED <<txs, mined, job>>, reader' = [reader EXCEPT ![r] = s],
         \A j \in s.known :
           Settled(j) /\ (s.stage = "answered" => Follows(s.what, s.value, j))
  PROVE  ReaderInv'
<1>1. reader' \in [Reader -> ReaderState]
  BY DEF ReaderInv
<1>2. ASSUME NEW q \in Reader
      PROVE  \A j \in reader'[q].known :
               /\ Settled(j)
               /\ reader'[q].stage = "answered" =>
                    Follows(reader'[q].what, reader'[q].value, j)
  <2>1. CASE q = r
    BY <2>1 DEF ReaderInv
  <2>2. CASE q # r
    BY <2>2 DEF ReaderInv
  <2> QED BY <2>1, <2>2
<1> QED BY <1>1, <1>2 DEF ReaderInv, Settled, Follows

LEMMA ReaderInvStep == IInv /\ ReaderInv /\ [Next]_vars => ReaderInv'
<1> SUFFICES ASSUME IInv, ReaderInv, [Next]_vars PROVE ReaderInv'
  OBVIOUS
<1>1. ASSUME NEW r \in Reader, NEW what \in Question, Ask(r, what) PROVE ReaderInv'
  <2> DEFINE s == [stage |-> "asked", what |-> what, value |-> "none",
                   known |-> {j \in Job : job[j].answer = j}]
  <2>1. s \in ReaderState /\ s.stage = "asked"
    <3>1. what \in Asked /\ {j \in Job : job[j].answer = j} \in SUBSET Job
      BY DEF Asked
    <3> QED BY <3>1, NothingFound DEF ReaderState
  <2>2. \A j \in s.known : Settled(j)
    BY AnsweredIsSettled
  <2>3. UNCHANGED <<txs, mined, job>> /\ reader' = [reader EXCEPT ![r] = s]
    BY <1>1 DEF Ask, chainVars
  <2> HIDE DEF s
  <2> QED BY <2>1, <2>2, <2>3, MoveOfReader
<1>2. ASSUME NEW r \in Reader, Read(r) PROVE ReaderInv'
  <2> DEFINE what == reader[r].what
             value == IF what.kind = "certificate" THEN Stored(what.id) ELSE EventsFor(what.course)
             s == [reader[r] EXCEPT !.stage = "answered", !.value = value]
  <2>1. reader[r] \in ReaderState /\ reader[r].stage = "asked"
    BY <1>2 DEF Read, ReaderInv
  <2>2. UNCHANGED <<txs, mined, job>> /\ reader' = [reader EXCEPT ![r] = s]
    BY <1>2 DEF Read, chainVars
  <2>3. what \in Asked
    BY <2>1 DEF ReaderState
  <2>4. what.kind = "certificate" => what.id \in Id
    BY <2>3, DAppConstants DEF Asked
  <2>5. value \in Found
    BY ReadType DEF Found
  <2> HIDE DEF value
  <2>6. s \in ReaderState /\ s.what = what /\ s.value = value /\ s.known = reader[r].known
    BY <2>1, <2>5 DEF ReaderState
  <2>7. ASSUME NEW j \in s.known PROVE Settled(j) /\ Follows(s.what, s.value, j)
    <3>1. j \in Job /\ Settled(j)
      BY <2>6, <2>1 DEF ReaderInv, ReaderState
    <3>2. /\ what.kind = "certificate" => Follows(what, Stored(what.id), j)
          /\ what.kind = "events" => Follows(what, EventsFor(what.course), j)
      BY <2>4, <3>1, ReadFollows
    <3>3. Follows(what, value, j)
      BY <3>2 DEF Follows, value
    <3> QED BY <2>6, <3>1, <3>3
  <2> HIDE DEF s
  <2> QED BY <2>2, <2>6, <2>7, MoveOfReader
<1>3. ASSUME NEW r \in Reader, FailRead(r) PROVE ReaderInv'
  <2>1. NewReader \in ReaderState /\ NewReader.known = {}
    BY NothingFound DEF NewReader, ReaderState
  <2>2. UNCHANGED <<txs, mined, job>> /\ reader' = [reader EXCEPT ![r] = NewReader]
    BY <1>3 DEF FailRead, chainVars
  <2> QED BY <2>1, <2>2, MoveOfReader
<1>4. ASSUME NEW j \in Job, Handle(j) PROVE ReaderInv'
  <2>1. reader' = reader
    BY <1>4 DEF Handle, Prepare, FailCall, Write, Send, RefuseWrite, AwaitReceipt, Resume, TimeOut
  <2> QED BY <2>1, ReadersStay
<1>5. CASE \/ \E j \in Post, issue \in Requested : CallPost(j, issue)
           \/ \E j \in Submit : CallSubmit(j)
           \/ Type \/ ResetForm \/ Mine
  BY <1>5, ReadersStay DEF CallPost, CallSubmit, Type, ResetForm, Mine
<1>6. CASE StartListening \/ Show \/ LoseConnection \/ StopListening
  BY <1>6, ReadersStay DEF StartListening, Show, LoseConnection, StopListening, Listens
<1>7. CASE UNCHANGED vars
  BY <1>7, ReadersStay DEF vars
<1> QED BY <1>1, <1>2, <1>3, <1>4, <1>5, <1>6, <1>7 DEF Next

(* Whoever asks after a request was answered with its own receipt finds    *)
(* its issue: the certificate or a later one of that number, and its event *)
(* if it has a course, for /events answers nothing without one.            *)
THEOREM ReadersFindWhatIsIssued == Spec => []ReadsFollowReceipts
<1>1. Init => ReaderInv
  BY NothingFound DEF Init, ReaderInv, NewReader, ReaderState
<1>2. ReaderInv => ReadsFollowReceipts
  BY DEF ReaderInv, ReadsFollowReceipts, Follows
<1> QED BY <1>1, <1>2, IInvHolds, ReaderInvStep, PTL DEF Spec
=============================================================================

--------------------------- MODULE BindingsProofs ---------------------------
(***************************************************************************)
(* What the bindings of any contracts tell a program, as long as no two    *)
(* signatures share a selector and no two errors their first four bytes.   *)
(***************************************************************************)
EXTENDS Bindings, SequenceTheorems, TLAPS

(* A packed call selects the method it was packed for.                     *)
CallOK ==
  /\ code \in Deployments
  /\ \/ call = Nothing
     \/ /\ call.binding \in Contract
        /\ call.method \in MethodsOf[call.binding]
        /\ call.to \in DOMAIN code
        /\ call.id = call.method.id

ReturnOK ==
  answer.kind = "returned" =>
    /\ call # Nothing /\ Called \in Contract
    /\ answer.function \in MethodsOf[Called]
    /\ answer.function.id = call.id
    /\ answer.data = answer.function.outs

(* Revert data is an error of the contract that raised it, or the          *)
(* language's, or nothing.                                                 *)
RevertOK ==
  answer.kind = "reverted" =>
    \/ answer.id = ""
    \/ /\ answer.by \in Contract
       /\ \E e \in ErrorsOf[answer.by] \cup LanguageErrors :
            e.id = answer.id /\ e.ins = answer.data

LogOK ==
  answer.kind = "log" =>
    /\ answer.by \in Contract
    /\ answer.event \in EventsOf[answer.by]
    /\ answer.topics = <<Topic(answer.event)>> \o answer.event.indexed

Answered == CallOK /\ ReturnOK /\ RevertOK /\ LogOK

Truly ==
  /\ ValuesAreOfTheMethod
  /\ NamedErrorsAreTrue
  /\ UnknownErrorsAreForeign
  /\ EventsAreNamedTruly

IInv == Answered /\ Truly

LEMMA SelectorIsOwn ==
  ASSUME NEW b \in Contract, NEW m \in MethodsOf[b]
  PROVE  Selector(b, m) = m.id
  BY KeysTellApart DEF Selector

LEMMA InitIInv == Init => IInv
  BY DEF Init, IInv, Answered, Truly, CallOK, ReturnOK, RevertOK, LogOK,
     Nothing, ValuesAreOfTheMethod, NamedErrorsAreTrue,
     UnknownErrorsAreForeign, EventsAreNamedTruly

(* After a step that leaves nothing seen the claims about what is seen hold. *)
LEMMA NothingSeen == seen' = Nothing => Truly'
  BY DEF Nothing, Truly, ValuesAreOfTheMethod, NamedErrorsAreTrue,
     UnknownErrorsAreForeign, EventsAreNamedTruly

(* So they do when what is seen is a failure, or that something was sent.  *)
LEMMA FailureSeen == seen' \in {Panicked, Failed, Sent} => Truly'
  BY DEF Panicked, Failed, Sent, Truly, ValuesAreOfTheMethod, NamedErrorsAreTrue,
     UnknownErrorsAreForeign, EventsAreNamedTruly

LEMMA SeenOnly == Answered /\ UNCHANGED <<code, call, answer>> => Answered'
  BY DEF Answered, CallOK, ReturnOK, RevertOK, LogOK, Called

LEMMA PackStep ==
  ASSUME IInv, NEW b \in Contract, NEW m \in MethodsOf[b],
         NEW to \in DOMAIN code, Pack(b, m, to)
  PROVE  IInv'
<1>1. /\ call'.binding = b /\ call'.method = m
      /\ call'.id = m.id /\ call'.to = to
  BY SelectorIsOwn DEF Pack
<1>2. answer' = Nothing /\ seen' = Nothing /\ code' = code
  BY DEF Pack, Idle
<1>3. Answered'
  BY <1>1, <1>2 DEF IInv, Answered, CallOK, ReturnOK, RevertOK, LogOK, Nothing
<1> QED BY <1>2, <1>3, NothingSeen DEF IInv

LEMMA PackNilStep ==
  ASSUME IInv, NEW b, NEW m, PackNil(b, m)
  PROVE  IInv'
  BY SeenOnly, FailureSeen DEF PackNil, IInv

(* An answer that is not an outcome of a run.                              *)
LEMMA NobodyThereStep == IInv /\ NobodyThere => IInv'
<1> SUFFICES ASSUME IInv, NobodyThere PROVE IInv'
  OBVIOUS
<1>1. answer'.kind = "noCode" /\ seen' = Nothing /\ UNCHANGED <<code, call>>
  BY DEF NobodyThere, Awaited, Answers
<1>2. Answered'
  BY <1>1 DEF IInv, Answered, CallOK, ReturnOK, RevertOK, LogOK
<1> QED BY <1>1, <1>2, NothingSeen DEF IInv

LEMMA RevertsBareStep == IInv /\ RevertsBare => IInv'
<1> SUFFICES ASSUME IInv, RevertsBare PROVE IInv'
  OBVIOUS
<1>1. answer' = RevertedBare /\ seen' = Nothing /\ UNCHANGED <<code, call>>
  BY DEF RevertsBare, Awaited, Answers
<1>2. answer'.kind = "reverted" /\ answer'.id = ""
  BY <1>1 DEF RevertedBare, Reverted
<1>3. Answered'
  BY <1>1, <1>2 DEF IInv, Answered, CallOK, ReturnOK, RevertOK, LogOK
<1> QED BY <1>1, <1>3, NothingSeen DEF IInv

(* A call is answered by a contract if there is one at its address.        *)
LEMMA CalledIsContract ==
  IInv /\ call # Nothing /\ Called # NoCode => Called \in Contract
  BY BindingConstants DEF IInv, Answered, CallOK, Called

LEMMA ReturnsStep == IInv /\ Returns => IInv'
<1> SUFFICES ASSUME IInv, Returns PROVE IInv'
  OBVIOUS
<1>0. Called \in Contract
  BY CalledIsContract DEF Returns, Awaited
<1>1. PICK f \in MethodsOf[Called] :
        /\ f.id = call.id
        /\ answer' = [kind |-> "returned", function |-> f, data |-> f.outs]
  BY DEF Returns, Selected, Answers
<1>2. seen' = Nothing /\ UNCHANGED <<code, call>> /\ call # Nothing
  BY DEF Returns, Awaited, Answers
<1>3. answer'.kind = "returned" /\ answer'.function = f /\ answer'.data = f.outs
  BY <1>1
<1>4. Answered'
  BY <1>0, <1>1, <1>2, <1>3 DEF IInv, Answered, CallOK, ReturnOK, RevertOK, LogOK, Called
<1> QED BY <1>2, <1>4, NothingSeen DEF IInv

(* What reverts a call is raised by the contract called or one it reaches. *)
LEMMA RevertsStep == IInv /\ Reverts => IInv'
<1> SUFFICES ASSUME IInv, Reverts PROVE IInv'
  OBVIOUS
<1>0. Called \in Contract
  BY CalledIsContract DEF Reverts, Awaited
<1>1. PICK f \in Selected(Called) :
        \E d \in {Called} \cup {r[3] : r \in {s \in Reaches : s[1] = Called /\ s[2] = f.name}} :
        \E e \in ErrorsOf[d] \cup LanguageErrors : Answers(Reverted(d, e.id, e.ins))
  BY DEF Reverts
<1>2. PICK d \in {Called} \cup {r[3] : r \in {s \in Reaches : s[1] = Called /\ s[2] = f.name}} :
        \E e \in ErrorsOf[d] \cup LanguageErrors : Answers(Reverted(d, e.id, e.ins))
  BY <1>1
<1>3. d \in Contract
  BY <1>0, BindingConstants
<1>4. PICK e \in ErrorsOf[d] \cup LanguageErrors : Answers(Reverted(d, e.id, e.ins))
  BY <1>2
<1>5. /\ answer'.kind = "reverted" /\ answer'.by = d
      /\ answer'.id = e.id /\ answer'.data = e.ins
      /\ seen' = Nothing /\ UNCHANGED <<code, call>>
  BY <1>4 DEF Answers, Reverted, Reverts, Awaited
<1>6. Answered'
  BY <1>3, <1>5 DEF IInv, Answered, CallOK, ReturnOK, RevertOK, LogOK
<1> QED BY <1>5, <1>6, NothingSeen DEF IInv

LEMMA FindLogStep == IInv /\ FindLog => IInv'
<1> SUFFICES ASSUME IInv, FindLog PROVE IInv'
  OBVIOUS
<1>1. PICK c \in {code[a] : a \in DOMAIN code} \ {NoCode} :
        \E e \in EventsOf[c] :
          answer' = [kind |-> "log", by |-> c, event |-> e,
                     topics |-> <<Topic(e)>> \o e.indexed, data |-> e.data]
  BY DEF FindLog
<1>2. c \in Contract
  BY <1>1, BindingConstants DEF IInv, Answered, CallOK
<1>3. seen' = Nothing /\ UNCHANGED <<code, call>>
  BY DEF FindLog, Idle
<1>4. PICK e \in EventsOf[c] :
        answer' = [kind |-> "log", by |-> c, event |-> e,
                   topics |-> <<Topic(e)>> \o e.indexed, data |-> e.data]
  BY <1>1, Zenon
<1> DEFINE topics == <<Topic(e)>> \o e.indexed
<1>5. /\ answer'.kind = "log" /\ answer'.by = c /\ answer'.event = e
      /\ answer'.topics = topics
  <2> HIDE DEF topics
  <2> QED BY <1>4 DEF topics
<1>6. Answered'
  BY <1>2, <1>3, <1>4, <1>5 DEF IInv, Answered, CallOK, ReturnOK, RevertOK, LogOK
<1> QED BY <1>3, <1>6, NothingSeen DEF IInv

(* A value is read from what the function with the packed selector         *)
(* returned, and the selector has one meaning.                             *)
LEMMA UnpackStep == IInv /\ Unpack => IInv'
<1> SUFFICES ASSUME IInv, Unpack PROVE IInv'
  OBVIOUS
<1>1. /\ UNCHANGED <<code, call, answer>> /\ answer.kind = "returned"
      /\ \/ seen' = Failed
         \/ seen' = [kind |-> "value", method |-> call.method]
  BY DEF Unpack, Sees
<1>2. Answered'
  BY <1>1, SeenOnly DEF IInv
<1>3. CASE seen' = Failed
  BY <1>2, <1>3, FailureSeen DEF IInv
<1>4. CASE seen' = [kind |-> "value", method |-> call.method]
  <2>1. /\ Called \in Contract /\ call.binding \in Contract
        /\ call.method \in MethodsOf[call.binding]
        /\ answer.function \in MethodsOf[Called]
        /\ call.method.id = answer.function.id
        /\ answer.data = answer.function.outs
    BY <1>1 DEF IInv, Answered, CallOK, ReturnOK
  <2>2. /\ call.method.name = answer.function.name
        /\ call.method.ins = answer.function.ins
        /\ call.method.outs = answer.function.outs
    BY <2>1, SelectorsTellApart
  <2>3. seen'.kind = "value"
    BY <1>4
  <2>4. Truly'
    BY <1>1, <2>1, <2>2, <2>3 DEF Truly, ValuesAreOfTheMethod, NamedErrorsAreTrue,
       UnknownErrorsAreForeign, EventsAreNamedTruly, Called
  <2> QED BY <1>2, <2>4 DEF IInv
<1> QED BY <1>1, <1>3, <1>4

LEMMA NoCodeStep == IInv /\ (NoCodeError \/ SentToNobody) => IInv'
  BY SeenOnly, FailureSeen DEF NoCodeError, SentToNobody, Sees, IInv

(* An error is recognised by its first four bytes, which no other error    *)
(* has, of whichever contract.                                             *)
LEMMA UnpackErrorStep ==
  ASSUME IInv, NEW b \in Contract, UnpackError(b)
  PROVE  IInv'
<1>1. /\ UNCHANGED <<code, call, answer>> /\ answer.kind = "reverted"
      /\ seen' = Decoded(b)
  BY DEF UnpackError, Sees
<1>2. Answered'
  BY <1>1, SeenOnly DEF IInv
<1>3. CASE answer.id = ""
  BY <1>1, <1>2, <1>3, FailureSeen DEF Decoded, IInv
<1>4. CASE answer.id # "" /\ \E e \in ErrorsOf[b] : e.id = answer.id
  <2> DEFINE e == CHOOSE x \in ErrorsOf[b] : x.id = answer.id
  <2>1. e \in ErrorsOf[b] /\ e.id = answer.id
    BY <1>4
  <2> HIDE DEF e
  <2>2. \/ seen' = Failed
        \/ seen' = [kind |-> "error", binding |-> b, error |-> e]
    BY <1>1, <1>4 DEF Decoded, e
  <2>3. CASE seen' = Failed
    BY <1>2, <2>3, FailureSeen DEF IInv
  <2>4. CASE seen' = [kind |-> "error", binding |-> b, error |-> e]
    <3>1. PICK r \in ErrorsOf[answer.by] \cup LanguageErrors :
            r.id = answer.id /\ r.ins = answer.data
      BY <1>1, <1>4 DEF IInv, Answered, RevertOK
    <3>2. answer.by \in Contract
      BY <1>1, <1>4 DEF IInv, Answered, RevertOK
    <3>3. r = e
      BY <2>1, <3>1, <3>2, ErrorsTellApart
    <3>4. e \in ErrorsOf[answer.by]
      BY <2>1, <3>1, <3>3, LanguageErrorsAreUndeclared
    <3>5. /\ seen'.kind = "error" /\ seen'.error = e
          /\ answer' = answer
      BY <1>1, <2>4
    <3>6. Truly'
      BY <2>1, <3>1, <3>3, <3>4, <3>5 DEF Truly, ValuesAreOfTheMethod,
         NamedErrorsAreTrue, UnknownErrorsAreForeign, EventsAreNamedTruly
    <3> QED BY <1>2, <3>6 DEF IInv
  <2> QED BY <2>2, <2>3, <2>4
<1>5. CASE answer.id # "" /\ ~(\E e \in ErrorsOf[b] : e.id = answer.id)
  <2>1. seen' = [kind |-> "unknown", binding |-> b]
    BY <1>1, <1>5 DEF Decoded
  <2>2. /\ seen'.kind = "unknown" /\ seen'.binding = b
        /\ answer' = answer
    BY <1>1, <2>1
  <2>3. Truly'
    BY <1>5, <2>2 DEF Truly, ValuesAreOfTheMethod,
       NamedErrorsAreTrue, UnknownErrorsAreForeign, EventsAreNamedTruly
  <2> QED BY <1>2, <2>3 DEF IInv
<1> QED BY <1>3, <1>4, <1>5

LEMMA ConcatSplit ==
  ASSUME NEW S, NEW s \in Seq(S), NEW t \in Seq(S), NEW u \in Seq(S), NEW v \in Seq(S),
         Len(s) = Len(u), s \o t = u \o v
  PROVE  s = u /\ t = v
<1>1. \A i \in 1 .. Len(s) : (s \o t)[i] = s[i] /\ (u \o v)[i] = u[i]
  BY ConcatProperties, LenProperties
<1>2. s = u
  BY <1>1, SeqEqual
<1>3. \A w, x, y \in Seq(S) : w \o x = w \o y => x = y
  BY ConcatSimplifications
<1> QED BY <1>2, <1>3

(* The signature and the number of indexed parameters determine an event.  *)
LEMMA EventOfTopics ==
  ASSUME NEW b \in Contract, NEW e \in EventsOf[b],
         NEW c \in Contract, NEW f \in EventsOf[c],
         Topic(e) = Topic(f), Len(e.indexed) = Len(f.indexed)
  PROVE  e = f
<1>1. /\ e \in [name : STRING, indexed : Seq(STRING), data : Seq(STRING)]
      /\ f \in [name : STRING, indexed : Seq(STRING), data : Seq(STRING)]
  BY EventTypes
<1>2. e.name = f.name /\ e.indexed \o e.data = f.indexed \o f.data
  BY DEF Topic
<1>3. e.indexed = f.indexed /\ e.data = f.data
  BY <1>1, <1>2, ConcatSplit
<1> QED BY <1>1, <1>2, <1>3

LEMMA UnpackEventStep ==
  ASSUME IInv, NEW b \in Contract, NEW e \in EventsOf[b], UnpackEvent(b, e)
  PROVE  IInv'
<1>1. /\ UNCHANGED <<code, call, answer>> /\ answer.kind = "log"
      /\ \/ seen' = Failed
         \/ Matches(e) /\ seen' = [kind |-> "event", binding |-> b, event |-> e]
  BY DEF UnpackEvent, Sees
<1>2. Answered'
  BY <1>1, SeenOnly DEF IInv
<1>3. CASE seen' = Failed
  BY <1>2, <1>3, FailureSeen DEF IInv
<1>4. CASE Matches(e) /\ seen' = [kind |-> "event", binding |-> b, event |-> e]
  <2> DEFINE f == answer.event
             S == STRING \cup {Topic(f)}
  <2>1. /\ answer.by \in Contract /\ f \in EventsOf[answer.by]
        /\ answer.topics = <<Topic(f)>> \o f.indexed
    BY <1>1 DEF IInv, Answered, LogOK
  <2>2. f \in [name : STRING, indexed : Seq(STRING), data : Seq(STRING)]
    BY <2>1, EventTypes
  <2>3. <<Topic(f)>> \in Seq(S) /\ f.indexed \in Seq(S)
    BY <2>2, SeqMonotonic
  <2>4. answer.topics[1] = Topic(f) /\ Len(answer.topics) = 1 + Len(f.indexed)
    <3> HIDE DEF f, S
    <3>1. Len(<<Topic(f)>>) = 1 /\ <<Topic(f)>>[1] = Topic(f)
      OBVIOUS
    <3>2. Len(f.indexed) \in Nat
      BY <2>3, LenProperties
    <3> QED BY <2>1, <2>3, <3>1, <3>2, ConcatProperties
  <2>5. e \in [name : STRING, indexed : Seq(STRING), data : Seq(STRING)]
    BY EventTypes
  <2>6. Topic(e) = Topic(f) /\ Len(e.indexed) = Len(f.indexed)
    BY <1>4, <2>2, <2>4, <2>5, LenProperties DEF Matches
  <2>7. e = f
    BY <2>1, <2>6, EventOfTopics
  <2>8. seen'.kind = "event" /\ seen'.event = e /\ answer' = answer
    BY <1>1, <1>4
  <2>9. Truly'
    BY <2>1, <2>7, <2>8 DEF Truly, ValuesAreOfTheMethod,
       NamedErrorsAreTrue, UnknownErrorsAreForeign, EventsAreNamedTruly
  <2> QED BY <1>2, <2>9 DEF IInv
<1> QED BY <1>1, <1>3, <1>4

LEMMA DoneStep == IInv /\ Done => IInv'
<1> SUFFICES ASSUME IInv, Done PROVE IInv'
  OBVIOUS
<1>1. call' = Nothing /\ answer' = Nothing /\ seen' = Nothing /\ code' = code
  BY DEF Done
<1>2. Answered'
  BY <1>1 DEF IInv, Answered, CallOK, ReturnOK, RevertOK, LogOK, Nothing
<1> QED BY <1>1, <1>2, NothingSeen DEF IInv

LEMMA StepIInv == IInv /\ [Next]_vars => IInv'
<1> SUFFICES ASSUME IInv, [Next]_vars PROVE IInv'
  OBVIOUS
<1>1. CASE UNCHANGED vars
  BY <1>1 DEF vars, IInv, Answered, CallOK, ReturnOK, RevertOK, LogOK, Called, Truly,
     ValuesAreOfTheMethod, NamedErrorsAreTrue, UnknownErrorsAreForeign, EventsAreNamedTruly
<1>2. ASSUME NEW b \in Contract, NEW m \in MethodsOf[b], PackNil(b, m) PROVE IInv'
  BY <1>2, PackNilStep
<1>3. ASSUME NEW b \in Contract, NEW m \in MethodsOf[b], NEW to \in DOMAIN code, Pack(b, m, to)
      PROVE  IInv'
  BY <1>3, PackStep
<1>4. CASE NobodyThere \/ RevertsBare \/ Returns \/ Reverts \/ FindLog
  BY <1>4, NobodyThereStep, RevertsBareStep, ReturnsStep, RevertsStep, FindLogStep
<1>5. CASE Unpack \/ NoCodeError \/ SentToNobody \/ Done
  BY <1>5, UnpackStep, NoCodeStep, DoneStep
<1>6. ASSUME NEW b \in Contract, UnpackError(b) PROVE IInv'
  BY <1>6, UnpackErrorStep
<1>7. ASSUME NEW b \in Contract, NEW e \in EventsOf[b], UnpackEvent(b, e) PROVE IInv'
  BY <1>7, UnpackEventStep
<1> QED BY <1>1, <1>2, <1>3, <1>4, <1>5, <1>6, <1>7 DEF Next

THEOREM BindingsInvariant == Spec => []IInv
<1> QED BY InitIInv, StepIInv, PTL DEF Spec

(* A value is what the function of the packed signature returned.          *)
THEOREM ValuesAreTrue == Spec => []ValuesAreOfTheMethod
<1>1. IInv => ValuesAreOfTheMethod
  BY DEF IInv, Truly
<1> QED BY <1>1, BindingsInvariant, PTL

(* UnpackError names an error as it was raised, by whichever contract, and *)
(* fails to name none of its own contract's.                               *)
THEOREM ErrorsAreTrue == Spec => []ErrorsAreNamedTruly
<1>1. IInv => ErrorsAreNamedTruly
  BY DEF IInv, Truly, ErrorsAreNamedTruly
<1> QED BY <1>1, BindingsInvariant, PTL

(* UnpackXEvent reads a log as no other event than it was emitted as.      *)
THEOREM EventsAreTrue == Spec => []EventsAreNamedTruly
<1>1. IInv => EventsAreNamedTruly
  BY DEF IInv, Truly
<1> QED BY <1>1, BindingsInvariant, PTL

=============================================================================

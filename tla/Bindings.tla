------------------------------ MODULE Bindings ------------------------------
(***************************************************************************)
(* A Go program that uses contracts through their generated bindings: it   *)
(* packs a call for some address, the contract that is there runs it, and  *)
(* the program unpacks what comes back: the returned values, the error the *)
(* call was reverted with, by UnpackError, or a log, by the UnpackXEvent   *)
(* of its choice.                                                          *)
(*                                                                         *)
(* What a binding has no part in is left open: whether the call succeeds,  *)
(* and which of its own errors, of those of a contract it calls, or of     *)
(* the two of the language, it is reverted with.                           *)
(***************************************************************************)
EXTENDS Abi

CONSTANTS
  Contract,    \* contracts, each with a binding of its name
  MethodsOf,     \* [Contract -> methods]
  EventsOf,      \* [Contract -> events]
  ErrorsOf,      \* [Contract -> custom errors]
  Reaches,     \* <<c, name, d>>: c's function of that name calls d
  Deployments, \* functions from addresses to Contract or NoCode
  NoCode       \* what is at an address without code

(* Error(string) and Panic(uint256).                                       *)
LanguageErrors ==
  {CustomError("Error", "0x08c379a0", <<"string">>),
   CustomError("Panic", "0x4e487b71", <<"uint256">>)}

ASSUME BindingConstants ==
  /\ NoCode \notin Contract
  /\ \A d \in Deployments : \A a \in DOMAIN d : d[a] \in Contract \cup {NoCode}
  /\ \A r \in Reaches : r[3] \in Contract

ASSUME KeysTellApart ==
  \A b \in Contract : \A m, n \in MethodsOf[b] : m.key = n.key => m = n

(* Four bytes stand for one function, whichever contracts declare it: no   *)
(* two signatures of these contracts have the same selector.               *)
ASSUME SelectorsTellApart ==
  \A b, c \in Contract : \A m \in MethodsOf[b], f \in MethodsOf[c] :
    m.id = f.id => m.name = f.name /\ m.ins = f.ins /\ m.outs = f.outs

ASSUME ErrorsTellApart ==
  \A b, c \in Contract :
    \A e \in ErrorsOf[b] \cup LanguageErrors, f \in ErrorsOf[c] \cup LanguageErrors :
      e.id = f.id => e = f

ASSUME EventTypes ==
  \A c \in Contract : EventsOf[c] \subseteq
    [name : STRING, indexed : Seq(STRING), data : Seq(STRING)]

ASSUME LanguageErrorsAreUndeclared ==
  \A c \in Contract : ErrorsOf[c] \cap LanguageErrors = {}

VARIABLES
  code,   \* what is deployed where
  call,   \* the call the program has packed
  answer, \* what came back from the node
  seen    \* what the program made of it

vars == <<code, call, answer, seen>>

Nothing == [kind |-> "nothing"]
Failed == [kind |-> "failed"]       \* the function returned an error
Panicked == [kind |-> "panicked"]   \* the function panicked
Sent == [kind |-> "sent"]           \* a transaction succeeded

Idle == call = Nothing /\ answer = Nothing /\ seen = Nothing

Init ==
  /\ code \in Deployments
  /\ call = Nothing /\ answer = Nothing /\ seen = Nothing

-----------------------------------------------------------------------------
(* Packing.                                                                *)

(* Mutant: a method is looked up by its Solidity name.                     *)
SelectorOfName(b, m) == (CHOOSE n \in MethodsOf[b] : n.name = m.name).id

(* abi.Pack: a method is looked up by its key.                             *)
Selector(b, m) == (CHOOSE n \in MethodsOf[b] : n.key = m.key).id

Pack(b, m, to) ==
  /\ Idle
  /\ call' = [kind |-> "call", binding |-> b, method |-> m, to |-> to, id |-> Selector(b, m)]
  /\ UNCHANGED <<code, answer, seen>>

(* With nil for a *big.Int PackX panics and TryPackX fails: nothing is     *)
(* sent.                                                                   *)
PackNil(b, m) ==
  /\ Idle
  /\ \E i \in 1 .. Len(m.ins) : m.ins[i] \in {"uint48", "uint256", "uint256[]"}
  /\ seen' \in {Panicked, Failed}
  /\ UNCHANGED <<code, call, answer>>

-----------------------------------------------------------------------------
(* The node and the contract.                                              *)

Reverted(by, id, data) == [kind |-> "reverted", by |-> by, id |-> id, data |-> data]

(* Without an error there is no data at all.                               *)
RevertedBare == Reverted(NoCode, "", <<>>)

(* The functions of a contract that calldata selects.                      *)
Selected(c) == {f \in MethodsOf[c] : f.id = call.id}

Awaited == call # Nothing /\ answer = Nothing /\ seen = Nothing

Called == code[call.to]

Answers(a) ==
  /\ answer' = a
  /\ UNCHANGED <<code, call, seen>>

(* There is no code at the address.                                        *)
NobodyThere == Awaited /\ Called = NoCode /\ Answers([kind |-> "noCode"])

(* No function of the contract is meant, its arguments do not decode (as a *)
(* *big.Int packed for a uint48 that is too large), it takes no ether, gas *)
(* runs out, or what it calls reverts without data.                        *)
RevertsBare == Awaited /\ Called # NoCode /\ Answers(RevertedBare)

Returns ==
  /\ Awaited /\ Called # NoCode
  /\ \E f \in Selected(Called) :
       Answers([kind |-> "returned", function |-> f, data |-> f.outs])

(* A revert passes through the calling contracts as it is.                 *)
Reverts ==
  /\ Awaited /\ Called # NoCode
  /\ \E f \in Selected(Called) :
     \E d \in {Called} \cup {r[3] : r \in {s \in Reaches : s[1] = Called /\ s[2] = f.name}} :
     \E e \in ErrorsOf[d] \cup LanguageErrors :
       Answers(Reverted(d, e.id, e.ins))

(* FilterLogs: a log some contract has emitted.                            *)
FindLog ==
  /\ Idle
  /\ \E c \in {code[a] : a \in DOMAIN code} \ {NoCode} : \E e \in EventsOf[c] :
       answer' = [kind |-> "log", by |-> c, event |-> e,
                  topics |-> <<Topic(e)>> \o e.indexed, data |-> e.data]
  /\ UNCHANGED <<code, call, seen>>

-----------------------------------------------------------------------------
(* Unpacking.                                                              *)

Sees(x) ==
  /\ seen = Nothing
  /\ seen' = x
  /\ UNCHANGED <<code, call, answer>>

(* UnpackX; a method that returns nothing has none.                        *)
Unpack ==
  /\ answer.kind = "returned"
  /\ Sees(IF Reads(call.method.outs, answer.data)
          THEN [kind |-> "value", method |-> call.method] ELSE Failed)

(* bind.Call looks for code where nothing is returned, and bind.Transact   *)
(* before it estimates the gas.                                            *)
NoCodeError == answer.kind = "noCode" /\ Sees(Failed)

(* With a gas limit of its own (deployer.go:42) bind.Transact does not.    *)
SentToNobody == answer.kind = "noCode" /\ Sees(Sent)

(* Mutant: data that carries an error's parameters is taken for it.        *)
DecodedByShape(b) ==
  IF answer.id = "" THEN Panicked
  ELSE IF \E e \in ErrorsOf[b] : e.ins = answer.data
       THEN [kind |-> "error", binding |-> b, error |-> CHOOSE e \in ErrorsOf[b] : e.ins = answer.data]
       ELSE [kind |-> "unknown", binding |-> b]

(* UnpackError: the first four bytes are compared with each declared       *)
(* error's; taking them from shorter data is out of range.                 *)
Decoded(b) ==
  IF answer.id = "" THEN Panicked
  ELSE IF \E e \in ErrorsOf[b] : e.id = answer.id
       THEN LET e == CHOOSE e \in ErrorsOf[b] : e.id = answer.id IN
            IF Reads(e.ins, answer.data)
            THEN [kind |-> "error", binding |-> b, error |-> e] ELSE Failed
       ELSE [kind |-> "unknown", binding |-> b]

(* It is generated for a contract that declares errors.                    *)
UnpackError(b) == answer.kind = "reverted" /\ ErrorsOf[b] # {} /\ Sees(Decoded(b))

(* Mutant: the first topic is not compared.                                *)
MatchesUnsigned(e) == Len(answer.topics) = 1 + Len(e.indexed)

(* The topic is the event's, and there is one more for each parameter that *)
(* is indexed.                                                             *)
Matches(e) == answer.topics[1] = Topic(e) /\ Len(answer.topics) = 1 + Len(e.indexed)

(* UnpackXEvent; data that is empty is not looked at.                      *)
UnpackEvent(b, e) ==
  /\ answer.kind = "log"
  /\ Sees(IF Matches(e) /\ (answer.data # <<>> => Reads(e.data, answer.data))
          THEN [kind |-> "event", binding |-> b, event |-> e] ELSE Failed)

(* The program turns to something else.                                    *)
Done ==
  /\ seen # Nothing
  /\ call' = Nothing /\ answer' = Nothing /\ seen' = Nothing
  /\ UNCHANGED code

Next ==
  \/ \E b \in Contract : \E m \in MethodsOf[b] :
       PackNil(b, m) \/ \E to \in DOMAIN code : Pack(b, m, to)
  \/ NobodyThere \/ RevertsBare \/ Returns \/ Reverts \/ FindLog
  \/ Unpack \/ NoCodeError \/ SentToNobody
  \/ \E b \in Contract : UnpackError(b) \/ \E e \in EventsOf[b] : UnpackEvent(b, e)
  \/ Done

Spec == Init /\ [][Next]_vars

-----------------------------------------------------------------------------
(* What a program reads as the result of a method is what the function of  *)
(* that signature returned, at a contract that declares it: never of an    *)
(* overload, nor of a contract deployed in the other's place.              *)
ValuesAreOfTheMethod ==
  seen.kind = "value" =>
    /\ answer.function \in MethodsOf[Called]
    /\ answer.function.name = call.method.name
    /\ answer.function.ins = call.method.ins
    /\ answer.data = call.method.outs

NamedErrorsAreTrue ==
  seen.kind = "error" =>
    /\ seen.error \in ErrorsOf[answer.by]
    /\ seen.error.id = answer.id /\ seen.error.ins = answer.data

UnknownErrorsAreForeign ==
  seen.kind = "unknown" =>
    \A e \in ErrorsOf[answer.by] : e.id = answer.id => answer.by # seen.binding

(* UnpackError names an error as it was raised, in whichever of the        *)
(* contracts that took part in the call, and "Unknown error" never stands  *)
(* for an error of the contract whose binding is asked: it is one of       *)
(* another contract's that reverted the call from within, or one of the    *)
(* language.                                                               *)
ErrorsAreNamedTruly == NamedErrorsAreTrue /\ UnknownErrorsAreForeign

(* A log is read as no other event than it was emitted as, and where the   *)
(* binding is not the emitter's, both declare that event.                  *)
EventsAreNamedTruly ==
  seen.kind = "event" =>
    /\ Topic(seen.event) = Topic(answer.event)
    /\ seen.event.indexed = answer.event.indexed
    /\ seen.event \in EventsOf[answer.by]
=============================================================================

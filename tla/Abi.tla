--------------------------------- MODULE Abi ---------------------------------
(***************************************************************************)
(* What a contract and its Go binding say to each other: calldata, returned *)
(* data, revert data and logs, as go-ethereum's package abi writes and      *)
(* reads them.  Data is the sequence of the types of the values in it: it   *)
(* is read back as other types only if it starts with those types.          *)
(***************************************************************************)
EXTENDS Naturals, Sequences

(* A method: its key in the binding's ABI, its Solidity name, its four-byte *)
(* selector, the types it takes and returns.  The second of two overloaded  *)
(* functions has a key that differs from its name.                          *)
Overload(key, name, id, ins, outs) ==
  [key |-> key, name |-> name, id |-> id, ins |-> ins, outs |-> outs]

Method(name, id, ins, outs) == Overload(name, name, id, ins, outs)

(* An event: its indexed parameters, which come first, and the others.      *)
Event(name, indexed, data) == [name |-> name, indexed |-> indexed, data |-> data]

(* A custom error: the first four bytes of its hash, and its parameters.    *)
CustomError(name, id, ins) == [name |-> name, id |-> id, ins |-> ins]

(* The first topic of a log is the hash of the event's signature.           *)
Topic(e) == [name |-> e.name, types |-> e.indexed \o e.data]

(* Arguments.Unpack: data that is too short or of another shape is an       *)
(* error, what follows the expected values is ignored.                      *)
Reads(types, data) ==
  /\ Len(types) <= Len(data)
  /\ \A i \in 1 .. Len(types) : data[i] = types[i]
=============================================================================

----------------------------- MODULE ChainStorage -----------------------------
(***************************************************************************)
(* ChainStorageContainer over Lib_Buffer: an array with one word of extra  *)
(* data beside its length.  Deleting only lowers the length, so the slots  *)
(* above it keep stale objects until a push overwrites them; reads are     *)
(* bounded by the length.  Both values are uint40 and, under Solidity 0.8, *)
(* an increment past MaxUint40 reverts.                                    *)
(***************************************************************************)
EXTENDS Integers

CONSTANTS
  MaxUint40,   \* 2^40 - 1 in the contracts
  NoObject     \* the content of a slot that was never written

ASSUME MaxUint40Assumption == MaxUint40 \in Nat

Uint40 == 0 .. MaxUint40

\* A push writes at index length and then increments length, so the last
\* index ever written is MaxUint40 - 1.
Slots == 0 .. MaxUint40 - 1

Buffers(Object, Extra) ==
  [length : Uint40, extraData : Extra, buf : [Slots -> Object \cup {NoObject}]]

EmptyBuffer(extra) ==
  [length |-> 0, extraData |-> extra, buf |-> [i \in Slots |-> NoObject]]

CanPush_Unchecked(b) == TRUE

CanPush(b) == b.length < MaxUint40

Push(b, object, extra) ==
  [length    |-> b.length + 1,
   extraData |-> extra,
   buf       |-> [b.buf EXCEPT ![b.length] = object]]

InBounds(b, index) == index < b.length

Get(b, index) == b.buf[index]

DeleteElementsAfterInclusive(b, index, extra) ==
  [b EXCEPT !.length = index, !.extraData = extra]
=============================================================================

--------------------------------- MODULE Buffers --------------------------------
(***************************************************************************)
(* The result buffers of packet-generator.c, which grow while their parts  *)
(* are decoded one after the other: parse_elements, which reallocates when *)
(* its total reaches real_length, and parse_repetition, which doubles      *)
(* until the next part fits.                                               *)
(***************************************************************************)
EXTENDS Integers

CONSTANTS
  MaxParts,  \* how many elements or repetitions there are at most
  MaxLength  \* how many octets one of them is decoded to at most

ASSUME BuffersAssumption == MaxParts \in Nat /\ MaxLength \in Nat

VARIABLES
  caller,       \* "elements", "repetition"
  pc,
  parts,        \* fields, or quantity
  i,            \* how many of them are decoded
  length,       \* partial_length, or temp_length
  position,     \* where the next part goes
  real_length,
  allocated,    \* how many octets the result has
  result        \* the part each octet was copied from, 0 if from none

vars == <<caller, pc, parts, i, length, position, real_length, allocated,
          result>>

-----------------------------------------------------------------------------
(* realloc keeps what fits.                                                *)
Realloc(n) ==
  /\ allocated' = n
  /\ result' = [j \in 0..(n - 1) |-> IF j < allocated THEN result[j] ELSE 0]

Init ==
  /\ caller \in {"elements", "repetition"}
  /\ pc = "begin"
  /\ parts \in 0..MaxParts
  /\ caller = "elements" => parts > 0
  /\ i = 0 /\ length = 0 /\ position = 0
  /\ real_length = 0 /\ allocated = 0 /\ result = [j \in {} |-> 0]

(* A buffer of one octet is claimed, and none allocated.                   *)
ElementsBegin ==
  /\ pc = "begin" /\ caller = "elements"
  /\ real_length' = 1
  /\ pc' = "decode"
  /\ UNCHANGED <<caller, parts, i, length, position, allocated, result>>

(* A version that goes on with a quantity of none.                         *)
RepetitionBegin_None ==
  /\ pc = "begin" /\ caller = "repetition"
  /\ Realloc(parts)
  /\ real_length' = parts
  /\ pc' = IF parts = 0 THEN "grow" ELSE "decode"
  /\ UNCHANGED <<caller, parts, i, length, position>>

(* calloc(quantity), unless there is nothing to repeat.                    *)
RepetitionBegin ==
  /\ pc = "begin" /\ caller = "repetition"
  /\ Realloc(parts)
  /\ real_length' = parts
  /\ pc' = IF parts = 0 THEN "done" ELSE "decode"
  /\ UNCHANGED <<caller, parts, i, length, position>>

Decode ==
  /\ pc = "decode" /\ i < parts
  /\ length' \in 0..MaxLength
  /\ i' = i + 1
  /\ pc' = "grow"
  /\ UNCHANGED <<caller, parts, position, real_length, allocated, result>>

(* A version that compares the part with the buffer, not the total.        *)
ElementsGrow_Part ==
  /\ pc = "grow" /\ caller = "elements"
  /\ IF length >= real_length
     THEN Realloc((position + length) * 2)
          /\ real_length' = (position + length) * 2
     ELSE UNCHANGED <<real_length, allocated, result>>
  /\ pc' = "copy"
  /\ UNCHANGED <<caller, parts, i, length, position>>

ElementsGrow ==
  /\ pc = "grow" /\ caller = "elements"
  /\ IF position + length >= real_length
     THEN Realloc((position + length) * 2)
          /\ real_length' = (position + length) * 2
     ELSE UNCHANGED <<real_length, allocated, result>>
  /\ pc' = "copy"
  /\ UNCHANGED <<caller, parts, i, length, position>>

RepetitionGrow ==
  /\ pc = "grow" /\ caller = "repetition"
  /\ IF position + length >= real_length
     THEN Realloc(2 * real_length) /\ real_length' = 2 * real_length
          /\ UNCHANGED pc
     ELSE pc' = "copy" /\ UNCHANGED <<real_length, allocated, result>>
  /\ UNCHANGED <<caller, parts, i, length, position>>

(* A version that copies behind what is there, not after the last part.    *)
Copy_Behind ==
  /\ pc = "copy"
  /\ result' = [j \in 0..(allocated - 1) |->
                  IF position < j /\ j <= position + length THEN i
                  ELSE result[j]]
  /\ position' = position + length
  /\ pc' = "decode"
  /\ UNCHANGED <<caller, parts, i, length, real_length, allocated>>

(* memcpy                                                                  *)
Copy ==
  /\ pc = "copy"
  /\ result' = [j \in 0..(allocated - 1) |->
                  IF position <= j /\ j < position + length THEN i
                  ELSE result[j]]
  /\ position' = position + length
  /\ pc' = "decode"
  /\ UNCHANGED <<caller, parts, i, length, real_length, allocated>>

(* The result is cut to what was decoded.                                  *)
Finish ==
  /\ pc = "decode" /\ i = parts
  /\ Realloc(position)
  /\ pc' = "done"
  /\ UNCHANGED <<caller, parts, i, length, position, real_length>>

Next ==
  \/ ElementsBegin \/ RepetitionBegin \/ Decode \/ ElementsGrow
  \/ RepetitionGrow \/ Copy \/ Finish
  \/ pc = "done" /\ UNCHANGED vars

Spec == Init /\ [][Next]_vars

-----------------------------------------------------------------------------
TypeOK ==
  /\ caller \in {"elements", "repetition"}
  /\ pc \in {"begin", "decode", "grow", "copy", "done"}
  /\ parts \in Nat /\ i \in Nat /\ length \in Nat /\ position \in Nat
  /\ real_length \in Nat /\ allocated \in Nat
  /\ result \in [0..(allocated - 1) -> Nat]

(* No part is copied beyond the octets that are allocated.                 *)
CopiesFit == pc = "copy" => position + length <= allocated

(* The parts before position were copied, and none overwritten by a later  *)
(* one or cut off by a realloc: what is decoded is all of the parts.       *)
InOrder ==
  /\ position <= allocated
  /\ \A j \in 0..(position - 1) : result[j] \in 1..i
  /\ \A j, k \in 0..(position - 1) : j < k => result[j] <= result[k]

ResultIsTheParts == pc = "done" => allocated = position /\ InOrder

(* While parts are decoded there is room for one octet more than is there: *)
(* real_length is what is allocated, but for the octet that parse_elements *)
(* claims at first.                                                        *)
Room ==
  /\ i <= parts /\ parts <= MaxParts
  /\ pc = "begin" => i = 0 /\ position = 0 /\ allocated = 0
  /\ pc \in {"decode", "grow", "copy"} =>
       /\ position < real_length
       /\ \/ allocated = real_length
          \/ allocated = 0 /\ position = 0 /\ real_length = 1
  /\ pc \in {"grow", "copy"} => i > 0
  /\ pc = "copy" => position + length < real_length

IInv == TypeOK /\ Room /\ InOrder /\ CopiesFit /\ ResultIsTheParts

(* The doubling, like all of it, comes to an end.                          *)
Ends == <>(pc = "done")
===============================================================================

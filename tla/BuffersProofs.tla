------------------------------ MODULE BuffersProofs -----------------------------
(***************************************************************************)
(* Proofs about Buffers, for any number of parts of any length.            *)
(***************************************************************************)
EXTENDS Buffers, TLAPS

USE BuffersAssumption

(* What realloc does to the result, as long as it does not shrink below    *)
(* position.                                                               *)
LEMMA ReallocKeeps ==
  ASSUME TypeOK, InOrder, NEW n \in Nat, position <= n, Realloc(n)
  PROVE  /\ allocated' = n
         /\ result' \in [0..(allocated' - 1) -> Nat]
         /\ \A j \in 0..(position - 1) : result'[j] = result[j]
<1>1. \A j \in 0..(n - 1) :
        (IF j < allocated THEN result[j] ELSE 0) \in Nat
  BY SMT DEF TypeOK
<1>2. \A j \in 0..(position - 1) : j \in 0..(n - 1) /\ j < allocated
  BY SMT DEF TypeOK, InOrder
<1> QED BY SMT, <1>1, <1>2 DEF Realloc

(* A step that keeps what was copied, and the part it came from, keeps the *)
(* order.                                                                  *)
LEMMA OrderKept ==
  ASSUME TypeOK, InOrder, TypeOK', position' = position, i <= i',
         position' <= allocated',
         \A j \in 0..(position - 1) : result'[j] = result[j]
  PROVE  InOrder'
<1>1. \A j \in 0..(position' - 1) : j \in 0..(position - 1)
  OBVIOUS
<1>2. \A j \in 0..(position' - 1) : result'[j] \in 1..i'
  <2> TAKE j \in 0..(position' - 1)
  <2>1. result[j] \in 1..i /\ result'[j] = result[j]
    BY <1>1 DEF InOrder
  <2> QED BY SMT, <2>1 DEF TypeOK
<1>3. \A j, k \in 0..(position' - 1) : j < k => result'[j] <= result'[k]
  BY <1>1 DEF InOrder
<1> QED BY <1>2, <1>3 DEF InOrder

LEMMA Initially == Init => IInv
BY SMT DEF Init, IInv, TypeOK, Room, InOrder, CopiesFit, ResultIsTheParts

LEMMA Step == IInv /\ [Next]_vars => IInv'
<1> SUFFICES ASSUME IInv, [Next]_vars PROVE IInv'
  OBVIOUS
<1> USE DEF IInv
<1>1. CASE ElementsBegin
  BY SMT, <1>1
     DEF ElementsBegin, TypeOK, Room, InOrder, CopiesFit, ResultIsTheParts
<1>2. CASE RepetitionBegin
  <2>1. /\ allocated' = parts
        /\ result' \in [0..(allocated' - 1) -> Nat]
    BY SMT, <1>2, ReallocKeeps DEF RepetitionBegin, TypeOK, Room
  <2> QED
    BY SMT, <1>2, <2>1
       DEF RepetitionBegin, TypeOK, Room, InOrder, CopiesFit, ResultIsTheParts
<1>3. CASE Decode
  <2>1. TypeOK'
    BY SMT, <1>3 DEF Decode, TypeOK
  <2>2. InOrder'
    BY SMT, <1>3, <2>1, OrderKept DEF Decode, TypeOK, InOrder
  <2>3. Room' /\ CopiesFit' /\ ResultIsTheParts'
    BY SMT, <1>3 DEF Decode, TypeOK, Room, CopiesFit, ResultIsTheParts
  <2> QED BY <2>1, <2>2, <2>3
<1>4. CASE ElementsGrow
  <2>1. CASE position + length >= real_length
    <3>1. /\ allocated' = (position + length) * 2
          /\ result' \in [0..(allocated' - 1) -> Nat]
          /\ \A j \in 0..(position - 1) : result'[j] = result[j]
      BY SMT, <1>4, <2>1, ReallocKeeps DEF ElementsGrow, TypeOK, Room
    <3>2. TypeOK'
      BY SMT, <1>4, <2>1, <3>1 DEF ElementsGrow, TypeOK
    <3>3. Room' /\ CopiesFit' /\ ResultIsTheParts'
      BY SMT, <1>4, <2>1, <3>1
         DEF ElementsGrow, TypeOK, Room, CopiesFit, ResultIsTheParts
    <3>4. InOrder'
      BY SMT, <1>4, <2>1, <3>1, <3>2, OrderKept DEF ElementsGrow, TypeOK
    <3> QED BY <3>2, <3>3, <3>4
  <2>2. CASE ~(position + length >= real_length)
    <3>1. TypeOK' /\ Room' /\ CopiesFit' /\ ResultIsTheParts'
      BY SMT, <1>4, <2>2
         DEF ElementsGrow, TypeOK, Room, CopiesFit, ResultIsTheParts
    <3>2. InOrder'
      BY SMT, <1>4, <2>2, <3>1, OrderKept DEF ElementsGrow, TypeOK, InOrder
    <3> QED BY <3>1, <3>2
  <2> QED BY <2>1, <2>2
<1>5. CASE RepetitionGrow
  <2>1. CASE position + length >= real_length
    <3>1. /\ allocated' = 2 * real_length
          /\ result' \in [0..(allocated' - 1) -> Nat]
          /\ \A j \in 0..(position - 1) : result'[j] = result[j]
      BY SMT, <1>5, <2>1, ReallocKeeps DEF RepetitionGrow, TypeOK, Room
    <3>2. TypeOK'
      BY SMT, <1>5, <2>1, <3>1 DEF RepetitionGrow, TypeOK
    <3>3. Room' /\ CopiesFit' /\ ResultIsTheParts'
      BY SMT, <1>5, <2>1, <3>1
         DEF RepetitionGrow, TypeOK, Room, CopiesFit, ResultIsTheParts
    <3>4. InOrder'
      BY SMT, <1>5, <2>1, <3>1, <3>2, OrderKept
         DEF RepetitionGrow, TypeOK, Room
    <3> QED BY <3>2, <3>3, <3>4
  <2>2. CASE ~(position + length >= real_length)
    <3>1. TypeOK' /\ Room' /\ CopiesFit' /\ ResultIsTheParts'
      BY SMT, <1>5, <2>2
         DEF RepetitionGrow, TypeOK, Room, CopiesFit, ResultIsTheParts
    <3>2. InOrder'
      BY SMT, <1>5, <2>2, <3>1, OrderKept DEF RepetitionGrow, TypeOK, InOrder
    <3> QED BY <3>1, <3>2
  <2> QED BY <2>1, <2>2
<1>6. CASE Copy
  <2>1. TypeOK'
    BY SMT, <1>6 DEF Copy, TypeOK
  <2>2. position + length <= allocated
    BY <1>6 DEF Copy, CopiesFit
  <2>3. \A j \in 0..(position' - 1) :
          /\ j \in 0..(allocated - 1)
          /\ result'[j] = IF position <= j THEN i ELSE result[j]
    BY SMT, <1>6, <2>2 DEF Copy, TypeOK
  <2>4. i \in 1..i
    BY SMT, <1>6 DEF Copy, TypeOK, Room
  <2>5. InOrder'
    BY SMT, <1>6, <2>2, <2>3, <2>4 DEF Copy, TypeOK, InOrder
  <2>6. Room' /\ CopiesFit' /\ ResultIsTheParts'
    BY SMT, <1>6 DEF Copy, TypeOK, Room, CopiesFit, ResultIsTheParts
  <2> QED BY <2>1, <2>5, <2>6
<1>7. CASE Finish
  <2>1. /\ allocated' = position
        /\ result' \in [0..(allocated' - 1) -> Nat]
        /\ \A j \in 0..(position - 1) : result'[j] = result[j]
    BY SMT, <1>7, ReallocKeeps DEF Finish, TypeOK
  <2>2. TypeOK'
    BY SMT, <1>7, <2>1 DEF Finish, TypeOK
  <2>3. InOrder'
    BY SMT, <1>7, <2>1, <2>2, OrderKept DEF Finish, TypeOK
  <2>4. Room' /\ CopiesFit' /\ ResultIsTheParts'
    BY SMT, <1>7, <2>1, <2>3
       DEF Finish, TypeOK, Room, CopiesFit, ResultIsTheParts
  <2> QED BY <2>2, <2>3, <2>4
<1>8. CASE UNCHANGED vars
  BY <1>8 DEF vars, TypeOK, Room, InOrder, CopiesFit, ResultIsTheParts
<1> QED BY <1>1, <1>2, <1>3, <1>4, <1>5, <1>6, <1>7, <1>8 DEF Next

(* The invariant that the following theorems rest on.                      *)
THEOREM Invariance == Spec => []IInv
BY Initially, Step, PTL DEF Spec

(* No memcpy of parse_elements or parse_repetition writes behind the end   *)
(* of its buffer.                                                          *)
THEOREM CopiesStayInside == Spec => []CopiesFit
<1>1. IInv => CopiesFit BY DEF IInv
<1> QED BY <1>1, Invariance, PTL

(* What they return are the parts, all of them, one after the other.       *)
THEOREM NothingIsCutOff == Spec => []ResultIsTheParts
<1>1. IInv => ResultIsTheParts BY DEF IInv
<1> QED BY <1>1, Invariance, PTL
===============================================================================

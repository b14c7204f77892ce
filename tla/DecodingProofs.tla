----------------------------- MODULE DecodingProofs ----------------------------
(***************************************************************************)
(* Proofs about what the packet generator decodes, for octets of 256       *)
(* values, any elements, any repetition and any draws.                     *)
(***************************************************************************)
EXTENDS Decoding, SequenceTheorems, WellFoundedInduction, TLAPS

-----------------------------------------------------------------------------
(* Induction                                                               *)

(* Induction over the numbers, stated of a set: what is not in it has no   *)
(* least number.                                                           *)
LEMMA SetInduction ==
  ASSUME NEW S, 0 \in S, \A n \in Nat : n \in S => n + 1 \in S
  PROVE  Nat \subseteq S
<1> DEFINE R == OpToRel(<, Nat)
           T == Nat \ S
<1> SUFFICES ASSUME T # {} PROVE FALSE
  OBVIOUS
<1>1. IsWellFoundedOn(R, Nat)
  BY NatLessThanWellFounded
<1>2. \A x, y \in Nat : <<y, x>> \in R <=> y < x
  BY DEF OpToRel
<1>3. T \subseteq Nat
  OBVIOUS
<1> HIDE DEF R, T
<1>4. PICK x \in T : \A y \in T : ~ (<<y, x>> \in R)
  BY <1>1, <1>3, WFMin
<1>5. x \in Nat /\ x \notin S
  BY <1>4 DEF T
<1>6. x # 0 /\ x - 1 \in Nat /\ x = (x - 1) + 1
  BY <1>5
<1>7. x - 1 \notin S
  BY <1>5, <1>6
<1>8. x - 1 \in T
  BY <1>6, <1>7 DEF T
<1>9. ~ (<<x - 1, x>> \in R)
  BY <1>4, <1>8
<1>10. x - 1 < x
  BY <1>5
<1> QED
  BY <1>2, <1>5, <1>6, <1>9, <1>10

(* The two loops of the generator are one: in step k, G[k] comes after     *)
(* what the steps before it have decoded.                                  *)
IsLoop(f, G, n) ==
  f = [k \in 0..n |-> IF k = 0 THEN {<<>>} ELSE After(f[k - 1], G[k])]

LEMMA LoopExists ==
  ASSUME NEW G, NEW n \in Nat
  PROVE  \E f : IsLoop(f, G, n)
<1> DEFINE S == {m \in Nat : \E f : IsLoop(f, G, m)}
<1>1. 0 \in S
  <2> DEFINE f == [k \in 0..0 |-> {<<>>}]
  <2>1. IsLoop(f, G, 0)
    BY DEF IsLoop
  <2> QED
    BY <2>1
<1>2. ASSUME NEW m \in Nat, m \in S PROVE m + 1 \in S
  <2>1. PICK g : IsLoop(g, G, m)
    BY <1>2
  <2> DEFINE f == [k \in 0..(m + 1) |-> IF k <= m THEN g[k] ELSE After(g[m], G[k])]
  <2>2. \A k \in 0..(m + 1) :
          f[k] = IF k = 0 THEN {<<>>} ELSE After(f[k - 1], G[k])
    <3> SUFFICES ASSUME NEW k \in 0..(m + 1)
                 PROVE  f[k] = IF k = 0 THEN {<<>>} ELSE After(f[k - 1], G[k])
      OBVIOUS
    <3>1. CASE k = 0
      BY <2>1, <3>1 DEF IsLoop
    <3>2. CASE k \in 1..m
      <4>1. k \in 0..m /\ k - 1 \in 0..m /\ k - 1 \in 0..(m + 1) /\ k # 0
        BY <3>2
      <4>2. g[k] = After(g[k - 1], G[k])
        BY <2>1, <4>1 DEF IsLoop
      <4>3. f[k] = g[k] /\ f[k - 1] = g[k - 1]
        BY <4>1
      <4> QED
        BY <4>1, <4>2, <4>3
    <3>3. CASE k = m + 1
      <4>1. k - 1 = m /\ k # 0 /\ ~(k <= m) /\ m \in 0..(m + 1)
        BY <3>3
      <4>2. f[k] = After(g[m], G[k]) /\ f[m] = g[m]
        BY <4>1
      <4> QED
        BY <4>1, <4>2
    <3> QED
      BY <3>1, <3>2, <3>3
  <2>3. f = [k \in 0..(m + 1) |-> f[k]]
    OBVIOUS
  <2> HIDE DEF f
  <2>4. IsLoop(f, G, m + 1)
    BY <2>2, <2>3 DEF IsLoop
  <2> QED
    BY <2>4
<1> HIDE DEF S
<1>3. Nat \subseteq S
  BY <1>1, <1>2, SetInduction
<1> QED
  BY <1>3 DEF S

(* What a loop decodes, step by step.                                      *)
LEMMA LoopSteps ==
  ASSUME NEW G, NEW n \in Nat, NEW f, IsLoop(f, G, n)
  PROVE  /\ f[0] = {<<>>}
         /\ \A k \in 1..n : f[k] = After(f[k - 1], G[k])
<1>1. \A k \in 0..n : f[k] = IF k = 0 THEN {<<>>} ELSE After(f[k - 1], G[k])
  BY DEF IsLoop
<1> QED
  BY <1>1

LEMMA RepeatedIsLoop ==
  ASSUME NEW n \in Nat, NEW decoded_part
  PROVE  \E f : /\ IsLoop(f, [k \in 1..n |-> decoded_part], n)
                /\ Repeated(n, decoded_part) = f[n]
<1> DEFINE G == [k \in 1..n |-> decoded_part]
           L(f) == f = [k \in 0..n |-> IF k = 0 THEN {<<>>}
                                      ELSE After(f[k - 1], decoded_part)]
<1>1. PICK g : IsLoop(g, G, n)
  BY LoopExists
<1>2. \A f : L(f) <=> IsLoop(f, G, n)
  <2> TAKE f
  <2>1. \A k \in 0..n : (IF k = 0 THEN {<<>>} ELSE After(f[k - 1], decoded_part))
                          = (IF k = 0 THEN {<<>>} ELSE After(f[k - 1], G[k]))
    OBVIOUS
  <2>2. [k \in 0..n |-> IF k = 0 THEN {<<>>} ELSE After(f[k - 1], decoded_part)]
          = [k \in 0..n |-> IF k = 0 THEN {<<>>} ELSE After(f[k - 1], G[k])]
    BY <2>1
  <2> QED
    BY <2>2 DEF IsLoop
<1> HIDE DEF G
<1>3. L(g)
  BY <1>1, <1>2
<1>4. L(CHOOSE f : L(f))
  BY <1>3
<1>5. Repeated(n, decoded_part) = (CHOOSE f : L(f))[n]
  BY DEF Repeated
<1> HIDE DEF L
<1> QED
  BY <1>2, <1>4, <1>5 DEF G

-----------------------------------------------------------------------------
(* Numbers                                                                 *)

LEMMA Weights ==
  ASSUME Octets = 256
  PROVE  /\ Weight[1] = 1 /\ Weight[2] = 256
         /\ Weight[3] = 65536 /\ Weight[4] = 16777216
         /\ Octet = 0..255 /\ Short = 65536
BY SMT DEF Weight, Short, Octet

(* The lengths of the bounds of a range.                                   *)
LEMMA OctetSequence ==
  ASSUME NEW n \in Nat, NEW S, NEW s \in [1..n -> S]
  PROVE  s \in Seq(S) /\ Len(s) = n /\ DOMAIN s = 1..n
OBVIOUS

LEMMA SequenceOctet ==
  ASSUME NEW S, NEW s \in Seq(S)
  PROVE  s \in [1..Len(s) -> S]
OBVIOUS

LEMMA EmptyOctets ==
  ASSUME NEW S
  PROVE  <<>> \in [1..0 -> S]
BY SequenceOctet

(* Each digit is an octet.                                                 *)
LEMMA DigitIsOctet ==
  ASSUME Octets = 256, NEW x \in Nat, NEW k \in 1..4
  PROVE  Digit(x, Weight[k]) \in 0..255
<1>1. PICK w \in {1, 256, 65536, 16777216} : w = Weight[k]
  BY Weights
<1>2. PICK q \in Int : q = x \div w
  BY SMT, <1>1
<1>3. q % 256 \in 0..255
  BY SMT, <1>2
<1> QED
  BY <1>1, <1>2, <1>3 DEF Digit

(* The numbers of up to three octets.                                      *)
Place(octets, k) ==
  IF k <= Len(octets) THEN octets[Len(octets) - k + 1] * Weight[k] ELSE 0

LEMMA NumberIsSum ==
  ASSUME NEW s
  PROVE  Number(s) = Place(s, 1) + Place(s, 2) + Place(s, 3) + Place(s, 4)
BY DEF Number, Place

LEMMA NumberOf ==
  ASSUME Octets = 256
  PROVE  /\ \A s \in [1..1 -> Octet] : Number(s) = s[1]
         /\ \A s \in [1..2 -> Octet] : Number(s) = s[1] * 256 + s[2]
         /\ \A s \in [1..3 -> Octet] :
              Number(s) = s[1] * 65536 + s[2] * 256 + s[3]
<1>1. ASSUME NEW s \in [1..1 -> Octet] PROVE Number(s) = s[1]
  <2>1. Len(s) = 1 /\ s[1] \in Int
    <3>1. s[1] \in Octet
      OBVIOUS
    <3>2. Len(s) = 1
      OBVIOUS
    <3> QED
      BY <3>1, <3>2, Weights
  <2>2. /\ Place(s, 1) = s[1] /\ Place(s, 2) = 0
        /\ Place(s, 3) = 0 /\ Place(s, 4) = 0
    BY <2>1, Weights DEF Place
  <2> QED
    BY <2>1, <2>2, NumberIsSum
<1>2. ASSUME NEW s \in [1..2 -> Octet] PROVE Number(s) = s[1] * 256 + s[2]
  <2>1. Len(s) = 2 /\ s[1] \in Int /\ s[2] \in Int
    <3>1. s[1] \in Octet /\ s[2] \in Octet
      OBVIOUS
    <3>2. Len(s) = 2
      OBVIOUS
    <3> QED
      BY <3>1, <3>2, Weights
  <2>2. /\ Place(s, 1) = s[2] /\ Place(s, 2) = s[1] * 256
        /\ Place(s, 3) = 0 /\ Place(s, 4) = 0
    BY <2>1, Weights DEF Place
  <2> QED
    BY <2>1, <2>2, NumberIsSum
<1>3. ASSUME NEW s \in [1..3 -> Octet]
      PROVE  Number(s) = s[1] * 65536 + s[2] * 256 + s[3]
  <2>1. Len(s) = 3 /\ s[1] \in Int /\ s[2] \in Int /\ s[3] \in Int
    <3>1. s[1] \in Octet /\ s[2] \in Octet /\ s[3] \in Octet
      OBVIOUS
    <3>2. Len(s) = 3
      OBVIOUS
    <3> QED
      BY <3>1, <3>2, Weights
  <2>2. /\ Place(s, 1) = s[3] /\ Place(s, 2) = s[2] * 256
        /\ Place(s, 3) = s[1] * 65536 /\ Place(s, 4) = 0
    BY <2>1, Weights DEF Place
  <2> QED
    BY <2>1, <2>2, NumberIsSum
<1> QED
  BY <1>1, <1>2, <1>3

(* How many octets the loop counts.                                        *)
Needs(max, n) ==
  /\ \A k \in 1..n : max \div Weight[k] > 1
  /\ n < 4 => max \div Weight[n + 1] <= 1

LEMMA Quotient ==
  ASSUME Octets = 256, NEW x \in Nat, NEW k \in 1..4
  PROVE  x \div Weight[k] \in Nat
<1>1. PICK w \in {1, 256, 65536, 16777216} : w = Weight[k]
  BY Weights
<1>2. x \div w \in Nat
  BY SMT, <1>1
<1> QED
  BY <1>1, <1>2

LEMMA NeededIs ==
  ASSUME Octets = 256, NEW max \in Nat, NEW n \in 0..4, Needs(max, n)
  PROVE  OctetsNeeded(max) = n
<1>1. ASSUME NEW m \in 0..4, Needs(max, m), NEW l \in 0..4, Needs(max, l)
      PROVE  ~(m < l)
  <2> SUFFICES ASSUME m < l PROVE FALSE
    OBVIOUS
  <2>1. m + 1 \in 1..l /\ m < 4 /\ m + 1 \in 1..4
    OBVIOUS
  <2>2. max \div Weight[m + 1] <= 1 /\ max \div Weight[m + 1] > 1
    BY <1>1, <2>1 DEF Needs
  <2>3. PICK q \in Nat : q = max \div Weight[m + 1]
    BY <2>1, Quotient
  <2> QED
    BY <2>2, <2>3
<1>2. \A m \in 0..4 : Needs(max, m) => m = n
  BY <1>1
<1>3. OctetsNeeded(max) = CHOOSE m \in 0..4 : Needs(max, m)
  BY DEF OctetsNeeded, Needs
<1> QED
  BY <1>2, <1>3

(* Every int with its sign clear has an answer.                            *)
LEMMA NeededAtMostFour ==
  ASSUME Octets = 256, NEW max \in Nat
  PROVE  OctetsNeeded(max) \in 0..4
<1>1. \E n \in 0..4 : Needs(max, n)
  <2> DEFINE q(k) == max \div Weight[k]
  <2>1. \A k \in 1..4 : q(k) \in Nat
    BY Quotient
  <2>2. CASE q(1) <= 1
    BY <2>2 DEF Needs
  <2>3. CASE q(1) > 1 /\ q(2) <= 1
    BY <2>3 DEF Needs
  <2>4. CASE q(1) > 1 /\ q(2) > 1 /\ q(3) <= 1
    BY <2>4 DEF Needs
  <2>5. CASE q(1) > 1 /\ q(2) > 1 /\ q(3) > 1 /\ q(4) <= 1
    BY <2>5 DEF Needs
  <2>6. CASE q(1) > 1 /\ q(2) > 1 /\ q(3) > 1 /\ q(4) > 1
    BY <2>6 DEF Needs
  <2> HIDE DEF q
  <2> QED
    BY <2>1, <2>2, <2>3, <2>4, <2>5, <2>6
<1> QED
  BY <1>1, NeededIs

-----------------------------------------------------------------------------
(* What is written in octets                                               *)

LEMMA OctetsAreWritten ==
  ASSUME Octets = 256, NEW x \in Nat, NEW n \in 0..4
  PROVE  InOctets(x, n) \in [1..n -> Octet]
<1>1. \A i \in 1..n : n - i + 1 \in 1..4
  OBVIOUS
<1>2. \A i \in 1..n : Digit(x, Weight[n - i + 1]) \in Octet
  BY <1>1, DigitIsOctet, Weights
<1> QED
  BY <1>2 DEF InOctets

(* No octet is the -1 of SIGFPE.                                           *)
LEMMA MinusOneIsNone ==
  ASSUME Octets = 256
  PROVE  ~(-1 \in Octet)
BY SMT DEF Octet

LEMMA OctetsAreNoCrash ==
  ASSUME Octets = 256, NEW n \in Nat, NEW s \in [1..n -> Octet]
  PROVE  s # SIGFPE
<1> SUFFICES ASSUME s = SIGFPE PROVE FALSE
  OBVIOUS
<1>1. DOMAIN s = 1..n /\ DOMAIN s = 1..1 /\ s[1] = -1
  BY DEF SIGFPE
<1>2. 1 \in 1..n
  BY <1>1
<1>3. s[1] \in Octet
  BY <1>2
<1> QED
  BY <1>1, <1>3, MinusOneIsNone

(* The digits of a number of up to three octets.                           *)
LEMMA DigitsAddUp ==
  ASSUME Octets = 256, NEW x \in Nat
  PROVE  /\ x < 256 => x = Digit(x, 1)
         /\ x < 65536 => x = Digit(x, 256) * 256 + Digit(x, 1)
         /\ x < 16777216 =>
              x = Digit(x, 65536) * 65536 + Digit(x, 256) * 256 + Digit(x, 1)
<1>1. /\ x < 256 => x = (x \div 1) % 256
      /\ x < 65536 => x = ((x \div 256) % 256) * 256 + ((x \div 1) % 256)
      /\ x < 16777216 => x = ((x \div 65536) % 256) * 65536
                               + ((x \div 256) % 256) * 256 + ((x \div 1) % 256)
  BY SMTT(30)
<1> QED
  BY <1>1 DEF Digit

LEMMA WordsReadBack ==
  ASSUME Octets = 256, NEW x \in Nat, NEW n \in 1..3, x < Weight[n + 1]
  PROVE  Number(InOctets(x, n)) = x
<1>1. /\ InOctets(x, 1)[1] = Digit(x, 1)
      /\ InOctets(x, 2)[1] = Digit(x, 256) /\ InOctets(x, 2)[2] = Digit(x, 1)
      /\ InOctets(x, 3)[1] = Digit(x, 65536)
      /\ InOctets(x, 3)[2] = Digit(x, 256) /\ InOctets(x, 3)[3] = Digit(x, 1)
  BY Weights DEF InOctets
<1>2. /\ InOctets(x, 1) \in [1..1 -> Octet]
      /\ InOctets(x, 2) \in [1..2 -> Octet]
      /\ InOctets(x, 3) \in [1..3 -> Octet]
  BY OctetsAreWritten
<1>3. /\ Number(InOctets(x, 1)) = Digit(x, 1)
      /\ Number(InOctets(x, 2)) = Digit(x, 256) * 256 + Digit(x, 1)
      /\ Number(InOctets(x, 3))
           = Digit(x, 65536) * 65536 + Digit(x, 256) * 256 + Digit(x, 1)
  BY <1>1, <1>2, NumberOf
<1>4. CASE n = 1
  BY <1>3, <1>4, DigitsAddUp, Weights
<1>5. CASE n = 2
  BY <1>3, <1>5, DigitsAddUp, Weights
<1>6. CASE n = 3
  BY <1>3, <1>6, DigitsAddUp, Weights
<1> QED
  BY <1>4, <1>5, <1>6

-----------------------------------------------------------------------------
(* Ranges                                                                  *)

(* A number of two or of three octets, the first of them above 1.          *)
IsTwo(x, a, b) ==
  /\ x = a * 256 + b
  /\ x < 65536 /\ x \div 1 > 1 /\ x \div 256 > 1 /\ x \div 65536 <= 1

IsThree(x, a, b, c) ==
  /\ x = a * 65536 + b * 256 + c
  /\ x < 16777216 /\ x \div 1 > 1 /\ x \div 256 > 1 /\ x \div 65536 > 1
  /\ x \div 16777216 <= 1

LEMMA TwoOctets ==
  ASSUME NEW a \in Int, 2 <= a, a <= 255, NEW b \in Int, 0 <= b, b <= 255
  PROVE  \E x \in Nat : IsTwo(x, a, b)
<1>1. PICK x \in Int : x = a * 256 + b
  OBVIOUS
<1>2. x >= 512 /\ x < 65536
  BY SMT, <1>1
<1>3. x \div 1 > 1 /\ x \div 256 > 1 /\ x \div 65536 <= 1
  BY SMT, <1>2
<1>4. x \in Nat
  BY <1>2
<1> QED
  BY <1>1, <1>2, <1>3, <1>4 DEF IsTwo

LEMMA ThreeOctets ==
  ASSUME NEW a \in Int, 2 <= a, a <= 255, NEW b \in Int, 0 <= b, b <= 255,
         NEW c \in Int, 0 <= c, c <= 255
  PROVE  \E x \in Nat : IsThree(x, a, b, c)
<1>1. PICK x \in Int : x = a * 65536 + b * 256 + c
  OBVIOUS
<1>2. x >= 131072 /\ x < 16777216
  BY SMT, <1>1
<1>3. x \div 1 > 1 /\ x \div 256 > 1 /\ x \div 65536 > 1 /\ x \div 16777216 <= 1
  BY SMT, <1>2
<1>4. x \in Nat
  BY <1>2
<1> QED
  BY <1>1, <1>2, <1>3, <1>4 DEF IsThree

LEMMA SpansNeeds ==
  ASSUME Octets = 256, NEW x \in Nat
  PROVE  /\ \A a, b : IsTwo(x, a, b) => Needs(x, 2)
         /\ \A a, b, c : IsThree(x, a, b, c) => Needs(x, 3)
<1> DEFINE q(k) == x \div Weight[k]
<1>1. \A a, b : IsTwo(x, a, b) => q(1) > 1 /\ q(2) > 1 /\ q(3) <= 1
  BY Weights DEF IsTwo
<1>2. \A a, b, c : IsThree(x, a, b, c) =>
        q(1) > 1 /\ q(2) > 1 /\ q(3) > 1 /\ q(4) <= 1
  BY Weights DEF IsThree
<1>3. q(1) > 1 /\ q(2) > 1 /\ q(3) <= 1 => Needs(x, 2)
  BY DEF Needs
<1>4. q(1) > 1 /\ q(2) > 1 /\ q(3) > 1 /\ q(4) <= 1 => Needs(x, 3)
  BY DEF Needs
<1> HIDE DEF q
<1> QED
  BY <1>1, <1>2, <1>3, <1>4

(* A bound whose first octet is above 1 needs all of its octets.           *)
LEMMA BoundNeedsItsOctets ==
  ASSUME Octets = 256, NEW n \in 1..3, NEW s \in [1..n -> Octet], s[1] > 1
  PROVE  /\ OctetsNeeded(Number(s)) = n
         /\ Number(s) < Weight[n + 1]
<1>1. CASE n = 1
  <2>1. PICK a \in Int : a = s[1] /\ 2 <= a /\ a <= 255
    BY <1>1, Weights
  <2>2. Number(s) = a
    BY <1>1, <2>1, NumberOf
  <2>3. a \div 1 = a /\ a \div 256 = 0
    BY SMT, <2>1
  <2>4. Needs(a, 1)
    BY <2>1, <2>3, Weights DEF Needs
  <2> QED
    BY <1>1, <2>1, <2>2, <2>4, NeededIs, Weights
<1>2. CASE n = 2
  <2>1. PICK a \in Int : a = s[1] /\ 2 <= a /\ a <= 255
    BY <1>2, Weights
  <2>2. PICK b \in Int : b = s[2] /\ 0 <= b /\ b <= 255
    BY <1>2, Weights
  <2>3. PICK x \in Nat : IsTwo(x, a, b)
    BY <2>1, <2>2, TwoOctets
  <2>4. x = a * 256 + b /\ x < 65536
    BY <2>3 DEF IsTwo
  <2>5. Number(s) = x
    BY <1>2, <2>1, <2>2, <2>4, NumberOf
  <2>6. Needs(x, 2)
    BY <2>3, SpansNeeds
  <2> QED
    BY <1>2, <2>4, <2>5, <2>6, NeededIs, Weights
<1>3. CASE n = 3
  <2>1. PICK a \in Int : a = s[1] /\ 2 <= a /\ a <= 255
    BY <1>3, Weights
  <2>2. PICK b \in Int : b = s[2] /\ 0 <= b /\ b <= 255
    BY <1>3, Weights
  <2>3. PICK c \in Int : c = s[3] /\ 0 <= c /\ c <= 255
    BY <1>3, Weights
  <2>4. PICK x \in Nat : IsThree(x, a, b, c)
    BY <2>1, <2>2, <2>3, ThreeOctets
  <2>5. x = a * 65536 + b * 256 + c /\ x < 16777216
    BY <2>4 DEF IsThree
  <2>6. Number(s) = x
    BY <1>3, <2>1, <2>2, <2>3, <2>5, NumberOf
  <2>7. Needs(x, 3)
    BY <2>4, SpansNeeds
  <2> QED
    BY <1>3, <2>5, <2>6, <2>7, NeededIs, Weights
<1> QED
  BY <1>1, <1>2, <1>3

LEMMA NumberIsNat ==
  ASSUME Octets = 256, NEW n \in 1..3, NEW s \in [1..n -> Octet]
  PROVE  Number(s) \in Nat
<1>1. CASE n = 1
  <2>1. s[1] \in Nat
    BY <1>1, Weights
  <2> QED
    BY <1>1, <2>1, NumberOf
<1>2. CASE n = 2
  <2>1. s[1] \in Nat /\ s[2] \in Nat
    BY <1>2, Weights
  <2> QED
    BY <1>2, <2>1, NumberOf
<1>3. CASE n = 3
  <2>1. s[1] \in Nat /\ s[2] \in Nat /\ s[3] \in Nat
    BY <1>3, Weights
  <2> QED
    BY <1>3, <2>1, NumberOf
<1> QED
  BY <1>1, <1>2, <1>3

(* What a draw makes of a range that has more than one value.              *)
LEMMA RangeDraws ==
  ASSUME Octets = 256, NEW low, NEW high, BoundsInOrder(low, high),
         Number(low) # Number(high), NEW s \in decode_terminal_range(low, high)
  PROVE  /\ Number(low) \in Nat /\ Number(high) \in Nat
         /\ \E x \in Number(low)..(Number(high) - 1) :
              s = InOctets(x, OctetsNeeded(Number(high)))
<1>1. Number(low) \in Nat /\ Number(high) \in Nat /\ Number(low) <= Number(high)
  BY NumberIsNat DEF BoundsInOrder
<1>2. PICK d \in Rand(Number(high) - Number(low)) :
        s = InOctets(Number(low) + d, OctetsNeeded(Number(high)))
  BY DEF decode_terminal_range
<1>3. d \in 0..(Number(high) - Number(low) - 1)
  BY <1>1, <1>2 DEF Rand, Draws
<1>4. Number(low) + d \in Number(low)..(Number(high) - 1)
  BY <1>1, <1>3
<1> QED
  BY <1>1, <1>2, <1>4

(* A range is decoded to octets, or it is one of one value.                *)
LEMMA RangeCrashes ==
  ASSUME Octets = 256, NEW low, NEW high, BoundsInOrder(low, high),
         SIGFPE \in decode_terminal_range(low, high)
  PROVE  Number(low) = Number(high)
<1> SUFFICES ASSUME Number(low) # Number(high) PROVE FALSE
  OBVIOUS
<1>1. PICK x \in Number(low)..(Number(high) - 1) :
        SIGFPE = InOctets(x, OctetsNeeded(Number(high)))
  BY RangeDraws
<1>2. x \in Nat /\ Number(high) \in Nat
  BY <1>1, RangeDraws
<1>3. OctetsNeeded(Number(high)) \in 0..4
  BY <1>2, NeededAtMostFour
<1>4. InOctets(x, OctetsNeeded(Number(high)))
        \in [1..OctetsNeeded(Number(high)) -> Octet]
  BY <1>2, <1>3, OctetsAreWritten
<1> QED
  BY <1>1, <1>3, <1>4, OctetsAreNoCrash

(* What BoundsAreKept says of a range.                                     *)
LEMMA RangeIsKept ==
  ASSUME Octets = 256, NEW low, NEW high, BoundsInOrder(low, high),
         high[1] > 1, NEW s \in decode_terminal_range(low, high), s # SIGFPE
  PROVE  /\ Len(s) = Len(high)
         /\ Number(s) \in Number(low)..(Number(high) - 1)
         /\ \A n \in 1..3 : high \in [1..n -> Octet] => s \in [1..n -> Octet]
<1>1. Number(low) # Number(high)
  BY DEF decode_terminal_range
<1>2. PICK n \in 1..3 : high \in [1..n -> Octet]
  BY DEF BoundsInOrder
<1>3. PICK x \in Number(low)..(Number(high) - 1) :
        s = InOctets(x, OctetsNeeded(Number(high)))
  BY <1>1, RangeDraws
<1>4. x \in Nat /\ x < Number(high)
  BY <1>1, <1>3, RangeDraws
<1>5. /\ OctetsNeeded(Number(high)) = n
      /\ Number(high) < Weight[n + 1]
  BY <1>2, BoundNeedsItsOctets
<1>6. s = InOctets(x, n) /\ s \in [1..n -> Octet]
  <2>1. s = InOctets(x, n)
    BY <1>3, <1>5
  <2>2. n \in 0..4
    BY <1>2
  <2>3. InOctets(x, n) \in [1..n -> Octet]
    BY <1>4, <2>2, OctetsAreWritten
  <2> QED
    BY <2>1, <2>3
<1>7. Len(s) = n /\ Len(high) = n
  BY <1>2, <1>6
<1>8. Number(s) = x
  <2>1. Weight[n + 1] \in Int /\ Number(high) \in Int
    BY <1>1, RangeDraws, Weights
  <2>2. x < Weight[n + 1]
    BY <1>4, <1>5, <2>1
  <2> QED
    BY <1>4, <1>6, <2>2, WordsReadBack
<1>9. \A m \in 1..3 : high \in [1..m -> Octet] => m = n
  BY <1>7
<1> QED
  BY <1>3, <1>6, <1>7, <1>8, <1>9

-----------------------------------------------------------------------------
(* Repetitions                                                             *)

(* So many sequences of one octet are a sequence of so many octets.        *)
LEMMA RepeatedOctets ==
  ASSUME Octets = 256, NEW q \in Nat,
         NEW part, part \subseteq [1..1 -> Octet]
  PROVE  Repeated(q, part) \subseteq [1..q -> Octet]
<1> DEFINE G == [k \in 1..q |-> part]
<1>1. PICK f : IsLoop(f, G, q) /\ Repeated(q, part) = f[q]
  BY RepeatedIsLoop
<1>2. f[0] = {<<>>} /\ \A k \in 1..q : f[k] = After(f[k - 1], part)
  <2>1. f[0] = {<<>>} /\ \A k \in 1..q : f[k] = After(f[k - 1], G[k])
    <3> HIDE DEF G
    <3> QED
      BY <1>1, LoopSteps
  <2> QED
    BY <2>1
<1> DEFINE S == {n \in Nat : n <= q => f[n] \subseteq [1..n -> Octet]}
<1>3. 0 \in S
  <2>1. <<>> \in [1..0 -> Octet]
    BY EmptyOctets
  <2> QED
    BY <1>2, <2>1
<1>4. ASSUME NEW n \in Nat, n \in S PROVE n + 1 \in S
  <2> SUFFICES ASSUME n + 1 <= q, NEW s \in f[n + 1]
               PROVE  s \in [1..(n + 1) -> Octet]
    OBVIOUS
  <2>1. f[n + 1] = After(f[n], part) /\ f[n] \subseteq [1..n -> Octet]
    <3>1. n + 1 \in 1..q /\ (n + 1) - 1 = n
      OBVIOUS
    <3> QED
      BY <1>2, <1>4, <3>1
  <2>2. PICK a \in [1..n -> Octet], b \in [1..1 -> Octet] : s = Then(a, b)
    BY <2>1 DEF After
  <2>3. a # SIGFPE /\ b # SIGFPE
    BY OctetsAreNoCrash
  <2>4. s = a \o b
    BY <2>2, <2>3 DEF Then
  <2>5. a \o b \in [1..(n + 1) -> Octet]
    <3>1. a \in Seq(Octet) /\ Len(a) = n /\ b \in Seq(Octet) /\ Len(b) = 1
      BY OctetSequence
    <3>2. a \o b \in Seq(Octet) /\ Len(a \o b) = Len(a) + Len(b)
      BY <3>1, ConcatProperties
    <3> QED
      BY <3>1, <3>2, SequenceOctet
  <2> QED
    BY <2>4, <2>5
<1> HIDE DEF S
<1>5. q \in S
  BY <1>3, <1>4, SetInduction
<1> QED
  BY <1>1, <1>5 DEF S

(* What OneOctet says.                                                     *)
LEMMA OneOctetIsDecoded ==
  ASSUME Octets = 256, NEW of, OneOctet(of), NEW rules
  PROVE  parse_single(of, rules) \subseteq [1..1 -> Octet]
<1>1. /\ of.low \in [1..1 -> Octet] /\ of.high \in [1..1 -> Octet]
      /\ of.low[1] < of.high[1] /\ of.high[1] > 1
  BY DEF OneOctet
<1>2. /\ Number(of.low) = of.low[1] /\ Number(of.high) = of.high[1]
      /\ of.low[1] \in Nat /\ of.high[1] \in Nat
  BY <1>1, NumberOf, Weights
<1>3. BoundsInOrder(of.low, of.high) /\ Number(of.low) # Number(of.high)
  BY <1>1, <1>2 DEF BoundsInOrder
<1>4. parse_single(of, rules) = decode_terminal_range(of.low, of.high)
  BY DEF parse_single, OneOctet
<1>5. SIGFPE \notin decode_terminal_range(of.low, of.high)
  BY <1>3, RangeCrashes
<1>6. ASSUME NEW s \in decode_terminal_range(of.low, of.high)
      PROVE  s \in [1..1 -> Octet]
  BY <1>1, <1>3, <1>5, RangeIsKept
<1> QED
  BY <1>4, <1>6

(* What BoundsAreKept and CrashOnlyOnEmptyDraw say of a repetition.        *)
LEMMA RepetitionIsKept ==
  ASSUME Octets = 256, NEW min \in Nat, NEW max \in Nat,
         NEW part, part \subseteq [1..1 -> Octet],
         NEW s \in parse_repetition(min, max, part)
  PROVE  /\ s = SIGFPE => min = max + 1
         /\ s # SIGFPE /\ min <= max => Len(s) \in min..max
<1>1. CASE max - min + 1 = 0
  <2>1. s = SIGFPE /\ min = max + 1
    BY <1>1 DEF parse_repetition, Quantities
  <2> QED
    BY <2>1
<1>2. CASE max - min + 1 # 0
  <2>1. PICK d \in Rand(max - min + 1) : s \in Repeated(min + d, part)
    BY <1>2 DEF parse_repetition, Quantities
  <2>2. d \in Nat /\ (min <= max => d <= max - min)
    BY <2>1 DEF Rand, Draws
  <2>3. min + d \in Nat
    BY <2>2
  <2>4. s \in [1..(min + d) -> Octet]
    BY <2>1, <2>3, RepeatedOctets
  <2>5. s # SIGFPE /\ Len(s) = min + d
    BY <2>3, <2>4, OctetsAreNoCrash, OctetSequence
  <2> QED
    BY <2>2, <2>5
<1> QED
  BY <1>1, <1>2

-----------------------------------------------------------------------------
(* Rules                                                                   *)

(* The table of what rules are decoded to, nested so deep.                 *)
IsTable(f, env, n) ==
  f = [depth \in 0..n |->
         IF depth = 0 THEN [rule \in STRING |-> {}]
         ELSE [rule \in STRING |->
                 decode_entry(environment_lookup(env, rule), f[depth - 1])]]

LEMMA TableExists ==
  ASSUME NEW env, NEW n \in Nat
  PROVE  \E f : IsTable(f, env, n)
<1> DEFINE Row(below) ==
             [rule \in STRING |-> decode_entry(environment_lookup(env, rule), below)]
           Bottom == [rule \in STRING |-> {}]
           S == {m \in Nat : \E f : IsTable(f, env, m)}
<1>1. \A f, m : IsTable(f, env, m) <=>
        f = [k \in 0..m |-> IF k = 0 THEN Bottom ELSE Row(f[k - 1])]
  BY DEF IsTable
<1> HIDE DEF Row, Bottom
<1>2. 0 \in S
  <2> DEFINE f == [k \in 0..0 |-> Bottom]
  <2>1. f = [k \in 0..0 |-> IF k = 0 THEN Bottom ELSE Row(f[k - 1])]
    OBVIOUS
  <2>2. IsTable(f, env, 0)
    BY <1>1, <2>1
  <2> QED
    BY <2>2
<1>3. ASSUME NEW m \in Nat, m \in S PROVE m + 1 \in S
  <2>1. PICK g : g = [k \in 0..m |-> IF k = 0 THEN Bottom ELSE Row(g[k - 1])]
    BY <1>1, <1>3
  <2> DEFINE f == [k \in 0..(m + 1) |-> IF k <= m THEN g[k] ELSE Row(g[m])]
  <2>2. \A k \in 0..(m + 1) : f[k] = IF k = 0 THEN Bottom ELSE Row(f[k - 1])
    <3> SUFFICES ASSUME NEW k \in 0..(m + 1)
                 PROVE  f[k] = IF k = 0 THEN Bottom ELSE Row(f[k - 1])
      OBVIOUS
    <3>1. CASE k = 0
      BY <2>1, <3>1
    <3>2. CASE k \in 1..m
      <4>1. k \in 0..m /\ k - 1 \in 0..m /\ k - 1 \in 0..(m + 1) /\ k # 0
        BY <3>2
      <4>2. g[k] = Row(g[k - 1])
        BY <2>1, <4>1
      <4>3. f[k] = g[k] /\ f[k - 1] = g[k - 1]
        BY <4>1
      <4> QED
        BY <4>1, <4>2, <4>3
    <3>3. CASE k = m + 1
      <4>1. k - 1 = m /\ k # 0 /\ ~(k <= m) /\ m \in 0..(m + 1)
        BY <3>3
      <4>2. f[k] = Row(g[m]) /\ f[m] = g[m]
        BY <4>1
      <4> QED
        BY <4>1, <4>2
    <3> QED
      BY <3>1, <3>2, <3>3
  <2>3. f = [k \in 0..(m + 1) |-> f[k]]
    OBVIOUS
  <2> HIDE DEF f
  <2>4. f = [k \in 0..(m + 1) |-> IF k = 0 THEN Bottom ELSE Row(f[k - 1])]
    BY <2>2, <2>3
  <2>5. IsTable(f, env, m + 1)
    BY <1>1, <2>4
  <2> QED
    BY <2>5
<1> HIDE DEF S
<1>4. Nat \subseteq S
  BY <1>2, <1>3, SetInduction
<1> QED
  BY <1>4 DEF S

(* A rule is decoded as its entry is, with the rules in it one nesting     *)
(* less deep.                                                              *)
LEMMA RuleUnfolds ==
  ASSUME NEW env, NEW depth \in 1..Deepest, NEW rule \in STRING
  PROVE  Decodings(env)[depth][rule]
           = decode_entry(environment_lookup(env, rule), Decodings(env)[depth - 1])
<1> DEFINE T == CHOOSE f : IsTable(f, env, Deepest)
<1>1. IsTable(T, env, Deepest)
  BY TableExists, DeepestAssumption
<1>2. Decodings(env) = T
  BY DEF Decodings, IsTable
<1> HIDE DEF T
<1>3. depth \in 0..Deepest /\ depth # 0
  BY DeepestAssumption
<1>4. T[depth] = [r \in STRING |->
                    decode_entry(environment_lookup(env, r), T[depth - 1])]
  BY <1>1, <1>3 DEF IsTable
<1> QED
  BY <1>2, <1>4

LEMMA ElementsAreLoop ==
  ASSUME NEW elements, NEW rules, Len(elements) \in Nat
  PROVE  \E f : /\ IsLoop(f, [k \in 1..Len(elements) |->
                                 parse_element(elements[k], rules)], Len(elements))
               /\ parse_elements(elements, rules) = f[Len(elements)]
<1> DEFINE n == Len(elements)
           G == [k \in 1..n |-> parse_element(elements[k], rules)]
           L(f) == f = [k \in 0..n |-> IF k = 0 THEN {<<>>}
                          ELSE After(f[k - 1], parse_element(elements[k], rules))]
<1>1. PICK g : IsLoop(g, G, n)
  BY LoopExists
<1>2. \A f : L(f) <=> IsLoop(f, G, n)
  <2> TAKE f
  <2>1. \A k \in 0..n :
          (IF k = 0 THEN {<<>>}
           ELSE After(f[k - 1], parse_element(elements[k], rules)))
            = (IF k = 0 THEN {<<>>} ELSE After(f[k - 1], G[k]))
    OBVIOUS
  <2>2. [k \in 0..n |-> IF k = 0 THEN {<<>>}
                        ELSE After(f[k - 1], parse_element(elements[k], rules))]
          = [k \in 0..n |-> IF k = 0 THEN {<<>>} ELSE After(f[k - 1], G[k])]
    BY <2>1
  <2> QED
    BY <2>2 DEF IsLoop
<1> HIDE DEF G
<1>3. L(g)
  BY <1>1, <1>2
<1>4. L(CHOOSE f : L(f))
  BY <1>3
<1>5. parse_elements(elements, rules) = (CHOOSE f : L(f))[n]
  BY DEF parse_elements
<1> HIDE DEF L
<1> QED
  BY <1>2, <1>4, <1>5 DEF G

-----------------------------------------------------------------------------
(* Strings                                                                 *)

(* OCTET is decoded to one octet.                                          *)
LEMMA OctetDecoded ==
  ASSUME Octets = 256, NEW rules
  PROVE  parse_elements(<<Between(<<0>>, <<Octets - 1>>)>>, rules)
           \subseteq [1..1 -> Octet]
<1> DEFINE of == Between(<<0>>, <<Octets - 1>>)
<1>1. OneOctet(of)
  BY Weights DEF OneOctet, Between
<1>2. parse_element(of, rules) = parse_single(of, rules)
  BY DEF parse_element, Between
<1>3. parse_element(of, rules) \subseteq [1..1 -> Octet]
  BY <1>1, <1>2, OneOctetIsDecoded
<1> HIDE DEF of
<1> DEFINE G == [k \in 1..1 |-> parse_element(<<of>>[k], rules)]
<1>4. Len(<<of>>) = 1 /\ G[1] = parse_element(of, rules)
  OBVIOUS
<1>5. PICK f : IsLoop(f, G, 1) /\ parse_elements(<<of>>, rules) = f[1]
  BY <1>4, ElementsAreLoop
<1> HIDE DEF G
<1>6. f[0] = {<<>>} /\ f[1] = After(f[0], G[1])
  BY <1>5, LoopSteps
<1>7. ASSUME NEW s \in f[1] PROVE s \in [1..1 -> Octet]
  <2>1. PICK b \in [1..1 -> Octet] : s = Then(<<>>, b)
    BY <1>3, <1>4, <1>6 DEF After
  <2>2. b # SIGFPE /\ <<>> # SIGFPE
    BY OctetsAreNoCrash DEF SIGFPE
  <2>3. b \in Seq(Octet)
    BY OctetSequence
  <2> QED
    BY <2>1, <2>2, <2>3 DEF Then
<1> QED
  BY <1>5, <1>7 DEF of

(* The rules of the strings, where they are not overwritten with chaos.    *)
LEMMA StringsAreGenerated ==
  ASSUME Octets = 256
  PROVE  \E octet :
           /\ octet \subseteq [1..1 -> Octet]
           /\ Decodings(environment)[Deepest]["short-string"]
                = shortstring_generator(octet)
           /\ Decodings(environment)[Deepest]["long-string"]
                = longstring_generator(octet)
<1> DEFINE rules == Decodings(environment)[Deepest - 1]
           below == Decodings(environment)[Deepest - 1 - 1]
<1>1. Deepest \in 1..Deepest /\ Deepest - 1 \in 1..Deepest
  BY DeepestAssumption, StringsAssumption
<1>2. rules["OCTET"] = parse_elements(<<Between(<<0>>, <<Octets - 1>>)>>, below)
  <2>1. rules["OCTET"]
          = decode_entry(environment_lookup(environment, "OCTET"), below)
    BY <1>1, RuleUnfolds, StringsAssumption
  <2> HIDE DEF rules, below
  <2> QED
    BY <2>1, StringsAssumption DEF decode_entry, new_string_grammar_entry
<1>3. rules["OCTET"] \subseteq [1..1 -> Octet]
  BY <1>2, OctetDecoded
<1>4. Decodings(environment)[Deepest]["short-string"]
        = decode_entry(new_function_grammar_entry("shortstring"), rules)
  <2>1. Decodings(environment)[Deepest]["short-string"]
          = decode_entry(environment_lookup(environment, "short-string"), rules)
    BY <1>1, RuleUnfolds, StringsAssumption
  <2> HIDE DEF rules
  <2> QED
    BY <2>1, StringsAssumption
<1>5. Decodings(environment)[Deepest]["long-string"]
        = decode_entry(new_function_grammar_entry("longstring"), rules)
  <2>1. Decodings(environment)[Deepest]["long-string"]
          = decode_entry(environment_lookup(environment, "long-string"), rules)
    BY <1>1, RuleUnfolds, StringsAssumption
  <2> HIDE DEF rules
  <2> QED
    BY <2>1, StringsAssumption
<1> HIDE DEF rules
<1>6. decode_entry(new_function_grammar_entry("shortstring"), rules)
        = shortstring_generator(rules["OCTET"])
  BY DEF decode_entry, new_function_grammar_entry
<1>7. decode_entry(new_function_grammar_entry("longstring"), rules)
        = longstring_generator(rules["OCTET"])
  BY DEF decode_entry, new_function_grammar_entry
<1> QED
  BY <1>3, <1>4, <1>5, <1>6, <1>7

LEMMA FirstsAreOctets ==
  ASSUME NEW octet, octet \subseteq [1..1 -> Octet]
  PROVE  Firsts(octet) \subseteq Octet
BY DEF Firsts

(* A short string begins with an octet that is its length.                 *)
LEMMA ShortStrings ==
  ASSUME Octets = 256, NEW octet, octet \subseteq [1..1 -> Octet],
         NEW s \in shortstring_generator(octet)
  PROVE  s[1] = Len(s) - 1 /\ s # SIGFPE
<1>1. PICK r \in Rand(RULE_REPETITION_INFTY) :
        \E t \in [1..(r % Octets) -> Firsts(octet)] : s = <<r % Octets>> \o t
  BY Zenon DEF shortstring_generator
<1>2. r \in Nat
  BY <1>1, RepetitionAssumption DEF Rand, Draws
<1>3. PICK n \in Nat : n = r % Octets
  BY SMT, <1>2
<1>4. PICK t \in [1..n -> Firsts(octet)] : s = <<n>> \o t
  BY <1>1, <1>3
<1>5. t \in Seq(Firsts(octet)) /\ Len(t) = n
  BY OctetSequence
<1>6. s[1] = n /\ Len(s) = n + 1
  BY <1>4, <1>5
<1> QED
  BY <1>3, <1>6 DEF SIGFPE

(* The four octets of an int.                                              *)
FitsInt(x) == x \div Weight[4] < Octets

LEMMA Halves ==
  ASSUME NEW x \in Nat, x \div 16777216 < 256
  PROVE  \E h \in Nat, l \in Nat : x = h * 65536 + l /\ h < 65536 /\ l < 65536
<1>1. PICK h \in Int : h = x \div 65536
  OBVIOUS
<1>2. PICK l \in Int : l = x % 65536
  OBVIOUS
<1>3. x = h * 65536 + l /\ 0 <= l /\ l < 65536
  BY SMT, <1>1, <1>2
<1>4. 0 <= h /\ h < 65536
  BY SMT, <1>3
<1> QED
  BY <1>3, <1>4

LEMMA HalvesInOctets ==
  ASSUME NEW h \in Nat, NEW l \in Nat, h < 65536, l < 65536
  PROVE  \A x \in Nat : x = h * 65536 + l =>
           /\ h = ((x \div 16777216) % 256) * 256 + ((x \div 65536) % 256)
           /\ l = ((x \div 256) % 256) * 256 + ((x \div 1) % 256)
<1> SUFFICES ASSUME NEW x \in Nat, x = h * 65536 + l
             PROVE  /\ h = ((x \div 16777216) % 256) * 256 + ((x \div 65536) % 256)
                    /\ l = ((x \div 256) % 256) * 256 + ((x \div 1) % 256)
  OBVIOUS
<1>1. x \div 65536 = h /\ x \div 16777216 = h \div 256
  BY SMT
<1>2. h = ((h \div 256) % 256) * 256 + (h % 256)
  BY SMT
<1>3. (x \div 256) % 256 = l \div 256 /\ (x \div 1) % 256 = l % 256
  BY SMT
<1>4. l = (l \div 256) * 256 + (l % 256)
  BY SMT
<1> QED
  BY <1>1, <1>2, <1>3, <1>4

LEMMA FourDigits ==
  ASSUME Octets = 256, NEW x \in Nat, FitsInt(x)
  PROVE  Unsigned32(Digit(x, 16777216), Digit(x, 65536), Digit(x, 256), Digit(x, 1))
           = x
<1>1. x \div 16777216 < 256
  BY Weights DEF FitsInt
<1>2. PICK h \in Nat, l \in Nat : x = h * 65536 + l /\ h < 65536 /\ l < 65536
  BY <1>1, Halves
<1>3. /\ h = ((x \div 16777216) % 256) * 256 + ((x \div 65536) % 256)
      /\ l = ((x \div 256) % 256) * 256 + ((x \div 1) % 256)
  <2>1. \A y \in Nat : y = h * 65536 + l =>
          /\ h = ((y \div 16777216) % 256) * 256 + ((y \div 65536) % 256)
          /\ l = ((y \div 256) % 256) * 256 + ((y \div 1) % 256)
    BY <1>2, HalvesInOctets
  <2> QED
    BY <1>2, <2>1
<1>4. /\ h = Digit(x, 16777216) * 256 + Digit(x, 65536)
      /\ l = Digit(x, 256) * 256 + Digit(x, 1)
  BY <1>3 DEF Digit
<1>5. /\ Digit(x, 16777216) \in Int /\ Digit(x, 65536) \in Int
      /\ Digit(x, 256) \in Int /\ Digit(x, 1) \in Int
  BY Weights, DigitIsOctet
<1>6. x = (Digit(x, 16777216) * 256 + Digit(x, 65536)) * 65536
            + Digit(x, 256) * 256 + Digit(x, 1)
  BY <1>2, <1>4, <1>5
<1> QED
  BY <1>5, <1>6, Weights DEF Unsigned32, Unsigned16

(* What int_in_char writes is read back.                                   *)
LEMMA SizeIsRead ==
  ASSUME Octets = 256, NEW x \in Nat, FitsInt(x)
  PROVE  /\ InOctets(x, 4) \in [1..4 -> Octet]
         /\ Unsigned32(InOctets(x, 4)[1], InOctets(x, 4)[2],
                       InOctets(x, 4)[3], InOctets(x, 4)[4]) = x
<1>1. /\ InOctets(x, 4)[1] = Digit(x, 16777216)
      /\ InOctets(x, 4)[2] = Digit(x, 65536)
      /\ InOctets(x, 4)[3] = Digit(x, 256) /\ InOctets(x, 4)[4] = Digit(x, 1)
  BY Weights DEF InOctets
<1> QED
  BY <1>1, OctetsAreWritten, FourDigits

(* A long string begins with its length as an int.                         *)
LEMMA LongStrings ==
  ASSUME Octets = 256, NEW octet, octet \subseteq [1..1 -> Octet],
         NEW s \in longstring_generator(octet)
  PROVE  Unsigned32(s[1], s[2], s[3], s[4]) = Len(s) - 4 /\ s # SIGFPE
<1>1. PICK n \in Rand(RULE_REPETITION_INFTY) :
        \E t \in [1..n -> Firsts(octet)] : s = InOctets(n, 4) \o t
  BY DEF longstring_generator
<1>2. n \in Nat /\ FitsInt(n)
  <2>1. n \in Nat /\ n < RULE_REPETITION_INFTY
    BY <1>1, RepetitionAssumption DEF Rand, Draws
  <2>2. RULE_REPETITION_INFTY \div 16777216 < 256 /\ RULE_REPETITION_INFTY \in Nat
    BY StringsAssumption, RepetitionAssumption, Weights
  <2>3. n \div 16777216 < 256
    BY SMT, <2>1, <2>2
  <2> QED
    BY <2>1, <2>3, Weights DEF FitsInt
<1>3. PICK t \in [1..n -> Firsts(octet)] : s = InOctets(n, 4) \o t
  BY <1>1
<1>4. t \in [1..n -> Octet]
  BY FirstsAreOctets
<1> DEFINE d == InOctets(n, 4)
<1>5. /\ d \in [1..4 -> Octet]
      /\ Unsigned32(d[1], d[2], d[3], d[4]) = n
  BY <1>2, SizeIsRead
<1>6. s = d \o t
  BY <1>3
<1> HIDE DEF d
<1>7. /\ \A i \in 1..4 : s[i] = d[i]
      /\ Len(s) = 4 + n
  <2>1. d \in Seq(Octet) /\ Len(d) = 4 /\ t \in Seq(Octet) /\ Len(t) = n
    BY <1>2, <1>4, <1>5, OctetSequence
  <2>2. /\ Len(d \o t) = Len(d) + Len(t)
        /\ \A i \in 1..(Len(d) + Len(t)) :
             (d \o t)[i] = IF i <= Len(d) THEN d[i] ELSE t[i - Len(d)]
    BY <2>1, ConcatProperties
  <2>3. \A i \in 1..4 : i \in 1..(4 + n) /\ i <= 4
    BY <1>2
  <2> QED
    BY <1>6, <2>1, <2>2, <2>3
<1>8. s[1] = d[1] /\ s[2] = d[2] /\ s[3] = d[3] /\ s[4] = d[4]
  BY <1>7
<1>9. s # SIGFPE
  <2>1. Len(SIGFPE) = 1
    BY DEF SIGFPE
  <2>2. Len(s) # 1
    BY <1>2, <1>7
  <2> QED
    BY <2>1, <2>2
<1>10. Len(s) - 4 = n
  BY <1>2, <1>7
<1> QED
  BY <1>5, <1>8, <1>9, <1>10

-----------------------------------------------------------------------------
(* What is decodable is decoded to octets                                  *)

LEMMA CrashIsNoOctets ==
  ASSUME Octets = 256
  PROVE  SIGFPE \notin Seq(Octet)
<1> SUFFICES ASSUME SIGFPE \in Seq(Octet) PROVE FALSE
  OBVIOUS
<1>1. Len(SIGFPE) = 1 /\ SIGFPE[1] = -1
  BY DEF SIGFPE
<1>2. SIGFPE[1] \in Octet
  BY <1>1, LenProperties
<1> QED
  BY <1>1, <1>2, MinusOneIsNone

(* Every s of S is an a of A with a b of B behind it.                      *)
Joined(S, A, B) == \A s \in S : \E a \in A : \E b \in B : s = a \o b

LEMMA AfterParts ==
  ASSUME Octets = 256, NEW A \in SUBSET Seq(Octet), NEW B \in SUBSET Seq(Octet)
  PROVE  Joined(After(A, B), A, B)
<1> SUFFICES ASSUME NEW s \in After(A, B)
             PROVE  \E a \in A : \E b \in B : s = a \o b
  BY DEF Joined
<1>1. PICK a \in A, b \in B : s = Then(a, b)
  BY DEF After
<1>2. a # SIGFPE /\ b # SIGFPE
  BY CrashIsNoOctets
<1>3. s = a \o b
  BY <1>1, <1>2 DEF Then
<1> QED
  BY <1>3

LEMMA AfterOctets ==
  ASSUME Octets = 256, NEW A, A \subseteq Seq(Octet), NEW B, B \subseteq Seq(Octet),
         NEW s \in After(A, B)
  PROVE  s \in Seq(Octet) /\ \E a \in A : \E b \in B : s = a \o b
<1>1. A \in SUBSET Seq(Octet) /\ B \in SUBSET Seq(Octet)
  OBVIOUS
<1>2. Joined(After(A, B), A, B)
  BY <1>1, AfterParts
<1>3. PICK a \in A, b \in B : s = a \o b
  BY <1>2 DEF Joined
<1>4. a \in Seq(Octet) /\ b \in Seq(Octet)
  OBVIOUS
<1> QED
  BY <1>3, <1>4, ConcatProperties

LEMMA LoopOctets ==
  ASSUME Octets = 256, NEW n \in Nat, NEW G, \A k \in 1..n : G[k] \subseteq Seq(Octet),
         NEW f, IsLoop(f, G, n)
  PROVE  \A k \in 0..n : f[k] \subseteq Seq(Octet)
<1> DEFINE S == {k \in Nat : k <= n => f[k] \subseteq Seq(Octet)}
<1>1. f[0] = {<<>>} /\ \A k \in 1..n : f[k] = After(f[k - 1], G[k])
  BY LoopSteps
<1>2. 0 \in S
  <2>1. <<>> \in Seq(Octet)
    OBVIOUS
  <2> QED
    BY <1>1, <2>1
<1>3. ASSUME NEW k \in Nat, k \in S PROVE k + 1 \in S
  <2> SUFFICES ASSUME k + 1 <= n, NEW s \in f[k + 1] PROVE s \in Seq(Octet)
    OBVIOUS
  <2>1. k + 1 \in 1..n /\ (k + 1) - 1 = k /\ k <= n
    OBVIOUS
  <2>2. f[k + 1] = After(f[k], G[k + 1])
    BY <1>1, <2>1
  <2>3. f[k] \subseteq Seq(Octet) /\ G[k + 1] \subseteq Seq(Octet)
    BY <1>3, <2>1
  <2> QED
    BY <2>2, <2>3, AfterOctets
<1> HIDE DEF S
<1>4. Nat \subseteq S
  BY <1>2, <1>3, SetInduction
<1> QED
  BY <1>4 DEF S

(* What rules are decoded to, if it is octets.                             *)
OctetRules(rules) ==
  /\ \A r \in STRING : rules[r] \subseteq Seq(Octet)
  /\ rules["OCTET"] \subseteq [1..1 -> Octet]

LEMMA SingleOctets ==
  ASSUME Octets = 256, NEW rules, OctetRules(rules), NEW e, Decodable(e),
         e.kind # "repeat"
  PROVE  parse_single(e, rules) \subseteq Seq(Octet)
<1>1. CASE e.kind = "rule" /\ e.name \in STRING
  BY <1>1 DEF parse_single, OctetRules
<1>2. CASE e.kind = "symbol" /\ e.octets \in Seq(Octet)
  BY <1>2 DEF parse_single
<1>3. CASE /\ e.kind = "range" /\ BoundsInOrder(e.low, e.high)
           /\ Number(e.low) # Number(e.high)
  <2>1. parse_single(e, rules) = decode_terminal_range(e.low, e.high)
    BY <1>3 DEF parse_single
  <2>2. ASSUME NEW s \in decode_terminal_range(e.low, e.high)
        PROVE  s \in Seq(Octet)
    <3>1. PICK x \in Number(e.low)..(Number(e.high) - 1) :
            s = InOctets(x, OctetsNeeded(Number(e.high)))
      BY <1>3, <2>2, RangeDraws
    <3>2. Number(e.low) \in Nat /\ Number(e.high) \in Nat
      BY <1>3, <2>2, RangeDraws
    <3>3. x \in Nat
      BY <3>1, <3>2
    <3>4. PICK n \in 0..4 : n = OctetsNeeded(Number(e.high))
      BY <3>2, NeededAtMostFour
    <3>5. InOctets(x, n) \in [1..n -> Octet]
      BY <3>3, OctetsAreWritten
    <3>6. n \in Nat
      OBVIOUS
    <3>7. InOctets(x, n) \in Seq(Octet)
      BY <3>5, <3>6, OctetSequence
    <3> QED
      BY <3>1, <3>4, <3>7
  <2> QED
    BY <2>1, <2>2
<1>4. CASE e.kind = "quoted" /\ e.chars \in Seq(Octet)
  <2>1. parse_single(e, rules) = {decode_quoted(e.chars)}
    BY <1>4 DEF parse_single
  <2>2. PICK chars \in Seq(Octet) : chars = e.chars
    BY <1>4
  <2>3. DOMAIN chars = 1..Len(chars) /\ Len(chars) \in Nat
    BY LenProperties
  <2>4. ASSUME NEW i \in DOMAIN chars
        PROVE  (IF chars[i] \in 65..90 THEN chars[i] + 20 ELSE chars[i]) \in Octet
    <3>1. chars[i] \in Octet
      BY <2>3, <2>4, LenProperties
    <3>2. PICK c \in Octet : c = chars[i]
      BY <3>1
    <3>3. c \in 0..255 /\ Octet = 0..255
      BY Weights
    <3>4. (IF c \in 65..90 THEN c + 20 ELSE c) \in 0..255
      BY <3>3
    <3> QED
      BY <3>2, <3>3, <3>4
  <2>5. decode_quoted(chars) \in [1..Len(chars) -> Octet]
    BY <2>3, <2>4 DEF decode_quoted
  <2>6. decode_quoted(chars) \in Seq(Octet)
    BY <2>3, <2>5, OctetSequence
  <2> QED
    BY <2>1, <2>2, <2>6
<1>5. CASE e.kind = "optional"
  <2>1. parse_single(e, rules) = {<<>>}
    BY <1>5 DEF parse_single
  <2> QED
    BY <2>1
<1> QED
  BY <1>1, <1>2, <1>3, <1>4, <1>5 DEF Decodable

LEMMA ElementOctets ==
  ASSUME Octets = 256, NEW rules, OctetRules(rules), NEW e, Decodable(e)
  PROVE  parse_element(e, rules) \subseteq Seq(Octet)
<1>1. CASE e.kind # "repeat"
  BY <1>1, SingleOctets DEF parse_element
<1>2. CASE e.kind = "repeat"
  <2>1. /\ {e.min, e.max} \subseteq Nat /\ e.min # e.max + 1
        /\ e.of.kind = "rule" /\ e.of.name \in STRING
    BY <1>2 DEF Decodable
  <2>2. PICK min \in Nat, max \in Nat : min = e.min /\ max = e.max
    BY <2>1
  <2>3. PICK part : part = parse_single(e.of, rules)
    OBVIOUS
  <2>4. part \subseteq Seq(Octet)
    BY <2>1, <2>3 DEF parse_single, OctetRules
  <2>5. parse_element(e, rules) = parse_repetition(min, max, part)
    BY <1>2, <2>2, <2>3 DEF parse_element
  <2>6. ASSUME NEW s \in parse_repetition(min, max, part) PROVE s \in Seq(Octet)
    <3>1. max - min + 1 # 0
      BY <2>1, <2>2
    <3>2. PICK d \in Rand(max - min + 1) : s \in Repeated(min + d, part)
      BY <2>6, <3>1 DEF parse_repetition, Quantities
    <3>3. PICK q \in Nat : q = min + d
      BY <3>2 DEF Rand, Draws
    <3> DEFINE G == [k \in 1..q |-> part]
    <3>4. PICK f : IsLoop(f, G, q) /\ Repeated(q, part) = f[q]
      BY RepeatedIsLoop
    <3>5. \A k \in 1..q : G[k] \subseteq Seq(Octet)
      BY <2>4
    <3> HIDE DEF G
    <3>6. f[q] \subseteq Seq(Octet)
      BY <3>4, <3>5, LoopOctets
    <3> QED
      BY <3>2, <3>3, <3>4, <3>6
  <2> QED
    BY <2>5, <2>6
<1> QED
  BY <1>1, <1>2

LEMMA ElementsOctets ==
  ASSUME Octets = 256, NEW rules, OctetRules(rules), NEW elements,
         DecodableElements(elements)
  PROVE  parse_elements(elements, rules) \subseteq Seq(Octet)
<1> DEFINE n == Len(elements)
           G == [k \in 1..n |-> parse_element(elements[k], rules)]
<1>1. n \in Nat /\ \A k \in 1..n : Decodable(elements[k])
  BY DEF DecodableElements
<1>2. PICK f : IsLoop(f, G, n) /\ parse_elements(elements, rules) = f[n]
  BY <1>1, ElementsAreLoop
<1>3. \A k \in 1..n : G[k] \subseteq Seq(Octet)
  BY <1>1, ElementOctets
<1> HIDE DEF G, n
<1>4. \A k \in 0..n : f[k] \subseteq Seq(Octet)
  BY <1>1, <1>2, <1>3, LoopOctets
<1>5. n \in 0..n
  BY <1>1
<1> QED
  BY <1>2, <1>4, <1>5

LEMMA GeneratedOctets ==
  ASSUME Octets = 256, NEW octet, octet \subseteq [1..1 -> Octet]
  PROVE  /\ shortstring_generator(octet) \subseteq Seq(Octet)
         /\ longstring_generator(octet) \subseteq Seq(Octet)
<1>1. ASSUME NEW s \in shortstring_generator(octet) PROVE s \in Seq(Octet)
  <2>1. PICK r \in Rand(RULE_REPETITION_INFTY) :
          \E t \in [1..(r % Octets) -> Firsts(octet)] : s = <<r % Octets>> \o t
    BY Zenon, <1>1 DEF shortstring_generator
  <2>2. r \in Nat
    BY RepetitionAssumption DEF Rand, Draws
  <2>3. PICK n \in 0..255 : n = r % Octets
    BY SMT, <2>2
  <2>4. PICK t \in [1..n -> Firsts(octet)] : s = <<n>> \o t
    BY <2>1, <2>3
  <2>5. t \in [1..n -> Octet] /\ n \in Nat
    BY FirstsAreOctets
  <2>6. t \in Seq(Octet)
    BY <2>5, OctetSequence
  <2>7. n \in Octet
    <3>1. Octet = 0..255
      BY Weights
    <3> QED
      BY <3>1
  <2>8. <<n>> \in Seq(Octet)
    BY <2>7
  <2> QED
    BY <2>4, <2>6, <2>8, ConcatProperties
<1>2. ASSUME NEW s \in longstring_generator(octet) PROVE s \in Seq(Octet)
  <2>1. PICK n \in Rand(RULE_REPETITION_INFTY) :
          \E t \in [1..n -> Firsts(octet)] : s = InOctets(n, 4) \o t
    BY <1>2 DEF longstring_generator
  <2>2. n \in Nat
    BY RepetitionAssumption DEF Rand, Draws
  <2>3. PICK t \in [1..n -> Firsts(octet)] : s = InOctets(n, 4) \o t
    BY <2>1
  <2>4. t \in [1..n -> Octet]
    BY FirstsAreOctets
  <2>5. InOctets(n, 4) \in [1..4 -> Octet]
    BY <2>2, OctetsAreWritten
  <2>6. t \in Seq(Octet) /\ InOctets(n, 4) \in Seq(Octet)
    BY <2>2, <2>4, <2>5, OctetSequence
  <2> QED
    BY <2>3, <2>6, ConcatProperties
<1> QED
  BY <1>1, <1>2

LEMMA EntryOctets ==
  ASSUME Octets = 256, NEW rules, OctetRules(rules), NEW entry,
         DecodableEntry(entry)
  PROVE  decode_entry(entry, rules) \subseteq Seq(Octet)
<1>1. CASE entry.type = "STRING" /\ DecodableElements(entry.elements)
  <2>1. decode_entry(entry, rules) = parse_elements(entry.elements, rules)
    BY <1>1 DEF decode_entry
  <2> QED
    BY <1>1, <2>1, ElementsOctets
<1>2. CASE /\ entry.type = "STRING_ARRAY"
           /\ \A i \in DOMAIN entry.alternatives :
                DecodableElements(entry.alternatives[i])
  <2>1. decode_entry(entry, rules)
          = UNION {parse_elements(entry.alternatives[i], rules) :
                     i \in DOMAIN entry.alternatives}
    BY <1>2 DEF decode_entry
  <2>2. \A i \in DOMAIN entry.alternatives :
          parse_elements(entry.alternatives[i], rules) \subseteq Seq(Octet)
    BY <1>2, ElementsOctets
  <2> QED
    BY <2>1, <2>2
<1>3. CASE entry.type = "BYTE_ARRAY" /\ entry.octets \in Seq(Octet)
  BY <1>3 DEF decode_entry
<1>4. CASE entry.type = "FUNCTION"
  <2>1. decode_entry(entry, rules) \in {shortstring_generator(rules["OCTET"]),
                                        longstring_generator(rules["OCTET"])}
    BY <1>4 DEF decode_entry
  <2> QED
    BY <2>1, GeneratedOctets DEF OctetRules
<1>5. CASE entry = UNDEFINED
  <2>1. decode_entry(entry, rules) = {<<>>}
    BY <1>5 DEF decode_entry, UNDEFINED
  <2> QED
    BY <2>1
<1> QED
  BY <1>1, <1>2, <1>3, <1>4, <1>5 DEF DecodableEntry

(* An environment in which every rule is decodable, and an OCTET is one.   *)
DecodableEnvironment(env) ==
  /\ \A rule \in STRING : DecodableEntry(environment_lookup(env, rule))
  /\ "OCTET" \in STRING
  /\ environment_lookup(env, "OCTET")
       = new_string_grammar_entry(<<Between(<<0>>, <<Octets - 1>>)>>)

LEMMA NothingDecoded ==
  ASSUME NEW env, NEW rule \in STRING
  PROVE  Decodings(env)[0][rule] = {}
<1> DEFINE T == CHOOSE f : IsTable(f, env, Deepest)
<1>1. IsTable(T, env, Deepest)
  BY TableExists, DeepestAssumption
<1>2. Decodings(env) = T
  BY DEF Decodings, IsTable
<1> HIDE DEF T
<1>3. 0 \in 0..Deepest
  BY DeepestAssumption
<1>4. T[0] = [r \in STRING |-> {}]
  BY <1>1, <1>3 DEF IsTable
<1> QED
  BY <1>2, <1>4

(* Whatever rules are decoded to is octets: no draw ends the process.      *)
LEMMA TableOctets ==
  ASSUME Octets = 256, NEW env, DecodableEnvironment(env)
  PROVE  \A k \in 0..Deepest : OctetRules(Decodings(env)[k])
<1> DEFINE S == {k \in Nat : k <= Deepest => OctetRules(Decodings(env)[k])}
<1>1. 0 \in S
  <2>1. \A rule \in STRING : Decodings(env)[0][rule] = {}
    BY NothingDecoded
  <2> QED
    BY <2>1 DEF OctetRules, DecodableEnvironment
<1>2. ASSUME NEW k \in Nat, k \in S PROVE k + 1 \in S
  <2> SUFFICES ASSUME k + 1 <= Deepest PROVE OctetRules(Decodings(env)[k + 1])
    OBVIOUS
  <2>1. PICK depth \in 1..Deepest : depth = k + 1 /\ depth - 1 = k
    BY DeepestAssumption
  <2>2. OctetRules(Decodings(env)[k])
    BY <1>2, <2>1, DeepestAssumption
  <2>3. ASSUME NEW rule \in STRING
        PROVE  Decodings(env)[depth][rule]
                 = decode_entry(environment_lookup(env, rule), Decodings(env)[k])
    BY <2>1, RuleUnfolds
  <2>4. \A rule \in STRING : Decodings(env)[depth][rule] \subseteq Seq(Octet)
    BY <2>2, <2>3, EntryOctets DEF DecodableEnvironment
  <2>5. Decodings(env)[depth]["OCTET"]
          = decode_entry(new_string_grammar_entry(
                           <<Between(<<0>>, <<Octets - 1>>)>>), Decodings(env)[k])
    BY <2>3 DEF DecodableEnvironment
  <2>6. Decodings(env)[depth]["OCTET"]
          = parse_elements(<<Between(<<0>>, <<Octets - 1>>)>>, Decodings(env)[k])
    BY <2>5 DEF decode_entry, new_string_grammar_entry
  <2>7. Decodings(env)[depth]["OCTET"] \subseteq [1..1 -> Octet]
    BY <2>6, OctetDecoded
  <2> QED
    BY <2>1, <2>4, <2>7 DEF OctetRules
<1> HIDE DEF S
<1>3. Nat \subseteq S
  BY <1>1, <1>2, SetInduction
<1> QED
  BY <1>3, DeepestAssumption DEF S

-----------------------------------------------------------------------------
(* Octets one behind the other                                             *)

(* The loop of parse_elements, one element after the other.                *)
IsTurns(f, elements, rules, n) ==
  /\ f[0] = {<<>>}
  /\ \A k \in 1..n : f[k] = After(f[k - 1], parse_element(elements[k], rules))
  /\ parse_elements(elements, rules) = f[n]

LEMMA ElementsAfter ==
  ASSUME NEW rules, NEW elements, NEW n \in Nat, Len(elements) = n
  PROVE  \E f : IsTurns(f, elements, rules, n)
<1> DEFINE G == [k \in 1..n |-> parse_element(elements[k], rules)]
<1>1. PICK f : IsLoop(f, G, n) /\ parse_elements(elements, rules) = f[n]
  BY ElementsAreLoop
<1>2. \A k \in 1..n : G[k] = parse_element(elements[k], rules)
  OBVIOUS
<1> HIDE DEF G
<1>3. f[0] = {<<>>} /\ \A k \in 1..n : f[k] = After(f[k - 1], G[k])
  BY <1>1, LoopSteps
<1>4. IsTurns(f, elements, rules, n)
  BY <1>1, <1>2, <1>3 DEF IsTurns
<1> QED
  BY <1>4

LEMMA OneElement ==
  ASSUME NEW rules, NEW e1
  PROVE  LET P(e) == parse_element(e, rules)
         IN  parse_elements(<<e1>>, rules)
               = After({<<>>}, P(e1))
<1>1. PICK elements : elements = <<e1>>
  OBVIOUS
<1>2. Len(elements) = 1 /\ 1 \in Nat
  BY <1>1
<1>3. PICK f : IsTurns(f, elements, rules, 1)
  BY <1>2, ElementsAfter
<1>4. /\ f[0] = {<<>>} /\ parse_elements(elements, rules) = f[1]
      /\ \A k \in 1..1 : f[k] = After(f[k - 1], parse_element(elements[k], rules))
  BY <1>3 DEF IsTurns
<1>5. f[1] = After(f[0], parse_element(e1, rules))
  <2>1. 1 \in 1..1 /\ 1 - 1 = 0 /\ elements[1] = e1
    BY <1>1
  <2> QED
    BY <1>4, <2>1
<1> QED
  BY <1>1, <1>4, <1>5

LEMMA TwoElements ==
  ASSUME NEW rules, NEW e1, NEW e2
  PROVE  LET P(e) == parse_element(e, rules)
         IN  parse_elements(<<e1, e2>>, rules)
               = After(After({<<>>}, P(e1)), P(e2))
<1>1. PICK elements : elements = <<e1, e2>>
  OBVIOUS
<1>2. Len(elements) = 2 /\ 2 \in Nat
  BY <1>1
<1>3. PICK f : IsTurns(f, elements, rules, 2)
  BY <1>2, ElementsAfter
<1>4. /\ f[0] = {<<>>} /\ parse_elements(elements, rules) = f[2]
      /\ \A k \in 1..2 : f[k] = After(f[k - 1], parse_element(elements[k], rules))
  BY <1>3 DEF IsTurns
<1>5. f[1] = After(f[0], parse_element(e1, rules))
  <2>1. 1 \in 1..2 /\ 1 - 1 = 0 /\ elements[1] = e1
    BY <1>1
  <2> QED
    BY <1>4, <2>1
<1>6. f[2] = After(f[1], parse_element(e2, rules))
  <2>1. 2 \in 1..2 /\ 2 - 1 = 1 /\ elements[2] = e2
    BY <1>1
  <2> QED
    BY <1>4, <2>1
<1> QED
  BY <1>1, <1>4, <1>5, <1>6

LEMMA ThreeElements ==
  ASSUME NEW rules, NEW e1, NEW e2, NEW e3
  PROVE  LET P(e) == parse_element(e, rules)
         IN  parse_elements(<<e1, e2, e3>>, rules)
               = After(After(After({<<>>}, P(e1)), P(e2)), P(e3))
<1>1. PICK elements : elements = <<e1, e2, e3>>
  OBVIOUS
<1>2. Len(elements) = 3 /\ 3 \in Nat
  BY <1>1
<1>3. PICK f : IsTurns(f, elements, rules, 3)
  BY <1>2, ElementsAfter
<1>4. /\ f[0] = {<<>>} /\ parse_elements(elements, rules) = f[3]
      /\ \A k \in 1..3 : f[k] = After(f[k - 1], parse_element(elements[k], rules))
  BY <1>3 DEF IsTurns
<1>5. f[1] = After(f[0], parse_element(e1, rules))
  <2>1. 1 \in 1..3 /\ 1 - 1 = 0 /\ elements[1] = e1
    BY <1>1
  <2> QED
    BY <1>4, <2>1
<1>6. f[2] = After(f[1], parse_element(e2, rules))
  <2>1. 2 \in 1..3 /\ 2 - 1 = 1 /\ elements[2] = e2
    BY <1>1
  <2> QED
    BY <1>4, <2>1
<1>7. f[3] = After(f[2], parse_element(e3, rules))
  <2>1. 3 \in 1..3 /\ 3 - 1 = 2 /\ elements[3] = e3
    BY <1>1
  <2> QED
    BY <1>4, <2>1
<1> QED
  BY <1>1, <1>4, <1>5, <1>6, <1>7

LEMMA FourElements ==
  ASSUME NEW rules, NEW e1, NEW e2, NEW e3, NEW e4
  PROVE  LET P(e) == parse_element(e, rules)
         IN  parse_elements(<<e1, e2, e3, e4>>, rules)
               = After(After(After(After({<<>>}, P(e1)), P(e2)), P(e3)), P(e4))
<1>1. PICK elements : elements = <<e1, e2, e3, e4>>
  OBVIOUS
<1>2. Len(elements) = 4 /\ 4 \in Nat
  BY <1>1
<1>3. PICK f : IsTurns(f, elements, rules, 4)
  BY <1>2, ElementsAfter
<1>4. /\ f[0] = {<<>>} /\ parse_elements(elements, rules) = f[4]
      /\ \A k \in 1..4 : f[k] = After(f[k - 1], parse_element(elements[k], rules))
  BY <1>3 DEF IsTurns
<1>5. f[1] = After(f[0], parse_element(e1, rules))
  <2>1. 1 \in 1..4 /\ 1 - 1 = 0 /\ elements[1] = e1
    BY <1>1
  <2> QED
    BY <1>4, <2>1
<1>6. f[2] = After(f[1], parse_element(e2, rules))
  <2>1. 2 \in 1..4 /\ 2 - 1 = 1 /\ elements[2] = e2
    BY <1>1
  <2> QED
    BY <1>4, <2>1
<1>7. f[3] = After(f[2], parse_element(e3, rules))
  <2>1. 3 \in 1..4 /\ 3 - 1 = 2 /\ elements[3] = e3
    BY <1>1
  <2> QED
    BY <1>4, <2>1
<1>8. f[4] = After(f[3], parse_element(e4, rules))
  <2>1. 4 \in 1..4 /\ 4 - 1 = 3 /\ elements[4] = e4
    BY <1>1
  <2> QED
    BY <1>4, <2>1
<1> QED
  BY <1>1, <1>4, <1>5, <1>6, <1>7, <1>8

LEMMA FirstOctets ==
  ASSUME Octets = 256, NEW B, B \subseteq Seq(Octet)
  PROVE  After({<<>>}, B) \subseteq B
<1> SUFFICES ASSUME NEW s \in After({<<>>}, B) PROVE s \in B
  OBVIOUS
<1>1. PICK A : A = {<<>>}
  OBVIOUS
<1>2. s \in After(A, B)
  BY <1>1
<1>3. PICK a \in A, b \in B : s = a \o b
  <2>1. A \in SUBSET Seq(Octet) /\ B \in SUBSET Seq(Octet)
    BY <1>1
  <2>2. Joined(After(A, B), A, B)
    BY <2>1, AfterParts
  <2> QED
    BY <1>2, <2>2 DEF Joined
<1>4. a = <<>> /\ b \in Seq(Octet)
  BY <1>1
<1> QED
  BY <1>3, <1>4, ConcatEmptySeq

(* What the elements of a rule are decoded to lies one behind the other.   *)
LEMMA InTurn ==
  ASSUME Octets = 256, NEW rules, OctetRules(rules), NEW e1, Decodable(e1)
  PROVE  parse_elements(<<e1>>, rules) \subseteq parse_element(e1, rules)
<1>1. parse_elements(<<e1>>, rules) = After({<<>>}, parse_element(e1, rules))
  BY OneElement
<1>2. parse_element(e1, rules) \subseteq Seq(Octet)
  BY ElementOctets
<1> QED
  BY <1>1, <1>2, FirstOctets

LEMMA TwoInTurn ==
  ASSUME Octets = 256, NEW rules, OctetRules(rules),
         NEW e1, Decodable(e1), NEW e2, Decodable(e2)
  PROVE  Joined(parse_elements(<<e1, e2>>, rules),
                parse_element(e1, rules), parse_element(e2, rules))
<1> DEFINE A == After({<<>>}, parse_element(e1, rules))
           B == parse_element(e2, rules)
<1>1. parse_element(e1, rules) \subseteq Seq(Octet) /\ B \subseteq Seq(Octet)
  BY ElementOctets
<1>2. parse_elements(<<e1, e2>>, rules) = After(A, B)
  BY TwoElements
<1>3. A \subseteq parse_element(e1, rules)
  BY <1>1, FirstOctets
<1> HIDE DEF A, B
<1>4. A \in SUBSET Seq(Octet) /\ B \in SUBSET Seq(Octet)
  BY <1>1, <1>3
<1>5. Joined(After(A, B), A, B)
  BY <1>4, AfterParts
<1> QED
  BY <1>2, <1>3, <1>5 DEF Joined, B

LEMMA ThreeInTurn ==
  ASSUME Octets = 256, NEW rules, OctetRules(rules),
         NEW e1, Decodable(e1), NEW e2, Decodable(e2), NEW e3, Decodable(e3)
  PROVE  Joined(parse_elements(<<e1, e2, e3>>, rules),
                parse_elements(<<e1, e2>>, rules), parse_element(e3, rules))
<1> DEFINE A == parse_elements(<<e1, e2>>, rules)
           B == parse_element(e3, rules)
<1>1. DecodableElements(<<e1, e2>>)
  BY DEF DecodableElements
<1>2. A \in SUBSET Seq(Octet)
  BY <1>1, ElementsOctets
<1>3. B \in SUBSET Seq(Octet)
  BY ElementOctets
<1>4. parse_elements(<<e1, e2, e3>>, rules) = After(A, B)
  BY TwoElements, ThreeElements
<1> HIDE DEF A, B
<1>5. Joined(After(A, B), A, B)
  BY <1>2, <1>3, AfterParts
<1> QED
  BY <1>4, <1>5 DEF A, B

LEMMA FourInTurn ==
  ASSUME Octets = 256, NEW rules, OctetRules(rules),
         NEW e1, Decodable(e1), NEW e2, Decodable(e2),
         NEW e3, Decodable(e3), NEW e4, Decodable(e4)
  PROVE  Joined(parse_elements(<<e1, e2, e3, e4>>, rules),
                parse_elements(<<e1, e2, e3>>, rules), parse_element(e4, rules))
<1> DEFINE A == parse_elements(<<e1, e2, e3>>, rules)
           B == parse_element(e4, rules)
<1>1. DecodableElements(<<e1, e2, e3>>)
  BY DEF DecodableElements
<1>2. A \in SUBSET Seq(Octet)
  BY <1>1, ElementsOctets
<1>3. B \in SUBSET Seq(Octet)
  BY ElementOctets
<1>4. parse_elements(<<e1, e2, e3, e4>>, rules) = After(A, B)
  BY ThreeElements, FourElements
<1> HIDE DEF A, B
<1>5. Joined(After(A, B), A, B)
  BY <1>2, <1>3, AfterParts
<1> QED
  BY <1>4, <1>5 DEF A, B

LEMMA ThreeJoined ==
  ASSUME NEW A, NEW B, NEW C, NEW S, NEW T, Joined(S, A, B), Joined(T, S, C),
         NEW t \in T
  PROVE  \E a \in A : \E b \in B : \E c \in C : t = (a \o b) \o c
<1>1. PICK s \in S, c \in C : t = s \o c
  BY Joined(T, S, C) DEF Joined
<1>2. PICK a \in A, b \in B : s = a \o b
  BY Joined(S, A, B) DEF Joined
<1> QED
  BY <1>1, <1>2

LEMMA FourJoined ==
  ASSUME NEW A, NEW B, NEW C, NEW D, NEW S, NEW T, NEW U,
         Joined(S, A, B), Joined(T, S, C), Joined(U, T, D), NEW u \in U
  PROVE  \E a \in A : \E b \in B : \E c \in C : \E d \in D :
           u = ((a \o b) \o c) \o d
<1>1. PICK t \in T, d \in D : u = t \o d
  BY Joined(U, T, D) DEF Joined
<1>2. PICK a \in A, b \in B, c \in C : t = (a \o b) \o c
  BY ThreeJoined
<1> QED
  BY <1>1, <1>2

(* t lies in s behind k octets.                                            *)
Within(s, k, t) ==
  /\ s \in Seq(Octet) /\ t \in Seq(Octet) /\ k \in Nat
  /\ k + Len(t) <= Len(s)
  /\ \A i \in 1..Len(t) : s[k + i] = t[i]

LEMMA ConcatWithin ==
  ASSUME NEW a \in Seq(Octet), NEW b \in Seq(Octet)
  PROVE  /\ Within(a \o b, 0, a) /\ Within(a \o b, Len(a), b)
         /\ Len(a \o b) = Len(a) + Len(b)
<1>1. /\ a \o b \in Seq(Octet)
      /\ Len(a \o b) = Len(a) + Len(b)
      /\ \A i \in 1..(Len(a) + Len(b)) :
           (a \o b)[i] = IF i <= Len(a) THEN a[i] ELSE b[i - Len(a)]
  BY ConcatProperties
<1>2. Len(a) \in Nat /\ Len(b) \in Nat
  BY LenProperties
<1>3. \A i \in 1..Len(a) : (a \o b)[0 + i] = a[i]
  BY <1>1, <1>2
<1>4. ASSUME NEW i \in 1..Len(b) PROVE (a \o b)[Len(a) + i] = b[i]
  <2>1. /\ Len(a) + i \in 1..(Len(a) + Len(b)) /\ ~(Len(a) + i <= Len(a))
        /\ (Len(a) + i) - Len(a) = i
    BY <1>2
  <2> QED
    BY <1>1, <2>1
<1> QED
  BY <1>1, <1>2, <1>3, <1>4 DEF Within

LEMMA WithinWithin ==
  ASSUME NEW s, NEW k, NEW t, NEW l, NEW u, Within(s, k, t), Within(t, l, u)
  PROVE  Within(s, k + l, u)
<1>1. /\ s \in Seq(Octet) /\ t \in Seq(Octet) /\ u \in Seq(Octet)
      /\ k \in Nat /\ l \in Nat
      /\ k + Len(t) <= Len(s) /\ l + Len(u) <= Len(t)
  BY DEF Within
<1>2. Len(s) \in Nat /\ Len(t) \in Nat /\ Len(u) \in Nat
  BY <1>1, LenProperties
<1>3. ASSUME NEW i \in 1..Len(u) PROVE s[(k + l) + i] = u[i]
  <2>1. l + i \in 1..Len(t) /\ k + (l + i) = (k + l) + i
    BY <1>1, <1>2
  <2> QED
    BY <2>1 DEF Within
<1>4. k + l \in Nat /\ (k + l) + Len(u) <= Len(s)
  BY <1>1, <1>2
<1> QED
  BY <1>1, <1>3, <1>4 DEF Within

(* A length that lies in a packet is read there.                           *)
LEMMA LengthIsRead ==
  ASSUME Octets = 256, NEW n \in Nat, FitsInt(n), NEW s, NEW k,
         Within(s, k, InOctets(n, 4))
  PROVE  Unsigned32(s[k + 1], s[k + 2], s[k + 3], s[k + 4]) = n
<1> DEFINE d == InOctets(n, 4)
<1>1. /\ d \in [1..4 -> Octet]
      /\ Unsigned32(d[1], d[2], d[3], d[4]) = n
  BY SizeIsRead
<1> HIDE DEF d
<1>2. Len(d) = 4
  BY <1>1, OctetSequence
<1>3. \A i \in 1..4 : s[k + i] = d[i]
  BY <1>2 DEF Within, d
<1>4. s[k + 1] = d[1] /\ s[k + 2] = d[2] /\ s[k + 3] = d[3] /\ s[k + 4] = d[4]
  BY <1>3
<1> QED
  BY <1>1, <1>4

(* The same of three sequences and of four.                                *)
LEMMA ThreeWithin ==
  ASSUME NEW a \in Seq(Octet), NEW b \in Seq(Octet), NEW c \in Seq(Octet)
  PROVE  LET s == (a \o b) \o c
         IN  /\ Len(s) = Len(a) + Len(b) + Len(c)
             /\ Within(s, 0, a) /\ Within(s, Len(a), b)
             /\ Within(s, Len(a) + Len(b), c)
<1>1. PICK t \in Seq(Octet) : t = a \o b
  BY ConcatProperties
<1>2. Within(t, 0, a) /\ Within(t, Len(a), b) /\ Len(t) = Len(a) + Len(b)
  BY <1>1, ConcatWithin
<1>3. PICK s \in Seq(Octet) : s = t \o c
  BY ConcatProperties
<1>4. Within(s, 0, t) /\ Within(s, Len(t), c) /\ Len(s) = Len(t) + Len(c)
  BY <1>3, ConcatWithin
<1>5. Within(s, 0 + 0, a) /\ Within(s, 0 + Len(a), b)
  BY <1>2, <1>4, WithinWithin
<1>6. 0 + 0 = 0 /\ 0 + Len(a) = Len(a)
  BY LenProperties
<1>7. /\ Len(s) = Len(a) + Len(b) + Len(c)
      /\ Within(s, 0, a) /\ Within(s, Len(a), b) /\ Within(s, Len(a) + Len(b), c)
  BY <1>2, <1>4, <1>5, <1>6
<1> QED
  BY <1>1, <1>3, <1>7

LEMMA FourWithin ==
  ASSUME NEW a \in Seq(Octet), NEW b \in Seq(Octet), NEW c \in Seq(Octet),
         NEW d \in Seq(Octet)
  PROVE  LET s == ((a \o b) \o c) \o d
         IN  /\ Len(s) = Len(a) + Len(b) + Len(c) + Len(d)
             /\ Within(s, 0, a) /\ Within(s, Len(a), b)
             /\ Within(s, Len(a) + Len(b), c)
<1>1. PICK t \in Seq(Octet) : t = (a \o b) \o c
  BY ConcatProperties
<1>2. /\ Within(t, 0, a) /\ Within(t, Len(a), b) /\ Within(t, Len(a) + Len(b), c)
      /\ Len(t) = Len(a) + Len(b) + Len(c)
  BY <1>1, ThreeWithin
<1>3. PICK s \in Seq(Octet) : s = t \o d
  BY ConcatProperties
<1>4. Within(s, 0, t) /\ Len(s) = Len(t) + Len(d)
  BY <1>3, ConcatWithin
<1>5. /\ Within(s, 0 + 0, a) /\ Within(s, 0 + Len(a), b)
      /\ Within(s, 0 + (Len(a) + Len(b)), c)
  BY <1>2, <1>4, WithinWithin
<1>6. 0 + 0 = 0 /\ 0 + Len(a) = Len(a) /\ 0 + (Len(a) + Len(b)) = Len(a) + Len(b)
  BY LenProperties
<1>7. /\ Len(s) = Len(a) + Len(b) + Len(c) + Len(d)
      /\ Within(s, 0, a) /\ Within(s, Len(a), b) /\ Within(s, Len(a) + Len(b), c)
  BY <1>2, <1>4, <1>5, <1>6
<1> QED
  BY <1>1, <1>3, <1>7

-----------------------------------------------------------------------------
(* A rule and the rules in it                                              *)

(* Rules, with the rules in them decoded to inner.                         *)
Unfolds(env, rules, inner) ==
  /\ OctetRules(rules) /\ OctetRules(inner)
  /\ \A rule \in STRING :
       rules[rule] = decode_entry(environment_lookup(env, rule), inner)

LEMMA RulesUnfold ==
  ASSUME Octets = 256, NEW env, DecodableEnvironment(env),
         NEW depth \in 1..Deepest
  PROVE  Unfolds(env, Decodings(env)[depth], Decodings(env)[depth - 1])
<1>1. depth \in 0..Deepest /\ depth - 1 \in 0..Deepest
  BY DeepestAssumption
<1> QED
  BY <1>1, TableOctets, RuleUnfolds DEF Unfolds

LEMMA RulesUnfoldFive ==
  ASSUME Octets = 256, NEW env, DecodableEnvironment(env), Deepest >= 6
  PROVE  \E a, b, c, d, e, f :
           /\ a = Decodings(env)[Deepest]
           /\ Unfolds(env, a, b) /\ Unfolds(env, b, c) /\ Unfolds(env, c, d)
           /\ Unfolds(env, d, e) /\ Unfolds(env, e, f)
<1> DEFINE D(k) == Decodings(env)[Deepest - k]
<1>1. \A depth \in 1..Deepest :
        Unfolds(env, Decodings(env)[depth], Decodings(env)[depth - 1])
  BY RulesUnfold
<1>2. \A k \in 0..4 : /\ Deepest - k \in 1..Deepest
                      /\ (Deepest - k) - 1 = Deepest - (k + 1)
  BY DeepestAssumption
<1>3. \A k \in 0..4 : Unfolds(env, D(k), D(k + 1))
  BY <1>1, <1>2
<1>4. Deepest - 0 = Deepest
  BY DeepestAssumption
<1>5. D(0) = Decodings(env)[Deepest]
  BY <1>4
<1> HIDE DEF D
<1>6. /\ Unfolds(env, D(0), D(1)) /\ Unfolds(env, D(1), D(2))
      /\ Unfolds(env, D(2), D(3)) /\ Unfolds(env, D(3), D(4))
      /\ Unfolds(env, D(4), D(5))
  BY <1>3
<1> QED
  BY <1>5, <1>6

(* What a rule is found to stand for.                                      *)
Finds(env, rule, elements) ==
  /\ rule \in STRING
  /\ environment_lookup(env, rule) = new_string_grammar_entry(elements)

FindsOctets(env, rule, octets) ==
  /\ rule \in STRING /\ octets \in Seq(Octet)
  /\ environment_lookup(env, rule) = new_byte_array_grammar_entry(octets)

LEMMA OctetsUnfold ==
  ASSUME NEW env, NEW rules, NEW inner, Unfolds(env, rules, inner),
         NEW rule, NEW octets, FindsOctets(env, rule, octets)
  PROVE  rules[rule] = {octets}
<1>1. rules[rule] = decode_entry(new_byte_array_grammar_entry(octets), inner)
  BY DEF Unfolds, FindsOctets
<1> QED
  BY <1>1 DEF decode_entry, new_byte_array_grammar_entry

LEMMA ElementsUnfold ==
  ASSUME NEW env, NEW rules, NEW inner, Unfolds(env, rules, inner),
         NEW rule, NEW elements, Finds(env, rule, elements)
  PROVE  rules[rule] = parse_elements(elements, inner)
<1>1. rules[rule] = decode_entry(new_string_grammar_entry(elements), inner)
  BY DEF Unfolds, Finds
<1> QED
  BY <1>1 DEF decode_entry, new_string_grammar_entry

LEMMA RuleParts ==
  ASSUME NEW rules, NEW rule \in STRING
  PROVE  Decodable(Rule(rule)) /\ parse_element(Rule(rule), rules) = rules[rule]
BY DEF Decodable, Rule, parse_element, parse_single

LEMMA SymbolParts ==
  ASSUME NEW rules, NEW octets \in Seq(Octet)
  PROVE  /\ Decodable(Symbol(octets))
         /\ parse_element(Symbol(octets), rules) = {octets}
BY DEF Decodable, Symbol, parse_element, parse_single

(* A rule that is another one, and one that is a symbol.                   *)
LEMMA RuleUnfoldsToRule ==
  ASSUME Octets = 256, NEW env, NEW rules, NEW inner, Unfolds(env, rules, inner),
         NEW rule, NEW other \in STRING, Finds(env, rule, <<Rule(other)>>)
  PROVE  rules[rule] \subseteq inner[other]
<1>1. rules[rule] = parse_elements(<<Rule(other)>>, inner)
  BY ElementsUnfold
<1>2. Decodable(Rule(other)) /\ parse_element(Rule(other), inner) = inner[other]
  BY RuleParts
<1>3. OctetRules(inner)
  BY DEF Unfolds
<1>4. parse_elements(<<Rule(other)>>, inner) \subseteq parse_element(Rule(other), inner)
  BY <1>2, <1>3, InTurn
<1> QED
  BY <1>1, <1>2, <1>4

LEMMA RuleUnfoldsToSymbol ==
  ASSUME Octets = 256, NEW env, NEW rules, NEW inner, Unfolds(env, rules, inner),
         NEW rule, NEW octets \in Seq(Octet), Finds(env, rule, <<Symbol(octets)>>)
  PROVE  rules[rule] \subseteq {octets}
<1>1. rules[rule] = parse_elements(<<Symbol(octets)>>, inner)
  BY ElementsUnfold
<1>2. /\ Decodable(Symbol(octets))
      /\ parse_element(Symbol(octets), inner) = {octets}
  BY SymbolParts
<1>3. OctetRules(inner)
  BY DEF Unfolds
<1>4. parse_elements(<<Symbol(octets)>>, inner)
        \subseteq parse_element(Symbol(octets), inner)
  BY <1>2, <1>3, InTurn
<1> QED
  BY <1>1, <1>2, <1>4

-----------------------------------------------------------------------------
(* One call of parse_element                                               *)

rulesHere == Decodings(environment)[Deepest]

(* What the three properties say of an element and what it is decoded to.  *)
Kept(e, s) ==
  /\ e.kind = "range" /\ s # SIGFPE /\ Head(e.high) > 1 =>
       /\ Len(s) = Len(e.high)
       /\ Number(s) \in Number(e.low)..(Number(e.high) - 1)
  /\ e.kind = "repeat" /\ s # SIGFPE /\ e.min <= e.max =>
       Len(s) \in e.min..e.max

Crashed(e, s) ==
  s = SIGFPE =>
    \/ e.kind = "range" /\ Number(e.low) = Number(e.high)
    \/ e.kind = "repeat" /\ e.min = e.max + 1

LengthTold(e, s) ==
  /\ e = Rule("short-string") => s[1] = Len(s) - 1
  /\ e = Rule("long-string") =>
       Unsigned32(s[1], s[2], s[3], s[4]) = Len(s) - 4

LEMMA ElementDecoded ==
  ASSUME Octets = 256, NEW e \in Elements, NEW s \in parse_element(e, rulesHere)
  PROVE  Kept(e, s) /\ Crashed(e, s) /\ LengthTold(e, s)
<1>1. CASE e.kind = "range" /\ BoundsInOrder(e.low, e.high)
  <2>1. s \in decode_terminal_range(e.low, e.high)
    BY <1>1 DEF parse_element, parse_single
  <2>2. Head(e.high) = e.high[1]
    BY <1>1, OctetSequence DEF BoundsInOrder
  <2>3. Kept(e, s)
    BY <1>1, <2>1, <2>2, RangeIsKept DEF Kept
  <2>4. Crashed(e, s)
    BY <1>1, <2>1, RangeCrashes DEF Crashed
  <2>5. LengthTold(e, s)
    BY <1>1 DEF LengthTold, Rule
  <2> QED
    BY <2>3, <2>4, <2>5
<1>2. CASE e.kind = "repeat" /\ {e.min, e.max} \subseteq Nat /\ OneOctet(e.of)
  <2>1. s \in parse_repetition(e.min, e.max, parse_single(e.of, rulesHere))
    BY <1>2 DEF parse_element
  <2>2. parse_single(e.of, rulesHere) \subseteq [1..1 -> Octet]
    BY <1>2, OneOctetIsDecoded
  <2>3. /\ s = SIGFPE => e.min = e.max + 1
        /\ s # SIGFPE /\ e.min <= e.max => Len(s) \in e.min..e.max
    BY <1>2, <2>1, <2>2, RepetitionIsKept
  <2>4. LengthTold(e, s)
    BY <1>2 DEF LengthTold, Rule
  <2> QED
    BY <1>2, <2>3, <2>4 DEF Kept, Crashed
<1>3. CASE e.kind = "quoted" /\ \A i \in DOMAIN e.chars : e.chars[i] \in Octet
  <2>1. s = decode_quoted(e.chars)
    BY <1>3 DEF parse_element, parse_single
  <2>2. s # SIGFPE
    <3> SUFFICES ASSUME s = SIGFPE PROVE FALSE
      OBVIOUS
    <3>1. 1 \in DOMAIN s /\ s[1] = -1
      BY DEF SIGFPE
    <3>2. PICK c \in Octet :
            -1 = IF c \in 65..90 THEN c + 20 ELSE c
      BY <1>3, <2>1, <3>1 DEF decode_quoted
    <3>3. c \in 0..255
      BY <3>2, Weights
    <3> QED
      BY <3>2, <3>3
  <2>3. LengthTold(e, s)
    BY <1>3 DEF LengthTold, Rule
  <2> QED
    BY <1>3, <2>2, <2>3 DEF Kept, Crashed
<1>4. CASE e.kind = "optional"
  <2>1. s = <<>>
    BY <1>4 DEF parse_element, parse_single
  <2> QED
    BY <1>4, <2>1 DEF Kept, Crashed, LengthTold, Rule, SIGFPE
<1>5. CASE e \in {Rule("short-string"), Rule("long-string")}
  <2>1. PICK octet :
          /\ octet \subseteq [1..1 -> Octet]
          /\ rulesHere["short-string"] = shortstring_generator(octet)
          /\ rulesHere["long-string"] = longstring_generator(octet)
    BY StringsAreGenerated DEF rulesHere
  <2>2. CASE e = Rule("short-string")
    <3>1. s \in shortstring_generator(octet)
      BY <2>1, <2>2 DEF parse_element, parse_single, Rule
    <3>2. s[1] = Len(s) - 1 /\ s # SIGFPE
      BY <2>1, <3>1, ShortStrings
    <3> QED
      BY <2>2, <3>2 DEF Kept, Crashed, LengthTold, Rule
  <2>3. CASE e = Rule("long-string")
    <3>1. s \in longstring_generator(octet)
      BY <2>1, <2>3 DEF parse_element, parse_single, Rule
    <3>2. Unsigned32(s[1], s[2], s[3], s[4]) = Len(s) - 4 /\ s # SIGFPE
      BY <2>1, <3>1, LongStrings
    <3> QED
      BY <2>3, <3>2 DEF Kept, Crashed, LengthTold, Rule
  <2> QED
    BY <1>5, <2>2, <2>3
<1>6. CASE /\ e.kind = "rule" /\ e.name \in STRING
           /\ environment_lookup(environment, e.name) = UNDEFINED
  <2>1. s \in rulesHere[e.name]
    BY <1>6 DEF parse_element, parse_single
  <2>2. Deepest \in 1..Deepest
    BY DeepestAssumption, StringsAssumption
  <2>3. rulesHere[e.name] = decode_entry(UNDEFINED, Decodings(environment)[Deepest - 1])
    BY <1>6, <2>2, RuleUnfolds DEF rulesHere
  <2>4. s = <<>>
    BY <2>1, <2>3 DEF decode_entry, UNDEFINED
  <2>5. /\ new_function_grammar_entry("shortstring") # UNDEFINED
        /\ new_function_grammar_entry("longstring") # UNDEFINED
    BY DEF new_function_grammar_entry, UNDEFINED
  <2>6. e.name # "short-string" /\ e.name # "long-string"
    BY <1>6, <2>5, StringsAssumption
  <2> QED
    BY <1>6, <2>4, <2>6 DEF Kept, Crashed, LengthTold, Rule, SIGFPE
<1> QED
  BY <1>1, <1>2, <1>3, <1>4, <1>5, <1>6, ElementsAssumption
-----------------------------------------------------------------------------
(* The calls of parse_element                                              *)

(* What has been decoded is one of the results of the element.             *)
DecodingInv ==
  /\ element \in Elements
  /\ done \in BOOLEAN
  /\ done => decoded \in parse_element(element, rulesHere)

(* packet-generator.c 297-314: the element a call was given stays the one  *)
(* that its octets are of.                                                 *)
THEOREM DecodingInvHolds == DecodingSpec => []DecodingInv
<1>1. DecodingInit => DecodingInv
  BY DEF DecodingInit, DecodingInv
<1>2. DecodingInv /\ [DecodingNext]_decodingVars => DecodingInv'
  <2> SUFFICES ASSUME DecodingInv, [DecodingNext]_decodingVars
               PROVE  DecodingInv'
    OBVIOUS
  <2> USE DEF DecodingInv
  <2>1. CASE DecodeElement
    BY <2>1 DEF DecodeElement, rulesHere
  <2>2. CASE UNCHANGED decodingVars
    BY <2>2 DEF decodingVars, rulesHere
  <2> QED
    BY <2>1, <2>2 DEF DecodingNext
<1> QED
  BY <1>1, <1>2, PTL DEF DecodingSpec

(* packet-generator.c 85-149 and 255-260, where an octet has 256 values:   *)
(* whatever rand() draws, a range is decoded to one of its values but its  *)
(* last, and a repetition is as long as was asked for.                     *)
THEOREM BoundsKept ==
  ASSUME Octets = 256
  PROVE  DecodingSpec => []BoundsAreKept
<1>1. DecodingInv => BoundsAreKept
  <2> SUFFICES ASSUME DecodingInv, done PROVE BoundsAreKept
    BY DEF BoundsAreKept, Decoded
  <2>1. Kept(element, decoded)
    BY ElementDecoded DEF DecodingInv
  <2> QED
    BY <2>1 DEF Kept, BoundsAreKept, Decoded
<1> QED
  BY <1>1, DecodingInvHolds, PTL

(* packet-generator.c 131 and 255: no other element divides by zero.       *)
THEOREM CrashesOnlyOnEmptyDraw ==
  ASSUME Octets = 256
  PROVE  DecodingSpec => []CrashOnlyOnEmptyDraw
<1>1. DecodingInv => CrashOnlyOnEmptyDraw
  <2> SUFFICES ASSUME DecodingInv, done PROVE CrashOnlyOnEmptyDraw
    BY DEF CrashOnlyOnEmptyDraw
  <2>1. Crashed(element, decoded)
    BY ElementDecoded DEF DecodingInv
  <2> QED
    BY <2>1 DEF Crashed, CrashOnlyOnEmptyDraw
<1> QED
  BY <1>1, DecodingInvHolds, PTL

(* Connection.c 19-44: a string of AMQP tells its length, whatever rand()  *)
(* draws and however often a repetition without a bound is repeated.       *)
THEOREM StringsTellLength ==
  ASSUME Octets = 256
  PROVE  DecodingSpec => []StringsTellTheirLength
<1>1. DecodingInv => StringsTellTheirLength
  <2> SUFFICES ASSUME DecodingInv, done PROVE StringsTellTheirLength
    BY DEF StringsTellTheirLength
  <2>1. LengthTold(element, decoded)
    BY ElementDecoded DEF DecodingInv
  <2> QED
    BY <2>1 DEF LengthTold, StringsTellTheirLength
<1> QED
  BY <1>1, DecodingInvHolds, PTL
===============================================================================

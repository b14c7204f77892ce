--------------------------------- MODULE Bytes ---------------------------------
(***************************************************************************)
(* The conversions of fuzzer/utils.c between integers and octets in        *)
(* network order.                                                          *)
(*                                                                         *)
(* A buffer is a function from 0..(n-1), as in C.  The number of values of *)
(* an octet is a parameter, so that TLC can try every word; the theorems   *)
(* take it to be 256.                                                      *)
(***************************************************************************)
EXTENDS Integers

CONSTANT Octets  \* how many values an octet has: 256

ASSUME OctetsAssumption == Octets \in {2 * k : k \in 1..128}

Octet == 0..(Octets - 1)

(* How many values the C types short and int have.                         *)
Short == Octets * Octets
Int32 == Short * Short

(* Conversion to a signed type of so many values; overflow wraps around in *)
(* this build (no -O, gcc).                                                *)
Signed(values, x) ==
  LET u == x % values IN IF u < values \div 2 THEN u ELSE u - values

(* The octets at the index are the arguments here.                         *)
char_in_short(a, b) == Signed(Short, a * Octets + b)

(* The low half is a short too: it is added with its sign.                 *)
char_in_int(a, b, c, d) ==
  Signed(Int32, char_in_short(a, b) * Short + char_in_short(c, d))

(* The octet of a given weight in the two's complement of x.               *)
Digit(x, weight) == (x \div weight) % Octets

(* A version that leaves the octets in the order of the machine.           *)
short_in_char_HostOrder(dst, src, i, n) ==
  IF i + 2 > n THEN dst
  ELSE [dst EXCEPT ![i] = Digit(src, 1), ![i + 1] = Digit(src, Octets)]

(* Nothing is written unless all of it fits into the n octets of dst.      *)
short_in_char(dst, src, i, n) ==
  IF i + 2 > n THEN dst
  ELSE [dst EXCEPT ![i] = Digit(src, Octets), ![i + 1] = Digit(src, 1)]

int_in_char(dst, src, i, n) ==
  IF i + 4 > n THEN dst
  ELSE [dst EXCEPT ![i]     = Digit(src, Short * Octets),
                   ![i + 1] = Digit(src, Short),
                   ![i + 2] = Digit(src, Octets),
                   ![i + 3] = Digit(src, 1)]

-----------------------------------------------------------------------------
(* The number that octets in network order stand for.                      *)
Unsigned16(a, b) == a * Octets + b

Unsigned32(a, b, c, d) == Unsigned16(a, b) * Short + Unsigned16(c, d)

(* rand() % m, for m # 0: the sign of m does not matter to C.              *)
Draws(m) == 0..((IF m < 0 THEN -m ELSE m) - 1)
===============================================================================

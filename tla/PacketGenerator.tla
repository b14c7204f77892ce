---------------------------- MODULE PacketGenerator ----------------------------
(***************************************************************************)
(* grammar/packet-generator.c: what a rule of the grammar may be decoded   *)
(* to, as the set of octet sequences rand() can choose from.  A rule       *)
(* decodes the rules it names; they are nested no deeper than Deepest.     *)
(***************************************************************************)
EXTENDS Bytes, Environments

CONSTANTS
  Tried(_),  \* the draws of rand() % m that are explored, of all there are
  Deepest    \* how deep rules are nested

ASSUME DeepestAssumption == Deepest \in Nat

Rand(m) == Tried(m) \cap Draws(m)

(* In place of octets: the division by zero that ends the process.         *)
SIGFPE == <<-1>>

-----------------------------------------------------------------------------
(* Terminals                                                               *)

(* An int has four octets; the last is the first of these.                 *)
Weight == <<1, Octets, Short, Short * Octets>>

InOctets(x, length) == [i \in 1..length |-> Digit(x, Weight[length - i + 1])]

(* The octets of one bound of a range, as a number.                        *)
Number(octets) ==
  LET Place(k) == IF k <= Len(octets)
                  THEN octets[Len(octets) - k + 1] * Weight[k] ELSE 0
  IN  Place(1) + Place(2) + Place(3) + Place(4)

(* The loop that counts the octets of max, and stops at 1 already.         *)
OctetsNeeded(max) ==
  CHOOSE n \in 0..4 : /\ \A k \in 1..n : max \div Weight[k] > 1
                      /\ n < 4 => max \div Weight[n + 1] <= 1

(* A version that draws max - min + 1 values, but above min.               *)
decode_terminal_range_AboveMin(low, high) ==
  LET min == Number(low)
      max == Number(high)
  IN  IF max = min THEN {SIGFPE}
      ELSE {InOctets(min + d + 1, OctetsNeeded(max)) : d \in Rand(max - min + 1)}

(* rand() % (max - min) + min, in as many octets as max needs.             *)
decode_terminal_range(low, high) ==
  LET min == Number(low)
      max == Number(high)
  IN  IF max = min THEN {SIGFPE}
      ELSE {InOctets(min + d, OctetsNeeded(max)) : d \in Rand(max - min)}

(* Capital letters are moved by 20, not by 0x20.                           *)
decode_quoted(chars) ==
  [i \in DOMAIN chars |-> IF chars[i] \in 65..90 THEN chars[i] + 20
                                                 ELSE chars[i]]

-----------------------------------------------------------------------------
(* Repetitions                                                             *)

(* What is decoded, after what was decoded before it.                      *)
Then(first, second) ==
  IF SIGFPE \in {first, second} THEN SIGFPE ELSE first \o second

After(before, decoded) ==
  {Then(first, second) : first \in before, second \in decoded}

(* A version with one quantity too few.                                    *)
Quantities_TooFew(min, max) == max - min

(* Among how many quantities rand() chooses; not among none.               *)
Quantities(min, max) == max - min + 1

(* The loop of parse_repetition.                                           *)
Repeated(quantity, decoded) ==
  LET result[n \in 0..quantity] ==
        IF n = 0 THEN {<<>>} ELSE After(result[n - 1], decoded)
  IN  result[quantity]

parse_repetition(min, max, decoded) ==
  IF Quantities(min, max) = 0 THEN {SIGFPE}
  ELSE UNION {Repeated(min + d, decoded) : d \in Rand(Quantities(min, max))}

-----------------------------------------------------------------------------
(* The generators of Connection.c: a length, and as many octets, each the  *)
(* first of what OCTET is decoded to.                                      *)

Firsts(decoded) == {octets[1] : octets \in decoded}

(* A version that fills the octet of the length too.                       *)
shortstring_generator_Longer(octet) ==
  UNION {{<<n>> \o s : s \in [1..(n + 1) -> Firsts(octet)]} :
           n \in {r % Octets : r \in Rand(RULE_REPETITION_INFTY)}}

shortstring_generator(octet) ==
  UNION {{<<n>> \o s : s \in [1..n -> Firsts(octet)]} :
           n \in {r % Octets : r \in Rand(RULE_REPETITION_INFTY)}}

longstring_generator(octet) ==
  UNION {{InOctets(n, 4) \o s : s \in [1..n -> Firsts(octet)]} :
           n \in Rand(RULE_REPETITION_INFTY)}

-----------------------------------------------------------------------------
(* Elements and rules, given what each rule named in them is decoded to    *)

parse_single(element, rules) ==
  CASE element.kind = "rule"     -> rules[element.name]
    [] element.kind = "symbol"   -> {element.octets}
    [] element.kind = "range"    ->
         decode_terminal_range(element.low, element.high)
    [] element.kind = "quoted"   -> {decode_quoted(element.chars)}
    [] element.kind = "optional" -> {<<>>}

parse_element(element, rules) ==
  IF element.kind = "repeat"
  THEN parse_repetition(element.min, element.max,
                        parse_single(element.of, rules))
  ELSE parse_single(element, rules)

parse_elements(elements, rules) ==
  LET result[n \in 0..Len(elements)] ==
        IF n = 0 THEN {<<>>}
        ELSE After(result[n - 1], parse_element(elements[n], rules))
  IN  result[Len(elements)]

(* A rule nobody defines is decoded to nothing.                            *)
decode_entry(entry, rules) ==
  CASE entry.type = "STRING" -> parse_elements(entry.elements, rules)
    [] entry.type = "STRING_ARRAY" ->
         UNION {parse_elements(entry.alternatives[i], rules) :
                  i \in DOMAIN entry.alternatives}
    [] entry.type = "BYTE_ARRAY" -> {entry.octets}
    [] entry.type = "FUNCTION" ->
         IF entry.generator = "shortstring"
         THEN shortstring_generator(rules["OCTET"])
         ELSE longstring_generator(rules["OCTET"])
    [] entry.type = "NULL" -> {<<>>}

(* What each rule is decoded to, by how deep rules are nested in it.       *)
Decodings(environment) ==
  LET decode[depth \in 0..Deepest] ==
        IF depth = 0 THEN [rule \in STRING |-> {}]
        ELSE [rule \in STRING |->
                decode_entry(environment_lookup(environment, rule),
                             decode[depth - 1])]
  IN  decode

decode_rule(rule, environment) == Decodings(environment)[Deepest][rule]

-----------------------------------------------------------------------------
(* What the code relies on and does not check.                             *)

(* A range is of as many octets as an int takes with its sign clear, and   *)
(* its bounds are in order.                                                *)
BoundsInOrder(low, high) ==
  /\ \E n \in 1..3 : low \in [1..n -> Octet]
  /\ \E n \in 1..3 : high \in [1..n -> Octet]
  /\ Number(low) <= Number(high)

(* A range that is decoded to one octet.                                   *)
OneOctet(of) ==
  /\ of.kind = "range"
  /\ of.low \in [1..1 -> Octet] /\ of.high \in [1..1 -> Octet]
  /\ of.low[1] < of.high[1] /\ of.high[1] > 1

(* An element that is decoded to octets, whatever rand() draws.            *)
Decodable(element) ==
  \/ element.kind = "rule" /\ element.name \in STRING
  \/ element.kind = "symbol" /\ element.octets \in Seq(Octet)
  \/ /\ element.kind = "range" /\ BoundsInOrder(element.low, element.high)
     /\ Number(element.low) # Number(element.high)
  \/ element.kind = "quoted" /\ element.chars \in Seq(Octet)
  \/ /\ element.kind = "repeat" /\ {element.min, element.max} \subseteq Nat
     /\ element.min # element.max + 1
     /\ element.of.kind = "rule" /\ element.of.name \in STRING
  \/ element.kind = "optional"

DecodableElements(elements) ==
  Len(elements) \in Nat /\ \A i \in 1..Len(elements) : Decodable(elements[i])

DecodableEntry(entry) ==
  \/ entry.type = "STRING" /\ DecodableElements(entry.elements)
  \/ /\ entry.type = "STRING_ARRAY"
     /\ \A i \in DOMAIN entry.alternatives :
          DecodableElements(entry.alternatives[i])
  \/ entry.type = "BYTE_ARRAY" /\ entry.octets \in Seq(Octet)
  \/ entry.type = "FUNCTION"
  \/ entry = UNDEFINED
===============================================================================

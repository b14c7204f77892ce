-------------------------------- MODULE Decoding -------------------------------
(***************************************************************************)
(* One call of parse_element, and what its result has to do with the ABNF  *)
(* it was given.                                                           *)
(***************************************************************************)
EXTENDS PacketGenerator

CONSTANTS
  Elements,     \* what is decoded
  environment   \* and where its rules are looked up

(* What the code relies on and does not check.                             *)
ASSUME ElementsAssumption ==
  \A e \in Elements :
    \/ e.kind = "range" /\ BoundsInOrder(e.low, e.high)
    \/ e.kind = "repeat" /\ {e.min, e.max} \subseteq Nat /\ OneOctet(e.of)
    \/ e.kind = "quoted" /\ \A i \in DOMAIN e.chars : e.chars[i] \in Octet
    \/ e.kind = "optional"
    \/ e \in {Rule("short-string"), Rule("long-string")}
    \/ /\ e.kind = "rule" /\ e.name \in STRING
       /\ environment_lookup(environment, e.name) = UNDEFINED

(* The rules that setup_connection_env overwrites, without rule chaos; a   *)
(* length that is an int; and that these names are strings, which TLC      *)
(* knows and the provers do not.                                           *)
ASSUME StringsAssumption ==
  /\ {"OCTET", "short-string", "long-string"} \subseteq STRING
  /\ environment_lookup(environment, "OCTET")
       = new_string_grammar_entry(<<Between(<<0>>, <<Octets - 1>>)>>)
  /\ environment_lookup(environment, "short-string")
       = new_function_grammar_entry("shortstring")
  /\ environment_lookup(environment, "long-string")
       = new_function_grammar_entry("longstring")
  /\ RULE_REPETITION_INFTY \div Weight[4] < Octets
  /\ Deepest >= 2

-----------------------------------------------------------------------------
VARIABLES element, done, decoded

decodingVars == <<element, done, decoded>>

DecodingInit == element \in Elements /\ done = FALSE /\ decoded = <<>>

DecodeElement ==
  /\ ~done
  /\ decoded' \in parse_element(element, Decodings(environment)[Deepest])
  /\ done' = TRUE
  /\ UNCHANGED element

DecodingNext == DecodeElement \/ (done /\ UNCHANGED decodingVars)

DecodingSpec == DecodingInit /\ [][DecodingNext]_decodingVars

-----------------------------------------------------------------------------
Decoded(kind) == done /\ element.kind = kind /\ decoded # SIGFPE

(* packet-generator.c 85-149 and 255-260: a range is decoded to one of its *)
(* values, in as many octets as its upper bound is long, unless that       *)
(* begins with an octet of 0 or 1.  Never to the upper bound itself:       *)
(* grammar-abnf's OCTET = %x00-FF yields no FF.  An element is repeated at *)
(* least and at most as often as is asked for.                             *)
BoundsAreKept ==
  /\ Decoded("range") /\ Head(element.high) > 1 =>
       /\ Len(decoded) = Len(element.high)
       /\ Number(decoded) \in Number(element.low)..(Number(element.high) - 1)
  /\ Decoded("repeat") /\ element.min <= element.max =>
       Len(decoded) \in element.min..element.max

(* packet-generator.c 131 and 255: a modulus of zero takes a range of one  *)
(* value, or a lower bound of the repetition that is one above the upper:  *)
(* `17*' with the default for *.                                           *)
CrashOnlyOnEmptyDraw ==
  done /\ decoded = SIGFPE =>
    \/ element.kind = "range" /\ Number(element.low) = Number(element.high)
    \/ element.kind = "repeat" /\ element.min = element.max + 1

(* Connection.c 19-44: the strings of AMQP begin with their true length.   *)
StringsTellTheirLength ==
  /\ done /\ element = Rule("short-string") => decoded[1] = Len(decoded) - 1
  /\ done /\ element = Rule("long-string") =>
       Unsigned32(decoded[1], decoded[2], decoded[3], decoded[4])
         = Len(decoded) - 4
===============================================================================

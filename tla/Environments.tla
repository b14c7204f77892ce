------------------------------ MODULE Environments -----------------------------
(***************************************************************************)
(* Grammars and environments (grammar/grammar-parser.c).  An element of a  *)
(* rule is a record instead of its ABNF text, a grammar a function from    *)
(* rule names to entries, and an environment the sequence of the grammars  *)
(* that are searched, the innermost first.                                 *)
(***************************************************************************)
EXTENDS Integers, Sequences

CONSTANT RULE_REPETITION_INFTY  \* how often `*' repeats at most: 16

ASSUME RepetitionAssumption == RULE_REPETITION_INFTY \in Nat \ {0}

(* The elements that parse_element tells apart.                            *)
Rule(name)           == [kind |-> "rule", name |-> name]
Symbol(octets)       == [kind |-> "symbol", octets |-> octets]  \* %x00.0B
Between(low, high)   == [kind |-> "range", low |-> low, high |-> high]
Quoted(chars)        == [kind |-> "quoted", chars |-> chars]
Repeat(min, max, of) ==
  [kind |-> "repeat", min |-> min, max |-> max, of |-> of]
Optional             == [kind |-> "optional"]

(* The entries of a grammar.                                               *)
new_string_grammar_entry(elements) ==
  [type |-> "STRING", elements |-> elements]
new_str_array_grammar_entry(alternatives) ==
  [type |-> "STRING_ARRAY", alternatives |-> alternatives]
new_byte_array_grammar_entry(octets) ==
  [type |-> "BYTE_ARRAY", octets |-> octets]
new_function_grammar_entry(generator) ==
  [type |-> "FUNCTION", generator |-> generator]
UNDEFINED == [type |-> "NULL"]

-----------------------------------------------------------------------------
(* The innermost grammar with an entry decides; an entry may be NULL.      *)
environment_lookup(environment, rule) ==
  LET found     == {i \in DOMAIN environment :
                      /\ rule \in DOMAIN environment[i]
                      /\ environment[i][rule] # UNDEFINED}
      innermost == CHOOSE i \in found : \A j \in found : i <= j
  IN  IF found = {} THEN UNDEFINED ELSE environment[innermost][rule]

grammar_insert(grammar, rule, entry) ==
  [name \in DOMAIN grammar \cup {rule} |->
     IF name = rule THEN entry ELSE grammar[name]]

-----------------------------------------------------------------------------
(* The rules that decode_rule goes on to when it decodes an entry.  A      *)
(* repetition is one of a rule, and the generators take their octets from  *)
(* OCTET.                                                                  *)
Named(element) ==
  IF element.kind = "rule" THEN {element.name}
  ELSE IF element.kind = "repeat" THEN {element.of.name}
  ELSE {}

CallsOf(elements) == UNION {Named(elements[i]) : i \in DOMAIN elements}

Calls(entry) ==
  IF entry.type = "STRING" THEN CallsOf(entry.elements)
  ELSE IF entry.type = "STRING_ARRAY"
  THEN UNION {CallsOf(entry.alternatives[i]) :
                i \in DOMAIN entry.alternatives}
  ELSE IF entry.type = "FUNCTION" THEN {"OCTET"}
  ELSE {}
===============================================================================

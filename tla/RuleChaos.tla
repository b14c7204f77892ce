------------------------------- MODULE RuleChaos -------------------------------
(***************************************************************************)
(* How a packet is written: a constructor overwrites rules in a grammar in *)
(* front of those read from abnf/, some of them with the lengths of others *)
(* (Grammar_Interface.c), and decodes `method'.  RULE_CHAOS decides how    *)
(* often a rule stays as it was.  The grammars and the constructors are    *)
(* parameters.                                                             *)
(***************************************************************************)
EXTENDS PacketGenerator, FiniteSets

CONSTANTS
  Levels,           \* of RULE_CHAOS
  ConnectionRules,  \* the grammar of abnf/grammar-connection,
  ProtocolRules,    \* and the one of the other files
  Program,          \* the statements of each constructor
  Methods,          \* the constructors that are called, of DOMAIN Program
  Layers            \* of rules: each rule leads to lower layers only

VARIABLES
  RULE_CHAOS,
  connection_grammar,
  method,           \* the constructor
  statement,        \* how many of its statements are done
  mutable_grammar,
  packet            \* what decode_rule("method") returned

chaosVars ==
  <<RULE_CHAOS, connection_grammar, method, statement, mutable_grammar, packet>>

-----------------------------------------------------------------------------
(* Grammar_Interface.c                                                     *)

Chaos(rule) == "fuzzer-chaos-" \o rule
Order(rule) == "fuzzer-order-" \o rule

(* A version that keeps one raw alternative too few.                       *)
Alternatives_TooFew(rule, level) ==
  IF level = 2 THEN <<Order(rule), Chaos(rule)>>
  ELSE [i \in 1..4 |-> IF i < level THEN Chaos(rule) ELSE Order(rule)]

(* The names among which select_alternative_rule chooses.                  *)
Alternatives(rule, level) ==
  IF level = 2 THEN <<Order(rule), Chaos(rule)>>
  ELSE [i \in 1..4 |-> IF i <= level THEN Chaos(rule) ELSE Order(rule)]

Choice(names) ==
  new_str_array_grammar_entry([i \in DOMAIN names |-> <<Rule(names[i])>>])

(* The rule's name stands for the choice between what it stood for before  *)
(* and what it is overwritten with.                                        *)
Branch(level, grammar, rule, raw, ordered_rule) ==
  grammar_insert(
    grammar_insert(
      grammar_insert(grammar, Chaos(rule), raw), Order(rule), ordered_rule),
    rule, Choice(Alternatives(rule, level)))

(* A version that looks the raw rule up when it is overwritten already.    *)
overwrite_rule_with_chaos_LateLookup(level, grammar, env, rule, ordered_rule) ==
  IF level = 0 THEN grammar_insert(grammar, rule, ordered_rule)
  ELSE IF level = 4 THEN grammar
  ELSE LET late == <<Branch(level, grammar, rule, UNDEFINED, ordered_rule)>>
       IN  Branch(level, grammar, rule, environment_lookup(late \o env, rule),
                  ordered_rule)

(* The raw rule is looked up before its name stands for the choice.        *)
overwrite_rule_with_chaos(level, grammar, env, rule, ordered_rule) ==
  IF level = 0 THEN grammar_insert(grammar, rule, ordered_rule)
  ELSE IF level = 4 THEN grammar
  ELSE Branch(level, grammar, rule, environment_lookup(env, rule),
              ordered_rule)

(* A version that counts the octets of the length too.                     *)
SizeOctets_Own(size) == InOctets(size + 4, 4)

SizeOctets(size) == InOctets(size, 4)

-----------------------------------------------------------------------------
(* Connection.c                                                            *)

(* At the start of the battery.                                            *)
setup_connection_env(level) ==
  overwrite_rule_with_chaos(
    level,
    overwrite_rule_with_chaos(level, ConnectionRules, <<ProtocolRules>>,
      "short-string", new_function_grammar_entry("shortstring")),
    <<ProtocolRules>>,
    "long-string", new_function_grammar_entry("longstring"))

new_environment(grammar) == <<grammar, connection_grammar, ProtocolRules>>

result_env == new_environment(mutable_grammar)

overwrite(grammar, rule, ordered_rule) ==
  overwrite_rule_with_chaos(RULE_CHAOS, grammar, new_environment(grammar),
                            rule, ordered_rule)

(* The rule keeps what it was decoded to, and the length is of that.       *)
overwrite_rule_set_length(grammar, rule, length_rule, decoded) ==
  overwrite(
    overwrite(grammar, rule, new_byte_array_grammar_entry(decoded)),
    length_rule, new_byte_array_grammar_entry(SizeOctets(Len(decoded))))

-----------------------------------------------------------------------------
(* What the code relies on: the names it makes up are no rules; no rule is *)
(* overwritten twice for the same packet; and no rule, raw or ordered,     *)
(* leads back to itself.                                                   *)

Targets(s) == {s.rule} \cup IF s.set = "length" THEN {s.length_rule} ELSE {}

SetUp == {"short-string", "long-string"}

Known == UNION {Layers[i] : i \in DOMAIN Layers}

Below(other, rule) ==
  \E i, j \in DOMAIN Layers : i < j /\ other \in Layers[i] /\ rule \in Layers[j]

RuleNames ==
  DOMAIN ConnectionRules \cup DOMAIN ProtocolRules \cup SetUp
    \cup UNION {UNION {Targets(Program[m][i]) : i \in 1..Len(Program[m])} :
                  m \in Methods}

(* The entry of a rule leads to lower rules only.                          *)
WellBelow(rule, entry) ==
  \A other \in Calls(entry) : Below(other, rule)

Harmless(s) ==
  /\ \/ /\ s.set = "rule" /\ s.entry.type \in {"STRING", "BYTE_ARRAY"}
        /\ WellBelow(s.rule, s.entry)
     \/ s.set = "length" /\ s.length_rule # s.rule
  /\ Targets(s) \cap SetUp = {}

ASSUME NamesAssumption ==
  /\ DOMAIN Layers \subseteq Nat
  /\ \A i, j \in DOMAIN Layers : i # j => Layers[i] \cap Layers[j] = {}
  /\ RuleNames \subseteq Known \cap STRING
  /\ \A r \in RuleNames :
       /\ {Chaos(r), Order(r)} \cap Known = {}
       /\ \A s \in RuleNames :
            /\ Chaos(r) # Order(s)
            /\ r # s => Chaos(r) # Chaos(s) /\ Order(r) # Order(s)

ASSUME GrammarsAssumption ==
  /\ \A r \in DOMAIN ConnectionRules : WellBelow(r, ConnectionRules[r])
  /\ \A r \in DOMAIN ProtocolRules : WellBelow(r, ProtocolRules[r])
  /\ \A r \in SetUp : Below("OCTET", r)

ASSUME ConstructorsAssumption ==
  /\ Levels \subseteq 0..4
  /\ \A m \in Methods :
       /\ Len(Program[m]) \in Nat
       /\ \A i \in 1..Len(Program[m]) :
            /\ Harmless(Program[m][i])
            /\ \A j \in 1..Len(Program[m]) :
                 i # j => Targets(Program[m][i]) \cap Targets(Program[m][j]) = {}

(* Every entry is decoded to octets.                                       *)
ASSUME EntriesAssumption ==
  /\ \A r \in DOMAIN ConnectionRules : DecodableEntry(ConnectionRules[r])
  /\ \A r \in DOMAIN ProtocolRules : DecodableEntry(ProtocolRules[r])
  /\ \A m \in Methods : \A i \in 1..Len(Program[m]) :
       Program[m][i].set = "rule" => DecodableEntry(Program[m][i].entry)

(* A rule that is decoded as it was read: no constructor overwrites it.    *)
Read(rule, elements) ==
  environment_lookup(<<ConnectionRules, ProtocolRules>>, rule)
    = new_string_grammar_entry(elements)

Plain(rule, elements) ==
  /\ rule \in STRING \ SetUp /\ Read(rule, elements)
  /\ \A m \in Methods : \A i \in 1..Len(Program[m]) :
       rule \notin Targets(Program[m][i])

SetsLength(rule, length_rule) ==
  [set |-> "length", rule |-> rule, length_rule |-> length_rule]

(* The frame of a packet, whose size every constructor sets last.          *)
ASSUME FrameAssumption ==
  /\ Deepest >= 6
  /\ Plain("OCTET", <<Between(<<0>>, <<Octets - 1>>)>>)
  /\ Plain("method", <<Rule("method-frame")>>)
  /\ Plain("method-frame", <<Symbol(<<1>>), Rule("frame-properties"),
                             Rule("method-payload"), Rule("frame-end")>>)
  /\ Plain("frame-properties", <<Rule("channel"), Rule("payload-size")>>)
  /\ Plain("channel", <<Symbol(<<0, 0>>)>>)
  /\ Plain("frame-end", <<Symbol(<<206>>)>>)
  /\ {"method-payload", "payload-size"} \subseteq STRING
  /\ \A m \in Methods :
       /\ Len(Program[m]) > 0
       /\ Program[m][Len(Program[m])]
            = SetsLength("method-payload", "payload-size")

(* The payload of START-OK, and the lengths that are set before.           *)
ASSUME StartOkAssumption ==
  /\ Read("method-payload", <<Rule("class-id"), Rule("method-id"),
                              Rule("method-properties")>>)
  /\ Plain("class-id", <<Symbol(<<0, 10>>)>>)
  /\ Plain("m11-method-id", <<Symbol(<<0, 11>>)>>)
  /\ Plain("m11-method-properties",
           <<Rule("client-properties"), Rule("mechanism"), Rule("response"),
             Rule("locale")>>)
  /\ Plain("client-properties", <<Rule("client-properties-length"),
                                  Rule("client-properties-payload")>>)
  /\ Plain("mechanism", <<Symbol(<<5>>), Symbol(<<80, 76, 65, 73, 78>>)>>)
  /\ Plain("response", <<Rule("message-length"), Rule("message")>>)
  /\ Plain("locale", <<Symbol(<<5>>), Symbol(<<101, 110, 95, 85, 83>>)>>)
  /\ {"method-id", "method-properties", "client-properties-length",
      "client-properties-payload", "message-length", "message"}
       \subseteq STRING
  /\ "start_ok" \in Methods =>
       \A s \in {[set |-> "rule", rule |-> "method-id", entry |->
                   new_string_grammar_entry(<<Rule("m11-method-id")>>)],
                 [set |-> "rule", rule |-> "method-properties", entry |->
                   new_string_grammar_entry(<<Rule("m11-method-properties")>>)],
                 SetsLength("client-properties-payload",
                            "client-properties-length"),
                 SetsLength("message", "message-length")} :
         \E i \in 1..(Len(Program["start_ok"]) - 1) : Program["start_ok"][i] = s

-----------------------------------------------------------------------------
ChaosInit ==
  /\ RULE_CHAOS \in Levels
  /\ connection_grammar = setup_connection_env(RULE_CHAOS)
  /\ method \in Methods
  /\ statement = 0
  /\ mutable_grammar = <<>>
  /\ packet = <<>>

Current == Program[method][statement + 1]

OverwriteRule ==
  /\ statement < Len(Program[method]) /\ Current.set = "rule"
  /\ mutable_grammar' =
       overwrite(mutable_grammar, Current.rule, Current.entry)
  /\ statement' = statement + 1
  /\ UNCHANGED <<RULE_CHAOS, connection_grammar, method, packet>>

OverwriteLength ==
  /\ statement < Len(Program[method]) /\ Current.set = "length"
  /\ \E decoded \in decode_rule(Current.rule, result_env) :
       mutable_grammar' =
         overwrite_rule_set_length(mutable_grammar, Current.rule,
                                   Current.length_rule, decoded)
  /\ statement' = statement + 1
  /\ UNCHANGED <<RULE_CHAOS, connection_grammar, method, packet>>

DecodeMethod ==
  /\ statement = Len(Program[method]) /\ packet = <<>>
  /\ packet' \in decode_rule("method", result_env)
  /\ UNCHANGED <<RULE_CHAOS, connection_grammar, method, statement,
                 mutable_grammar>>

ChaosNext ==
  \/ OverwriteRule \/ OverwriteLength \/ DecodeMethod
  \/ packet # <<>> /\ UNCHANGED chaosVars

ChaosSpec == ChaosInit /\ [][ChaosNext]_chaosVars

-----------------------------------------------------------------------------
(* How a broker reads the packet                                           *)

Unsigned32At(i) ==
  Unsigned32(packet[i], packet[i + 1], packet[i + 2], packet[i + 3])

(* type, channel, size, payload and end of a method frame                  *)
FrameIsWhole == Len(packet) >= 8 /\ Len(packet) = Unsigned32At(4) + 8

(* class, method, a table, the mechanism "PLAIN", a long string and the    *)
(* locale "en_US", each of the two with its length before it               *)
StartOkIsWhole ==
  LET table    == Unsigned32At(12)
      response == Unsigned32At(22 + table)
  IN  /\ 25 + table <= Len(packet)
      /\ Len(packet) = 25 + table + response + 6 + 1

(* Without rule chaos every length in a packet is that of what follows it. *)
LengthsAreTrue ==
  packet # <<>> /\ RULE_CHAOS = 0 =>
    FrameIsWhole /\ (method = "start_ok" => StartOkIsWhole)

(* Whatever a rule stands for, at every point of every constructor, leads  *)
(* to lower rules only, by itself or through the two names made up for it: *)
(* decode_rule, which does not look for cycles, ends.                      *)
LeadsTo(rule) ==
  UNION {IF name \in {Chaos(rule), Order(rule)}
         THEN Calls(environment_lookup(result_env, name)) ELSE {name} :
           name \in Calls(environment_lookup(result_env, rule))}

NoCycle ==
  \A rule \in Known : \A other \in LeadsTo(rule) : Below(other, rule)

(* Every rule that is overwritten stays raw in RULE_CHAOS of four draws.   *)
RawInFour(rule) ==
  LET raw == {i \in DOMAIN mutable_grammar[rule].alternatives :
                mutable_grammar[rule].alternatives[i] = <<Rule(Chaos(rule))>>}
  IN  4 * Cardinality(raw)
        = RULE_CHAOS * Len(mutable_grammar[rule].alternatives)

Overwritten ==
  {Program[method][i].rule : i \in 1..statement}
    \cup {Program[method][i].length_rule :
            i \in {j \in 1..statement : Program[method][j].set = "length"}}

RawShare ==
  IF RULE_CHAOS = 4 THEN Overwritten \cap DOMAIN mutable_grammar = {}
  ELSE \A rule \in Overwritten :
         /\ rule \in DOMAIN mutable_grammar
         /\ RULE_CHAOS = 0 =>
              mutable_grammar[rule].type # "STRING_ARRAY"
         /\ RULE_CHAOS # 0 => RawInFour(rule)
===============================================================================

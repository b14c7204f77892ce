---------------------------- MODULE RuleChaosProofs ----------------------------
(***************************************************************************)
(* The rules of a packet, for any grammars, any constructors that satisfy  *)
(* the assumptions of RuleChaos and anything that a rule is decoded to:    *)
(* no rule leads back to itself, and every overwritten rule stays raw in   *)
(* RULE_CHAOS of four draws.  Without rule chaos the lengths in a packet   *)
(* are those of what follows them.                                         *)
(***************************************************************************)
EXTENDS RuleChaos, DecodingProofs, FiniteSetTheorems

-----------------------------------------------------------------------------
(* The inductive invariant                                                 *)

MadeUp(rule) == {Chaos(rule), Order(rule)}

(* A grammar in which only the rules of done stand for a choice.           *)
RulesFall(grammar, upto) ==
  \A name \in DOMAIN grammar \cap RuleNames :
    \/ WellBelow(name, grammar[name])
    \/ name \in upto /\ Calls(grammar[name]) \subseteq MadeUp(name)

NamesFall(grammar) ==
  \A name \in DOMAIN grammar \ RuleNames :
    \E rule \in RuleNames :
      name \in MadeUp(rule) /\ WellBelow(rule, grammar[name])

Falls(grammar, upto) == RulesFall(grammar, upto) /\ NamesFall(grammar)

(* What has been overwritten, exactly.                                     *)
IsOverwritten(grammar, rule) ==
  /\ rule \in DOMAIN grammar
  /\ RULE_CHAOS = 0 => grammar[rule].type # "STRING_ARRAY"
  /\ RULE_CHAOS # 0 => grammar[rule] = Choice(Alternatives(rule, RULE_CHAOS))

Shared(grammar, upto) ==
  IF RULE_CHAOS = 4 THEN DOMAIN grammar = {}
  ELSE \A rule \in upto : IsOverwritten(grammar, rule)

Running ==
  /\ RULE_CHAOS \in 0..4
  /\ method \in Methods
  /\ statement \in 0..Len(Program[method])

ChaosInv ==
  /\ Running
  /\ Falls(connection_grammar, SetUp)
  /\ Falls(mutable_grammar, Overwritten)
  /\ Shared(mutable_grammar, Overwritten)

-----------------------------------------------------------------------------
(* Environments and grammars                                               *)

(* What a lookup in one grammar, or in the three of a packet, finds is in  *)
(* one of them.                                                            *)
LEMMA LookupFinds ==
  ASSUME NEW env, DOMAIN env \subseteq 1..3, NEW name
  PROVE  LET value == environment_lookup(env, name)
         IN  \/ value = UNDEFINED
             \/ \E i \in DOMAIN env :
                  name \in DOMAIN env[i] /\ value = env[i][name]
<1> DEFINE found == {i \in DOMAIN env : /\ name \in DOMAIN env[i]
                                        /\ env[i][name] # UNDEFINED}
           least == CHOOSE i \in found : \A j \in found : i <= j
<1>1. CASE found = {}
  BY <1>1 DEF environment_lookup
<1>2. CASE found # {}
  <2>1. found \subseteq 1..3
    OBVIOUS
  <2>2. \E i \in found : \A j \in found : i <= j
    <3> HIDE DEF found
    <3>1. CASE 1 \in found
      BY <2>1, <3>1
    <3>2. CASE 1 \notin found /\ 2 \in found
      BY <2>1, <3>2
    <3>3. CASE 1 \notin found /\ 2 \notin found
      <4>1. \A i \in found : i = 3
        BY <2>1, <3>3
      <4> QED BY <1>2, <4>1
    <3> QED BY <3>1, <3>2, <3>3
  <2>3. least \in found
    BY <2>2
  <2>4. environment_lookup(env, name) = env[least][name]
    BY <1>2 DEF environment_lookup
  <2> QED BY <2>3, <2>4
<1> QED BY <1>1, <1>2

(* An entry that is not there leads nowhere.                               *)
LEMMA UndefinedFalls ==
  ASSUME NEW rule
  PROVE  Calls(UNDEFINED) = {} /\ WellBelow(rule, UNDEFINED)
BY DEF Calls, UNDEFINED, WellBelow

(* Nor do octets.                                                          *)
LEMMA OctetsFall ==
  ASSUME NEW rule, NEW octets
  PROVE  WellBelow(rule, new_byte_array_grammar_entry(octets))
BY DEF Calls, new_byte_array_grammar_entry, WellBelow

(* A choice leads to the two names made up for the rule.                   *)
LEMMA ChoiceCalls ==
  ASSUME NEW rule, NEW level
  PROVE  Calls(Choice(Alternatives(rule, level))) \subseteq MadeUp(rule)
<1> DEFINE names == Alternatives(rule, level)
           entry == Choice(names)
<1>1. \A i \in DOMAIN names : names[i] \in MadeUp(rule)
  <2>1. CASE level = 2
    BY <2>1 DEF Alternatives, MadeUp
  <2>2. CASE level # 2
    BY <2>2 DEF Alternatives, MadeUp
  <2> QED BY <2>1, <2>2
<1> HIDE DEF names
<1>2. /\ entry.type = "STRING_ARRAY"
      /\ entry.alternatives = [i \in DOMAIN names |-> <<Rule(names[i])>>]
  BY DEF Choice, new_str_array_grammar_entry
<1>3. \A i \in DOMAIN names : CallsOf(<<Rule(names[i])>>) = {names[i]}
  <2> TAKE i \in DOMAIN names
  <2>1. Named(Rule(names[i])) = {names[i]}
    BY DEF Named, Rule
  <2>2. DOMAIN <<Rule(names[i])>> = {1}
    OBVIOUS
  <2> HIDE DEF names
  <2> QED BY <2>1, <2>2 DEF CallsOf
<1>4. Calls(entry) = UNION {CallsOf(<<Rule(names[i])>>) : i \in DOMAIN names}
  <2> HIDE DEF entry
  <2>1. Calls(entry) = UNION {CallsOf(entry.alternatives[i]) :
                                i \in DOMAIN entry.alternatives}
    BY <1>2 DEF Calls
  <2>2. /\ DOMAIN entry.alternatives = DOMAIN names
        /\ \A i \in DOMAIN names :
             entry.alternatives[i] = <<Rule(names[i])>>
    BY <1>2
  <2>3. {CallsOf(entry.alternatives[i]) : i \in DOMAIN entry.alternatives}
          = {CallsOf(<<Rule(names[i])>>) : i \in DOMAIN names}
    BY <2>2
  <2> QED BY <2>1, <2>3
<1> HIDE DEF entry
<1>5. \A called \in Calls(entry) : called \in MadeUp(rule)
  <2> TAKE called \in Calls(entry)
  <2>1. PICK i \in DOMAIN names : called \in CallsOf(<<Rule(names[i])>>)
    BY <1>4
  <2>2. called = names[i]
    BY <1>3, <2>1
  <2> QED BY <1>1, <2>2
<1> QED BY <1>5 DEF names, entry

(* The made-up names of a rule are no rules, and of no other rule.         *)
LEMMA NamesApart ==
  ASSUME NEW r \in RuleNames, NEW s \in RuleNames
  PROVE  /\ MadeUp(r) \cap Known = {}
         /\ s \notin MadeUp(r)
         /\ Chaos(r) # Order(r)
         /\ MadeUp(r) \cap MadeUp(s) # {} => r = s
BY NamesAssumption DEF MadeUp

-----------------------------------------------------------------------------
(* Overwriting a rule                                                      *)

(* What the entries are afterwards.                                        *)
IsBranch(new, level, grammar, rule, raw, ordered) ==
  /\ DOMAIN new = DOMAIN grammar \cup {rule} \cup MadeUp(rule)
  /\ new[rule] = Choice(Alternatives(rule, level))
  /\ new[Chaos(rule)] = raw
  /\ new[Order(rule)] = ordered
  /\ \A name \in DOMAIN grammar \ ({rule} \cup MadeUp(rule)) :
       new[name] = grammar[name]

LEMMA BranchEntries ==
  ASSUME NEW level, NEW grammar, NEW rule \in RuleNames, NEW raw, NEW ordered
  PROVE  IsBranch(Branch(level, grammar, rule, raw, ordered),
                  level, grammar, rule, raw, ordered)
<1>1. rule # Chaos(rule) /\ rule # Order(rule) /\ Chaos(rule) # Order(rule)
  BY NamesApart DEF MadeUp
<1> QED BY <1>1 DEF Branch, grammar_insert, MadeUp, IsBranch

(* If the raw rule leads to lower rules only, and so does the ordered one, *)
(* then only this rule stands for a choice that was none before.           *)
LEMMA OverwritingFalls ==
  ASSUME NEW level, NEW grammar, NEW env, NEW upto,
         NEW rule \in RuleNames, NEW ordered,
         Falls(grammar, upto), WellBelow(rule, ordered),
         WellBelow(rule, environment_lookup(env, rule))
  PROVE  Falls(overwrite_rule_with_chaos(level, grammar, env, rule, ordered),
               upto \cup {rule})
<1> DEFINE raw == environment_lookup(env, rule)
           new == overwrite_rule_with_chaos(level, grammar, env, rule, ordered)
<1>1. CASE level = 0
  <2>1. new = grammar_insert(grammar, rule, ordered)
    BY <1>1 DEF overwrite_rule_with_chaos
  <2>2. /\ DOMAIN new = DOMAIN grammar \cup {rule}
        /\ new[rule] = ordered
        /\ \A name \in DOMAIN grammar \ {rule} : new[name] = grammar[name]
    BY <2>1 DEF grammar_insert
  <2> HIDE DEF new
  <2>3. Falls(new, upto \cup {rule})
    BY <2>2 DEF Falls, RulesFall, NamesFall
  <2> QED BY <2>3 DEF new
<1>2. CASE level = 4
  <2>1. new = grammar
    BY <1>2 DEF overwrite_rule_with_chaos
  <2> QED BY <2>1 DEF Falls, RulesFall, NamesFall
<1>3. CASE level # 0 /\ level # 4
  <2>1. new = Branch(level, grammar, rule, raw, ordered)
    BY <1>3 DEF overwrite_rule_with_chaos
  <2>2. WellBelow(rule, raw)
    OBVIOUS
  <2> HIDE DEF new, raw
  <2>3. IsBranch(new, level, grammar, rule, raw, ordered)
    BY <2>1, BranchEntries
  <2>4. /\ DOMAIN new = DOMAIN grammar \cup {rule} \cup MadeUp(rule)
        /\ new[rule] = Choice(Alternatives(rule, level))
        /\ new[Chaos(rule)] = raw
        /\ new[Order(rule)] = ordered
        /\ \A name \in DOMAIN grammar \ ({rule} \cup MadeUp(rule)) :
             new[name] = grammar[name]
    BY <2>3 DEF IsBranch
  <2>5. Calls(new[rule]) \subseteq MadeUp(rule)
    BY <2>4, ChoiceCalls
  <2>6. \A name \in MadeUp(rule) :
          name \notin RuleNames /\ WellBelow(rule, new[name])
    BY <2>4, <2>2, NamesApart DEF MadeUp
  <2>7. RulesFall(new, upto \cup {rule})
    BY <2>4, <2>5, <2>6 DEF Falls, RulesFall
  <2>8. NamesFall(new)
    BY <2>4, <2>6 DEF Falls, NamesFall
  <2> QED BY <2>7, <2>8 DEF Falls, new
<1> QED BY <1>1, <1>2, <1>3

(* A rule that is not overwritten yet is found as it was read.             *)
LEMMA RawFalls ==
  ASSUME NEW grammar, NEW upto, NEW rule \in RuleNames \ (upto \cup SetUp),
         Falls(grammar, upto), Falls(connection_grammar, SetUp)
  PROVE  WellBelow(rule, environment_lookup(new_environment(grammar), rule))
<1> DEFINE env == new_environment(grammar)
<1>1. /\ DOMAIN env = 1..3
      /\ env[1] = grammar /\ env[2] = connection_grammar
      /\ env[3] = ProtocolRules
  BY DEF new_environment
<1>2. \A i \in 1..3 : rule \in DOMAIN env[i] => WellBelow(rule, env[i][rule])
  BY <1>1, GrammarsAssumption DEF Falls, RulesFall
<1> HIDE DEF env
<1>3. \/ environment_lookup(env, rule) = UNDEFINED
      \/ \E i \in 1..3 : /\ rule \in DOMAIN env[i]
                         /\ environment_lookup(env, rule) = env[i][rule]
  BY <1>1, LookupFinds
<1>4. WellBelow(rule, environment_lookup(env, rule))
  BY <1>2, <1>3, UndefinedFalls
<1> QED BY <1>4 DEF env

LEMMA OverwriteFalls ==
  ASSUME NEW grammar, NEW upto, NEW rule \in RuleNames \ (upto \cup SetUp),
         NEW ordered, WellBelow(rule, ordered),
         Falls(grammar, upto), Falls(connection_grammar, SetUp)
  PROVE  Falls(overwrite(grammar, rule, ordered), upto \cup {rule})
BY RawFalls, OverwritingFalls DEF overwrite

(* The shares of the rules overwritten before are left alone.              *)
LEMMA OverwriteShares ==
  ASSUME NEW grammar, NEW upto \in SUBSET RuleNames,
         NEW rule \in RuleNames \ upto,
         NEW ordered, ordered.type # "STRING_ARRAY", Shared(grammar, upto)
  PROVE  Shared(overwrite(grammar, rule, ordered), upto \cup {rule})
<1> DEFINE env == new_environment(grammar)
           raw == environment_lookup(env, rule)
           new == overwrite(grammar, rule, ordered)
<1>1. CASE RULE_CHAOS = 4
  BY <1>1 DEF Shared, overwrite, overwrite_rule_with_chaos
<1>2. CASE RULE_CHAOS # 4
  <2>1. /\ rule \in DOMAIN new
        /\ RULE_CHAOS = 0 => new[rule] = ordered
        /\ RULE_CHAOS # 0 => new[rule] = Choice(Alternatives(rule, RULE_CHAOS))
        /\ \A name \in DOMAIN grammar \ ({rule} \cup MadeUp(rule)) :
             name \in DOMAIN new /\ new[name] = grammar[name]
    <3>1. CASE RULE_CHAOS = 0
      BY <3>1 DEF overwrite, overwrite_rule_with_chaos, grammar_insert
    <3>2. CASE RULE_CHAOS # 0
      <4>1. new = Branch(RULE_CHAOS, grammar, rule, raw, ordered)
        BY <1>2, <3>2 DEF overwrite, overwrite_rule_with_chaos
      <4> HIDE DEF new, raw
      <4>2. IsBranch(new, RULE_CHAOS, grammar, rule, raw, ordered)
        BY <4>1, BranchEntries
      <4> QED BY <3>2, <4>2 DEF IsBranch
    <3> QED BY <3>1, <3>2
  <2>2. upto \cap ({rule} \cup MadeUp(rule)) = {}
    BY NamesApart
  <2> HIDE DEF new
  <2>3. IsOverwritten(new, rule)
    BY <2>1 DEF IsOverwritten
  <2>4. \A other \in upto : IsOverwritten(new, other)
    BY <1>2, <2>1, <2>2 DEF Shared, IsOverwritten
  <2> QED BY <1>2, <2>3, <2>4 DEF Shared, new
<1> QED BY <1>1, <1>2

-----------------------------------------------------------------------------
(* The steps                                                               *)

(* The statements of a constructor overwrite rules of their own.           *)
LEMMA StatementTargets ==
  ASSUME NEW m \in Methods, NEW i \in 1..Len(Program[m])
  PROVE  /\ Len(Program[m]) \in Nat
         /\ Harmless(Program[m][i])
         /\ Targets(Program[m][i]) \subseteq RuleNames \ SetUp
         /\ \A j \in 1..Len(Program[m]) :
              i # j => Targets(Program[m][i]) \cap Targets(Program[m][j]) = {}
<1>1. /\ Len(Program[m]) \in Nat
      /\ Harmless(Program[m][i])
      /\ \A j \in 1..Len(Program[m]) :
           i # j => Targets(Program[m][i]) \cap Targets(Program[m][j]) = {}
  BY ConstructorsAssumption
<1>2. Targets(Program[m][i]) \subseteq RuleNames
  BY DEF RuleNames
<1> QED BY <1>1, <1>2 DEF Harmless

(* The rules that the first n statements name.                             *)
NamedBy(m, n) ==
  {Program[m][i].rule : i \in 1..n}
    \cup {Program[m][i].length_rule :
            i \in {j \in 1..n : Program[m][j].set = "length"}}

LEMMA NamedAreTargets ==
  ASSUME NEW m \in Methods, NEW n \in 0..Len(Program[m])
  PROVE  NamedBy(m, n) = UNION {Targets(Program[m][i]) : i \in 1..n}
<1>1. \A i \in 1..n : Program[m][i].set \in {"rule", "length"}
  BY StatementTargets, ConstructorsAssumption DEF Harmless
<1> QED BY <1>1 DEF NamedBy, Targets

LEMMA OverwrittenAreRules ==
  ASSUME Running
  PROVE  Overwritten \subseteq RuleNames
<1>1. Overwritten = NamedBy(method, statement)
  BY DEF Overwritten, NamedBy
<1>2. /\ method \in Methods /\ statement \in 0..Len(Program[method])
      /\ Len(Program[method]) \in Nat
  BY ConstructorsAssumption DEF Running
<1>3. NamedBy(method, statement)
        = UNION {Targets(Program[method][i]) : i \in 1..statement}
  BY <1>2, NamedAreTargets
<1>4. \A i \in 1..statement : Targets(Program[method][i]) \subseteq RuleNames
  BY <1>2, StatementTargets
<1> QED BY <1>1, <1>3, <1>4

(* A statement that is due adds its rules, which are new, to those.        *)
LEMMA StatementAdds ==
  ASSUME Running, statement < Len(Program[method]),
         statement' = statement + 1, UNCHANGED <<RULE_CHAOS, method>>
  PROVE  /\ Running'
         /\ Harmless(Current)
         /\ Targets(Current) \subseteq RuleNames \ (Overwritten \cup SetUp)
         /\ Overwritten \subseteq RuleNames
         /\ Overwritten' = Overwritten \cup Targets(Current)
<1>1. /\ Len(Program[method]) \in Nat /\ statement \in Nat
      /\ statement + 1 \in 1..Len(Program[method])
  BY ConstructorsAssumption DEF Running
<1>2. Running'
  BY <1>1 DEF Running
<1>3. /\ Overwritten = UNION {Targets(Program[method][i]) : i \in 1..statement}
      /\ Overwritten' =
           UNION {Targets(Program[method][i]) : i \in 1..(statement + 1)}
  <2>1. Overwritten = NamedBy(method, statement)
    BY DEF Overwritten, NamedBy
  <2>2. Overwritten' = NamedBy(method, statement + 1)
    BY DEF Overwritten, NamedBy
  <2>3. /\ method \in Methods
        /\ {statement, statement + 1} \subseteq 0..Len(Program[method])
    BY <1>1 DEF Running
  <2> QED BY <2>1, <2>2, <2>3, NamedAreTargets
<1>4. 1..(statement + 1) = 1..statement \cup {statement + 1}
  BY <1>1
<1>5. Overwritten' = Overwritten \cup Targets(Current)
  BY <1>3, <1>4 DEF Current
<1>6. /\ Harmless(Current)
      /\ Targets(Current) \subseteq RuleNames \ SetUp
  BY <1>1, StatementTargets DEF Running, Current
<1>7. \A i \in 1..statement :
        Targets(Current) \cap Targets(Program[method][i]) = {}
  <2> TAKE i \in 1..statement
  <2>1. i \in 1..Len(Program[method]) /\ statement + 1 # i
    BY <1>1
  <2> QED BY <1>1, <2>1, StatementTargets DEF Running, Current
<1>8. Overwritten \subseteq RuleNames
  BY OverwrittenAreRules
<1> QED BY <1>2, <1>3, <1>5, <1>6, <1>7, <1>8

(* The grammar of the connection is read, and two rules of it overwritten, *)
(* before any constructor is called.                                       *)
LEMMA SetUpFalls ==
  ASSUME NEW level
  PROVE  Falls(setup_connection_env(level), SetUp)
<1> DEFINE short == new_function_grammar_entry("shortstring")
           long == new_function_grammar_entry("longstring")
           env == <<ProtocolRules>>
           first == overwrite_rule_with_chaos(level, ConnectionRules, env,
                                              "short-string", short)
<1>1. SetUp \subseteq RuleNames /\ SetUp = {"short-string", "long-string"}
  BY DEF RuleNames, SetUp
<1>2. \A rule \in SetUp : /\ WellBelow(rule, short)
                          /\ WellBelow(rule, long)
  BY GrammarsAssumption DEF WellBelow, Calls, new_function_grammar_entry
<1>3. \A rule \in SetUp : WellBelow(rule, environment_lookup(env, rule))
  <2> TAKE rule \in SetUp
  <2>1. DOMAIN env = {1} /\ env[1] = ProtocolRules
    OBVIOUS
  <2> HIDE DEF env
  <2>2. \/ environment_lookup(env, rule) = UNDEFINED
        \/ \E i \in {1} : /\ rule \in DOMAIN env[i]
                          /\ environment_lookup(env, rule) = env[i][rule]
    BY <2>1, LookupFinds
  <2> QED BY <2>1, <2>2, UndefinedFalls, GrammarsAssumption
<1>4. Falls(ConnectionRules, {})
  BY GrammarsAssumption DEF Falls, RulesFall, NamesFall, RuleNames
<1> HIDE DEF short, long, env
<1>5. Falls(first, {"short-string"})
  <2>1. Falls(first, {} \cup {"short-string"})
    BY <1>1, <1>2, <1>3, <1>4, OverwritingFalls
  <2> QED BY <2>1
<1> HIDE DEF first
<1>6. Falls(overwrite_rule_with_chaos(level, first, env, "long-string", long),
            {"short-string"} \cup {"long-string"})
  BY <1>1, <1>2, <1>3, <1>5, OverwritingFalls
<1> QED BY <1>1, <1>6 DEF setup_connection_env, first, env, short, long

LEMMA ChaosInitInv == ChaosInit => ChaosInv
<1> SUFFICES ASSUME ChaosInit PROVE ChaosInv
  OBVIOUS
<1> USE DEF ChaosInit
<1>1. Running
  BY ConstructorsAssumption DEF Running
<1>2. Falls(connection_grammar, SetUp)
  BY SetUpFalls
<1>3. Overwritten = {}
  BY DEF Overwritten
<1>4. DOMAIN mutable_grammar = {}
  OBVIOUS
<1>5. Falls(mutable_grammar, Overwritten)
  BY <1>4 DEF Falls, RulesFall, NamesFall
<1> QED BY <1>1, <1>2, <1>3, <1>4, <1>5 DEF ChaosInv, Shared

(* A rule with an entry that has been read leads where that does; both     *)
(* statements overwrite with entries that lead to lower rules.             *)
LEMMA ChaosNextInv == ChaosInv /\ [ChaosNext]_chaosVars => ChaosInv'
<1> SUFFICES ASSUME ChaosInv, [ChaosNext]_chaosVars PROVE ChaosInv'
  OBVIOUS
<1>0. /\ Running
      /\ Falls(connection_grammar, SetUp)
      /\ Falls(mutable_grammar, Overwritten)
      /\ Shared(mutable_grammar, Overwritten)
  BY DEF ChaosInv
<1>1. CASE OverwriteRule
  <2> DEFINE rule == Current.rule
             entry == Current.entry
  <2>1. /\ Running'
        /\ Harmless(Current) /\ Current.set = "rule"
        /\ Targets(Current) \subseteq RuleNames \ (Overwritten \cup SetUp)
        /\ Overwritten \subseteq RuleNames
        /\ Overwritten' = Overwritten \cup Targets(Current)
    BY <1>0, <1>1, StatementAdds DEF OverwriteRule
  <2>2. /\ Targets(Current) = {rule}
        /\ WellBelow(rule, entry) /\ entry.type # "STRING_ARRAY"
    BY <2>1 DEF Targets, Harmless
  <2>3. /\ mutable_grammar' = overwrite(mutable_grammar, rule, entry)
        /\ UNCHANGED <<RULE_CHAOS, connection_grammar>>
    BY <1>1 DEF OverwriteRule
  <2> HIDE DEF rule, entry
  <2>4. Falls(mutable_grammar', Overwritten \cup {rule})
    BY <1>0, <2>1, <2>2, <2>3, OverwriteFalls
  <2>5. Shared(overwrite(mutable_grammar, rule, entry), Overwritten \cup {rule})
    BY <1>0, <2>1, <2>2, OverwriteShares
  <2>6. Falls(mutable_grammar, Overwritten)'
    BY <2>1, <2>2, <2>4 DEF Falls, RulesFall, NamesFall
  <2>7. Shared(mutable_grammar, Overwritten)'
    BY <2>1, <2>2, <2>3, <2>5 DEF Shared, IsOverwritten
  <2>8. Falls(connection_grammar, SetUp)'
    BY <1>0, <2>3 DEF Falls, RulesFall, NamesFall
  <2> QED BY <2>1, <2>6, <2>7, <2>8 DEF ChaosInv
<1>2. CASE OverwriteLength
  <2> DEFINE rule == Current.rule
             length_rule == Current.length_rule
  <2>1. /\ Running'
        /\ Harmless(Current) /\ Current.set = "length"
        /\ Targets(Current) \subseteq RuleNames \ (Overwritten \cup SetUp)
        /\ Overwritten \subseteq RuleNames
        /\ Overwritten' = Overwritten \cup Targets(Current)
    BY <1>0, <1>2, StatementAdds DEF OverwriteLength
  <2>2. Targets(Current) = {rule, length_rule} /\ length_rule # rule
    BY <2>1 DEF Targets, Harmless
  <2>3. PICK made \in decode_rule(rule, result_env) :
          mutable_grammar' = overwrite_rule_set_length(mutable_grammar, rule,
                                                       length_rule, made)
    BY <1>2 DEF OverwriteLength
  <2> DEFINE octets == new_byte_array_grammar_entry(made)
             size == new_byte_array_grammar_entry(SizeOctets(Len(made)))
             first == overwrite(mutable_grammar, rule, octets)
             second == overwrite(first, length_rule, size)
             between == Overwritten \cup {rule}
  <2>4. mutable_grammar' = second /\ UNCHANGED <<RULE_CHAOS, connection_grammar>>
    BY <1>2, <2>3 DEF OverwriteLength, overwrite_rule_set_length
  <2>5. /\ WellBelow(rule, octets) /\ WellBelow(length_rule, size)
        /\ octets.type # "STRING_ARRAY" /\ size.type # "STRING_ARRAY"
    BY OctetsFall DEF new_byte_array_grammar_entry
  <2>6. /\ rule \in RuleNames \ (Overwritten \cup SetUp)
        /\ length_rule \in RuleNames \ (between \cup SetUp)
        /\ between \in SUBSET RuleNames
        /\ Overwritten' = between \cup {length_rule}
    BY <2>1, <2>2
  <2> HIDE DEF rule, length_rule, octets, size
  <2>7. Falls(first, between) /\ Shared(first, between)
    BY <1>0, <2>1, <2>5, <2>6, OverwriteFalls, OverwriteShares
  <2> HIDE DEF first, between
  <2>8. /\ Falls(second, between \cup {length_rule})
        /\ Shared(second, between \cup {length_rule})
    BY <1>0, <2>5, <2>6, <2>7, OverwriteFalls, OverwriteShares
  <2> HIDE DEF second
  <2>9. Falls(mutable_grammar, Overwritten)'
    BY <2>4, <2>6, <2>8 DEF Falls, RulesFall, NamesFall
  <2>10. Shared(mutable_grammar, Overwritten)'
    BY <2>4, <2>6, <2>8 DEF Shared, IsOverwritten
  <2>11. Falls(connection_grammar, SetUp)'
    BY <1>0, <2>4 DEF Falls, RulesFall, NamesFall
  <2> QED BY <2>1, <2>9, <2>10, <2>11 DEF ChaosInv
<1>3. CASE UNCHANGED <<RULE_CHAOS, connection_grammar, method, statement,
                       mutable_grammar>>
  BY <1>0, <1>3 DEF ChaosInv, Running, Falls, RulesFall, NamesFall, Shared,
                    IsOverwritten, Overwritten
<1> QED BY <1>1, <1>2, <1>3 DEF ChaosNext, DecodeMethod, chaosVars

(* The constructors write what ChaosInv says, at every statement.          *)
THEOREM ChaosInvariance == ChaosSpec => []ChaosInv
<1>1. ChaosInit => ChaosInv
  BY ChaosInitInv
<1>2. ChaosInv /\ [ChaosNext]_chaosVars => ChaosInv'
  BY ChaosNextInv
<1> QED BY <1>1, <1>2, PTL DEF ChaosSpec

-----------------------------------------------------------------------------
(* What follows                                                            *)

(* The layers order the rules: a way that leads down does not come back.   *)
LEMMA LayersOrder ==
  /\ \A r : ~ Below(r, r)
  /\ \A q, r, s : Below(q, r) /\ Below(r, s) => Below(q, s)
BY NamesAssumption DEF Below

(* What a rule is found to stand for leads to lower rules, or to the two   *)
(* names made up for it.                                                   *)
LEMMA RulesLead ==
  ASSUME ChaosInv, NEW rule \in Known, NEW name,
         name \in Calls(environment_lookup(result_env, rule))
  PROVE  /\ rule \in RuleNames
         /\ Below(name, rule) \/ name \in MadeUp(rule)
<1> DEFINE env == result_env
           entry == environment_lookup(env, rule)
<1>1. /\ DOMAIN env = 1..3
      /\ env[1] = mutable_grammar /\ env[2] = connection_grammar
      /\ env[3] = ProtocolRules
  BY DEF result_env, new_environment
<1>2. \A r \in RuleNames : rule \notin MadeUp(r)
  BY NamesApart
<1>3. \A i \in 1..3 : rule \in DOMAIN env[i] =>
        /\ rule \in RuleNames
        /\ \/ WellBelow(rule, env[i][rule])
           \/ Calls(env[i][rule]) \subseteq MadeUp(rule)
  <2>1. /\ Falls(mutable_grammar, Overwritten)
        /\ Falls(connection_grammar, SetUp)
    BY DEF ChaosInv
  <2>2. DOMAIN ProtocolRules \subseteq RuleNames
    BY DEF RuleNames
  <2> HIDE DEF env
  <2>3. CASE rule \in RuleNames
    BY <1>1, <2>1, <2>3, GrammarsAssumption DEF Falls, RulesFall
  <2>4. CASE rule \notin RuleNames
    BY <1>1, <1>2, <2>1, <2>2, <2>4 DEF Falls, NamesFall
  <2> QED BY <2>3, <2>4
<1>4. \/ entry = UNDEFINED
      \/ \E i \in 1..3 : rule \in DOMAIN env[i] /\ entry = env[i][rule]
  <2> HIDE DEF env
  <2> QED BY <1>1, LookupFinds
<1>5. entry # UNDEFINED
  BY UndefinedFalls
<1> QED BY <1>3, <1>4, <1>5 DEF WellBelow

(* What one of these two stands for leads to lower rules.                  *)
LEMMA MadeUpLead ==
  ASSUME ChaosInv, NEW rule \in RuleNames, NEW name \in MadeUp(rule)
  PROVE  WellBelow(rule, environment_lookup(result_env, name))
<1> DEFINE env == result_env
<1>1. /\ DOMAIN env = 1..3
      /\ env[1] = mutable_grammar /\ env[2] = connection_grammar
      /\ env[3] = ProtocolRules
  BY DEF result_env, new_environment
<1>2. /\ name \notin RuleNames
      /\ \A r \in RuleNames : name \in MadeUp(r) => r = rule
  BY NamesApart
<1>3. \A i \in 1..3 : name \in DOMAIN env[i] => WellBelow(rule, env[i][name])
  <2>1. /\ NamesFall(mutable_grammar) /\ NamesFall(connection_grammar)
        /\ DOMAIN ProtocolRules \subseteq RuleNames
    BY DEF ChaosInv, Falls, RuleNames
  <2> HIDE DEF env
  <2> QED BY <1>1, <1>2, <2>1 DEF NamesFall
<1> HIDE DEF env
<1>4. \/ environment_lookup(env, name) = UNDEFINED
      \/ \E i \in 1..3 : /\ name \in DOMAIN env[i]
                         /\ environment_lookup(env, name) = env[i][name]
  BY <1>1, LookupFinds
<1>5. WellBelow(rule, environment_lookup(env, name))
  BY <1>3, <1>4, UndefinedFalls
<1> QED BY <1>5 DEF env

(* decode_rule, which does not look for cycles, meets none, whichever      *)
(* rules of a packet are overwritten (Grammar_Interface.c): what a rule    *)
(* stands for leads to lower rules only, and by LayersOrder not back.      *)
THEOREM NoRuleLeadsBack == ChaosSpec => []NoCycle
<1>1. ChaosInv => NoCycle
  <2> SUFFICES ASSUME ChaosInv, NEW rule \in Known, NEW other \in LeadsTo(rule)
               PROVE  Below(other, rule)
    BY DEF NoCycle
  <2>1. PICK name \in Calls(environment_lookup(result_env, rule)) :
          other \in IF name \in MadeUp(rule)
                    THEN Calls(environment_lookup(result_env, name))
                    ELSE {name}
    BY DEF LeadsTo, MadeUp
  <2>2. CASE name \in MadeUp(rule)
    <3>1. other \in Calls(environment_lookup(result_env, name))
      BY <2>1, <2>2
    <3>2. rule \in RuleNames
      BY <2>1, RulesLead
    <3> QED BY <2>2, <3>1, <3>2, MadeUpLead DEF WellBelow
  <2>3. CASE name \notin MadeUp(rule)
    BY <2>1, <2>3, RulesLead
  <2> QED BY <2>2, <2>3
<1> QED BY <1>1, ChaosInvariance, PTL

(* Of the alternatives of a rule that is overwritten, RULE_CHAOS in four   *)
(* are the raw rule.                                                       *)
LEMMA RawAlternatives ==
  ASSUME NEW rule \in RuleNames, NEW level \in 1..3
  PROVE  LET names == Alternatives(rule, level)
             alternatives == Choice(names).alternatives
             raw == {i \in DOMAIN alternatives :
                       alternatives[i] = <<Rule(Chaos(rule))>>}
         IN  4 * Cardinality(raw) = level * Len(alternatives)
<1> DEFINE names == Alternatives(rule, level)
           alternatives == Choice(names).alternatives
           raw == {i \in DOMAIN alternatives :
                     alternatives[i] = <<Rule(Chaos(rule))>>}
<1>1. alternatives = [i \in DOMAIN names |-> <<Rule(names[i])>>]
  BY DEF Choice, new_str_array_grammar_entry
<1>2. raw = {i \in DOMAIN names : names[i] = Chaos(rule)}
  <2>1. \A name : <<Rule(name)>> = <<Rule(Chaos(rule))>> <=> name = Chaos(rule)
    <3> TAKE name
    <3>1. <<Rule(name)>>[1].name = name
          /\ <<Rule(Chaos(rule))>>[1].name = Chaos(rule)
      BY DEF Rule
    <3> QED BY <3>1
  <2> HIDE DEF names, alternatives
  <2>2. DOMAIN alternatives = DOMAIN names
        /\ \A i \in DOMAIN names : alternatives[i] = <<Rule(names[i])>>
    BY <1>1
  <2> QED BY <2>1, <2>2
<1>3. Order(rule) # Chaos(rule)
  BY NamesApart
<1>4. CASE level = 2
  <2>1. names = <<Order(rule), Chaos(rule)>>
    BY <1>4 DEF Alternatives
  <2>2. raw = {2}
    BY <1>2, <1>3, <2>1
  <2>3. Cardinality({2}) = 1
    BY FS_Singleton
  <2>4. Len(alternatives) = 2
    BY <1>1, <2>1
  <2> HIDE DEF raw, alternatives
  <2>5. 4 * Cardinality(raw) = level * Len(alternatives)
    BY <1>4, <2>2, <2>3, <2>4
  <2> QED BY <2>5 DEF raw, alternatives
<1>5. CASE level # 2
  <2>1. names = [i \in 1..4 |-> IF i <= level THEN Chaos(rule)
                                              ELSE Order(rule)]
    BY <1>5 DEF Alternatives
  <2>2. raw = 1..level
    BY <1>2, <1>3, <2>1
  <2>3. Cardinality(1..level) = level
    <3>1. 1 \in Int /\ level \in Int /\ ~ (1 > level) /\ level - 1 + 1 = level
      OBVIOUS
    <3>2. Cardinality(1..level) = IF 1 > level THEN 0 ELSE level - 1 + 1
      BY <3>1, FS_Interval
    <3> QED BY <3>1, <3>2
  <2>4. Len(alternatives) = 4
    BY <1>1, <2>1
  <2> HIDE DEF raw, alternatives
  <2>5. 4 * Cardinality(raw) = level * Len(alternatives)
    BY <2>2, <2>3, <2>4
  <2> QED BY <2>5 DEF raw, alternatives
<1> QED BY <1>4, <1>5

(* Every rule that a constructor has overwritten stays raw in RULE_CHAOS   *)
(* of four draws (the switch of overwrite_rule_with_chaos).                *)
THEOREM RulesStayRawAsAsked == ChaosSpec => []RawShare
<1>1. ChaosInv => RawShare
  <2> SUFFICES ASSUME ChaosInv PROVE RawShare
    OBVIOUS
  <2>1. RULE_CHAOS \in 0..4 /\ Shared(mutable_grammar, Overwritten)
    BY DEF ChaosInv, Running
  <2>2. CASE RULE_CHAOS = 4
    BY <2>1, <2>2 DEF RawShare, Shared
  <2>3. CASE RULE_CHAOS # 4
    <3> SUFFICES ASSUME NEW rule \in Overwritten
                 PROVE  /\ rule \in DOMAIN mutable_grammar
                        /\ RULE_CHAOS = 0 =>
                             mutable_grammar[rule].type # "STRING_ARRAY"
                        /\ RULE_CHAOS # 0 => RawInFour(rule)
      BY <2>3 DEF RawShare
    <3>1. IsOverwritten(mutable_grammar, rule)
      BY <2>1, <2>3 DEF Shared
    <3>2. ASSUME RULE_CHAOS # 0 PROVE RawInFour(rule)
      <4>1. RULE_CHAOS \in 1..3
        BY <2>1, <2>3, <3>2
      <4>2. rule \in RuleNames
        BY OverwrittenAreRules DEF ChaosInv
      <4>3. mutable_grammar[rule] = Choice(Alternatives(rule, RULE_CHAOS))
        BY <3>1, <3>2 DEF IsOverwritten
      <4> QED BY <4>1, <4>2, <4>3, RawAlternatives DEF RawInFour
    <3> QED BY <3>1, <3>2 DEF IsOverwritten
  <2> QED BY <2>2, <2>3
<1> QED BY <1>1, ChaosInvariance, PTL

-----------------------------------------------------------------------------
(* What a packet without chaos is decoded to                               *)

(* The frame, of a payload that is written already.                        *)
FrameFound(env, d) ==
  /\ Finds(env, "method", <<Rule("method-frame")>>)
  /\ Finds(env, "method-frame",
           <<Symbol(<<1>>), Rule("frame-properties"), Rule("method-payload"),
             Rule("frame-end")>>)
  /\ Finds(env, "frame-properties", <<Rule("channel"), Rule("payload-size")>>)
  /\ Finds(env, "channel", <<Symbol(<<0, 0>>)>>)
  /\ Finds(env, "frame-end", <<Symbol(<<206>>)>>)
  /\ FindsOctets(env, "method-payload", d)
  /\ FindsOctets(env, "payload-size", SizeOctets(Len(d)))

IsFrame(s, d) ==
  /\ Len(s) = Len(d) + 8
  /\ Within(s, 3, SizeOctets(Len(d)))
  /\ Within(s, 7, d)

LEMMA SizeIsFour ==
  ASSUME Octets = 256, NEW n \in Nat
  PROVE  SizeOctets(n) \in Seq(Octet) /\ Len(SizeOctets(n)) = 4
<1>1. SizeOctets(n) \in [1..4 -> Octet]
  BY OctetsAreWritten DEF SizeOctets
<1> QED
  BY <1>1, OctetSequence

LEMMA PropertiesDecoded ==
  ASSUME Octets = 256, NEW env, NEW rules, NEW inner, NEW innermost,
         Unfolds(env, rules, inner), Unfolds(env, inner, innermost),
         NEW d, FrameFound(env, d), NEW s \in rules["frame-properties"]
  PROVE  /\ s \in Seq(Octet) /\ Len(s) = 6
         /\ Within(s, 2, SizeOctets(Len(d)))
<1> DEFINE size == SizeOctets(Len(d))
<1>1. /\ Finds(env, "frame-properties", <<Rule("channel"), Rule("payload-size")>>)
      /\ Finds(env, "channel", <<Symbol(<<0, 0>>)>>)
      /\ FindsOctets(env, "payload-size", size) /\ d \in Seq(Octet)
      /\ "channel" \in STRING /\ "payload-size" \in STRING
  BY DEF FrameFound, Finds, FindsOctets
<1>2. size \in Seq(Octet) /\ Len(size) = 4
  BY <1>1, SizeIsFour, LenProperties
<1>3. <<0, 0>> \in Seq(Octet) /\ Len(<<0, 0>>) = 2
  <2>1. Octet = 0..255
    BY Weights
  <2> QED
    BY <2>1
<1> HIDE DEF size
<1>4. inner["payload-size"] = {size}
  BY <1>1, OctetsUnfold
<1>5. inner["channel"] \subseteq {<<0, 0>>}
  BY <1>1, <1>3, RuleUnfoldsToSymbol
<1>6. s \in parse_elements(<<Rule("channel"), Rule("payload-size")>>, inner)
  BY <1>1, ElementsUnfold
<1>7. OctetRules(inner)
  BY DEF Unfolds
<1>8. Joined(parse_elements(<<Rule("channel"), Rule("payload-size")>>, inner),
             inner["channel"], inner["payload-size"])
  BY <1>1, <1>7, RuleParts, TwoInTurn
<1>9. s = <<0, 0>> \o size
  BY <1>4, <1>5, <1>6, <1>8 DEF Joined
<1>10. /\ <<0, 0>> \o size \in Seq(Octet)
       /\ Within(<<0, 0>> \o size, Len(<<0, 0>>), size)
       /\ Len(<<0, 0>> \o size) = Len(<<0, 0>>) + Len(size)
  BY <1>2, <1>3, ConcatWithin, ConcatProperties
<1>11. 2 + 4 = 6
  OBVIOUS
<1> QED
  BY <1>2, <1>3, <1>9, <1>10, <1>11 DEF size

LEMMA FrameDecoded ==
  ASSUME Octets = 256, NEW env, DecodableEnvironment(env),
         NEW d, FrameFound(env, d), NEW s \in decode_rule("method", env)
  PROVE  IsFrame(s, d)
<1> DEFINE size == SizeOctets(Len(d))
           elements == <<Symbol(<<1>>), Rule("frame-properties"),
                         Rule("method-payload"), Rule("frame-end")>>
<1>1. /\ Finds(env, "method", <<Rule("method-frame")>>)
      /\ Finds(env, "method-frame", elements)
      /\ Finds(env, "frame-end", <<Symbol(<<206>>)>>)
      /\ FindsOctets(env, "method-payload", d) /\ d \in Seq(Octet)
      /\ {"method-frame", "frame-properties", "method-payload", "frame-end"}
           \subseteq STRING
  BY DEF FrameFound, Finds, FindsOctets
<1>2. PICK r0, r1, r2, r3, r4, r5 :
        /\ r0 = Decodings(env)[Deepest]
        /\ Unfolds(env, r0, r1) /\ Unfolds(env, r1, r2) /\ Unfolds(env, r2, r3)
        /\ Unfolds(env, r3, r4) /\ Unfolds(env, r4, r5)
  BY RulesUnfoldFive, FrameAssumption
<1>3. s \in r1["method-frame"]
  <2>1. r0["method"] \subseteq r1["method-frame"]
    BY <1>1, <1>2, RuleUnfoldsToRule
  <2> QED
    BY <1>2, <2>1 DEF decode_rule
<1>4. r1["method-frame"] = parse_elements(elements, r2)
  BY <1>1, <1>2, ElementsUnfold
<1>5. OctetRules(r2)
  BY <1>2 DEF Unfolds
<1>6. /\ <<1>> \in Seq(Octet) /\ Len(<<1>>) = 1
      /\ <<206>> \in Seq(Octet) /\ Len(<<206>>) = 1
  <2>1. Octet = 0..255
    BY Weights
  <2> QED
    BY <2>1
<1>7. /\ Decodable(Symbol(<<1>>)) /\ parse_element(Symbol(<<1>>), r2) = {<<1>>}
  BY <1>6, SymbolParts
<1>8. \A r \in {"frame-properties", "method-payload", "frame-end"} :
        Decodable(Rule(r)) /\ parse_element(Rule(r), r2) = r2[r]
  BY <1>1, RuleParts
<1>9. PICK fp \in r2["frame-properties"], mp \in r2["method-payload"],
           fe \in r2["frame-end"] : s = ((<<1>> \o fp) \o mp) \o fe
  <2> DEFINE e1 == Symbol(<<1>>)
             e2 == Rule("frame-properties")
             e3 == Rule("method-payload")
             e4 == Rule("frame-end")
  <2>1. /\ Decodable(e1) /\ Decodable(e2) /\ Decodable(e3) /\ Decodable(e4)
        /\ parse_element(e1, r2) = {<<1>>}
        /\ parse_element(e2, r2) = r2["frame-properties"]
        /\ parse_element(e3, r2) = r2["method-payload"]
        /\ parse_element(e4, r2) = r2["frame-end"]
    BY <1>7, <1>8
  <2>2. s \in parse_elements(<<e1, e2, e3, e4>>, r2)
    BY <1>3, <1>4
  <2> HIDE DEF e1, e2, e3, e4
  <2>3. /\ Joined(parse_elements(<<e1, e2>>, r2),
                  parse_element(e1, r2), parse_element(e2, r2))
        /\ Joined(parse_elements(<<e1, e2, e3>>, r2),
                  parse_elements(<<e1, e2>>, r2), parse_element(e3, r2))
        /\ Joined(parse_elements(<<e1, e2, e3, e4>>, r2),
                  parse_elements(<<e1, e2, e3>>, r2), parse_element(e4, r2))
    BY <1>5, <2>1, TwoInTurn, ThreeInTurn, FourInTurn
  <2>4. PICK A, B, C, D : /\ A = parse_element(e1, r2)
                          /\ B = parse_element(e2, r2)
                          /\ C = parse_element(e3, r2)
                          /\ D = parse_element(e4, r2)
    OBVIOUS
  <2>5. \E a \in A : \E fp \in B : \E mp \in C : \E fe \in D :
          s = ((a \o fp) \o mp) \o fe
    BY <2>2, <2>3, <2>4, FourJoined
  <2>6. /\ A = {<<1>>} /\ B = r2["frame-properties"]
        /\ C = r2["method-payload"] /\ D = r2["frame-end"]
    BY <2>1, <2>4
  <2>7. PICK a \in A, fp \in B, mp \in C, fe \in D : s = ((a \o fp) \o mp) \o fe
    BY <2>5
  <2>8. a = <<1>>
    BY <2>6
  <2> QED
    BY <2>6, <2>7, <2>8
<1>10. mp = d
  BY <1>1, <1>2, OctetsUnfold
<1>11. fe = <<206>>
  <2>1. PICK last \in Seq(Octet) : last = <<206>>
    BY <1>6
  <2>2. Unfolds(env, r2, r3)
    BY <1>2
  <2>3. Finds(env, "frame-end", <<Symbol(last)>>)
    BY <1>1, <2>1
  <2>4. r2["frame-end"] \subseteq {last}
    BY <2>2, <2>3, RuleUnfoldsToSymbol
  <2> QED
    BY <2>1, <2>4
<1>12. fp \in Seq(Octet) /\ Len(fp) = 6 /\ Within(fp, 2, size)
  BY <1>2, PropertiesDecoded
<1> HIDE DEF size, elements
<1>13. /\ Len(s) = 1 + 6 + Len(d) + 1
       /\ Within(s, 1, fp) /\ Within(s, 1 + 6, d)
  <2>1. PICK first \in Seq(Octet), last \in Seq(Octet) :
          first = <<1>> /\ last = <<206>>
    BY <1>6
  <2>2. Len(first) = 1 /\ Len(last) = 1 /\ d \in Seq(Octet) /\ fp \in Seq(Octet)
    BY <1>1, <1>6, <1>12, <2>1
  <2>3. s = ((first \o fp) \o d) \o last
    BY <1>9, <1>10, <1>11, <2>1
  <2>4. /\ Len(s) = Len(first) + Len(fp) + Len(d) + Len(last)
        /\ Within(s, Len(first), fp) /\ Within(s, Len(first) + Len(fp), d)
    BY <2>2, <2>3, FourWithin
  <2> QED
    BY <1>12, <2>2, <2>4
<1>14. Within(s, 1 + 2, size)
  BY <1>12, <1>13, WithinWithin
<1>15. 1 + 6 = 7 /\ 1 + 2 = 3 /\ 1 + 6 + Len(d) + 1 = Len(d) + 8
  BY <1>1, LenProperties
<1> QED
  BY <1>13, <1>14, <1>15 DEF IsFrame, size

(* The payload of START-OK, of a table and a response that are written.    *)
StartOkFound(env, p, q) ==
  /\ Finds(env, "method-payload",
           <<Rule("class-id"), Rule("method-id"), Rule("method-properties")>>)
  /\ Finds(env, "class-id", <<Symbol(<<0, 10>>)>>)
  /\ Finds(env, "method-id", <<Rule("m11-method-id")>>)
  /\ Finds(env, "m11-method-id", <<Symbol(<<0, 11>>)>>)
  /\ Finds(env, "method-properties", <<Rule("m11-method-properties")>>)
  /\ Finds(env, "m11-method-properties",
           <<Rule("client-properties"), Rule("mechanism"), Rule("response"),
             Rule("locale")>>)
  /\ Finds(env, "client-properties",
           <<Rule("client-properties-length"), Rule("client-properties-payload")>>)
  /\ Finds(env, "mechanism", <<Symbol(<<5>>), Symbol(<<80, 76, 65, 73, 78>>)>>)
  /\ Finds(env, "response", <<Rule("message-length"), Rule("message")>>)
  /\ Finds(env, "locale", <<Symbol(<<5>>), Symbol(<<101, 110, 95, 85, 83>>)>>)
  /\ FindsOctets(env, "client-properties-length", SizeOctets(Len(p)))
  /\ FindsOctets(env, "client-properties-payload", p)
  /\ FindsOctets(env, "message-length", SizeOctets(Len(q)))
  /\ FindsOctets(env, "message", q)

IsStartOk(d) ==
  \E p, q \in Seq(Octet) :
    /\ Len(d) = 24 + Len(p) + Len(q)
    /\ Within(d, 4, SizeOctets(Len(p)))
    /\ Within(d, 14 + Len(p), SizeOctets(Len(q)))

(* A length, and what it is the length of.                                 *)
LEMMA LengthDecoded ==
  ASSUME Octets = 256, NEW env, NEW rules, NEW inner, NEW innermost,
         Unfolds(env, rules, inner), Unfolds(env, inner, innermost),
         NEW d, NEW rule, NEW length_rule, NEW content,
         Finds(env, rule, <<Rule(length_rule), Rule(content)>>),
         FindsOctets(env, length_rule, SizeOctets(Len(d))),
         FindsOctets(env, content, d), NEW s \in rules[rule]
  PROVE  /\ s \in Seq(Octet) /\ Len(s) = 4 + Len(d)
         /\ Within(s, 0, SizeOctets(Len(d)))
<1> DEFINE size == SizeOctets(Len(d))
<1>1. d \in Seq(Octet) /\ length_rule \in STRING /\ content \in STRING
  BY DEF FindsOctets
<1>2. size \in Seq(Octet) /\ Len(size) = 4
  BY <1>1, SizeIsFour, LenProperties
<1>3. FindsOctets(env, length_rule, size)
  OBVIOUS
<1> HIDE DEF size
<1>4. inner[length_rule] = {size}
  BY <1>3, OctetsUnfold
<1>5. inner[content] = {d}
  BY OctetsUnfold
<1>6. s \in parse_elements(<<Rule(length_rule), Rule(content)>>, inner)
  BY ElementsUnfold
<1>7. OctetRules(inner)
  BY DEF Unfolds
<1>8. Joined(parse_elements(<<Rule(length_rule), Rule(content)>>, inner),
             inner[length_rule], inner[content])
  BY <1>1, <1>7, RuleParts, TwoInTurn
<1>9. s = size \o d
  BY <1>4, <1>5, <1>6, <1>8 DEF Joined
<1>10. /\ size \o d \in Seq(Octet)
       /\ Within(size \o d, 0, size)
       /\ Len(size \o d) = Len(size) + Len(d)
  BY <1>1, <1>2, ConcatWithin, ConcatProperties
<1> QED
  BY <1>2, <1>9, <1>10 DEF size

(* The mechanism and the locale: the length and the octets of a name.      *)
AreSix(S) == \A s \in S : s \in Seq(Octet) /\ Len(s) = 6

LEMMA SymbolsDecoded ==
  ASSUME Octets = 256, NEW env, NEW rules, NEW inner, Unfolds(env, rules, inner),
         NEW rule, NEW a \in Seq(Octet), NEW b \in Seq(Octet),
         Len(a) = 1, Len(b) = 5,
         Finds(env, rule, <<Symbol(a), Symbol(b)>>)
  PROVE  AreSix(rules[rule])
<1> SUFFICES ASSUME NEW s \in rules[rule] PROVE s \in Seq(Octet) /\ Len(s) = 6
  BY DEF AreSix
<1>1. s \in parse_elements(<<Symbol(a), Symbol(b)>>, inner)
  BY ElementsUnfold
<1>2. OctetRules(inner)
  BY DEF Unfolds
<1>3. Joined(parse_elements(<<Symbol(a), Symbol(b)>>, inner), {a}, {b})
  <2>1. /\ Decodable(Symbol(a)) /\ parse_element(Symbol(a), inner) = {a}
        /\ Decodable(Symbol(b)) /\ parse_element(Symbol(b), inner) = {b}
    BY SymbolParts
  <2>2. Joined(parse_elements(<<Symbol(a), Symbol(b)>>, inner),
               parse_element(Symbol(a), inner), parse_element(Symbol(b), inner))
    BY <1>2, <2>1, TwoInTurn
  <2> QED
    BY <2>1, <2>2
<1>4. s = a \o b
  BY <1>1, <1>3 DEF Joined
<1>5. a \o b \in Seq(Octet) /\ Len(a \o b) = Len(a) + Len(b)
  BY ConcatProperties
<1> QED
  BY <1>4, <1>5

LEMMA StartOkPropertiesDecoded ==
  ASSUME Octets = 256, NEW env, NEW r2, NEW r3, NEW r4, NEW r5,
         Unfolds(env, r2, r3), Unfolds(env, r3, r4), Unfolds(env, r4, r5),
         NEW p, NEW q, StartOkFound(env, p, q),
         NEW s \in r2["m11-method-properties"]
  PROVE  /\ p \in Seq(Octet) /\ q \in Seq(Octet) /\ s \in Seq(Octet)
         /\ Len(s) = 20 + Len(p) + Len(q)
         /\ Within(s, 0, SizeOctets(Len(p)))
         /\ Within(s, 10 + Len(p), SizeOctets(Len(q)))
<1> DEFINE e1 == Rule("client-properties")
           e2 == Rule("mechanism")
           e3 == Rule("response")
           e4 == Rule("locale")
<1>1. /\ Finds(env, "m11-method-properties", <<e1, e2, e3, e4>>)
      /\ p \in Seq(Octet) /\ q \in Seq(Octet)
      /\ "client-properties" \in STRING /\ "mechanism" \in STRING
      /\ "response" \in STRING /\ "locale" \in STRING
  BY DEF StartOkFound, Finds, FindsOctets
<1>2. Len(p) \in Nat /\ Len(q) \in Nat
  BY <1>1, LenProperties
<1>3. /\ Decodable(e1) /\ parse_element(e1, r3) = r3["client-properties"]
      /\ Decodable(e2) /\ parse_element(e2, r3) = r3["mechanism"]
      /\ Decodable(e3) /\ parse_element(e3, r3) = r3["response"]
      /\ Decodable(e4) /\ parse_element(e4, r3) = r3["locale"]
  BY <1>1, RuleParts
<1> HIDE DEF e1, e2, e3, e4
<1>4. s \in parse_elements(<<e1, e2, e3, e4>>, r3)
  BY <1>1, ElementsUnfold
<1>5. PICK A, B, C, D : /\ A = parse_element(e1, r3) /\ B = parse_element(e2, r3)
                        /\ C = parse_element(e3, r3) /\ D = parse_element(e4, r3)
  OBVIOUS
<1>6. \E a \in A : \E b \in B : \E c \in C : \E d \in D : s = ((a \o b) \o c) \o d
  <2>1. OctetRules(r3)
    BY DEF Unfolds
  <2>2. /\ Joined(parse_elements(<<e1, e2>>, r3), A, B)
        /\ Joined(parse_elements(<<e1, e2, e3>>, r3),
                  parse_elements(<<e1, e2>>, r3), C)
        /\ Joined(parse_elements(<<e1, e2, e3, e4>>, r3),
                  parse_elements(<<e1, e2, e3>>, r3), D)
    BY <1>3, <1>5, <2>1, TwoInTurn, ThreeInTurn, FourInTurn
  <2> QED
    BY <1>4, <2>2, FourJoined
<1>7. PICK a \in A, b \in B, c \in C, d \in D : s = ((a \o b) \o c) \o d
  BY <1>6
<1>8. /\ a \in r3["client-properties"] /\ b \in r3["mechanism"]
      /\ c \in r3["response"] /\ d \in r3["locale"]
  BY <1>3, <1>5
<1>9. /\ a \in Seq(Octet) /\ Len(a) = 4 + Len(p)
      /\ Within(a, 0, SizeOctets(Len(p)))
  BY <1>8, LengthDecoded DEF StartOkFound
<1>10. /\ c \in Seq(Octet) /\ Len(c) = 4 + Len(q)
       /\ Within(c, 0, SizeOctets(Len(q)))
  BY <1>8, LengthDecoded DEF StartOkFound
<1>11. b \in Seq(Octet) /\ Len(b) = 6 /\ d \in Seq(Octet) /\ Len(d) = 6
  <2>1. Octet = 0..255
    BY Weights
  <2>2. PICK five : five = <<5>>
    OBVIOUS
  <2>3. PICK plain : plain = <<80, 76, 65, 73, 78>>
    OBVIOUS
  <2>4. PICK en_US : en_US = <<101, 110, 95, 85, 83>>
    OBVIOUS
  <2>5. five \in Seq(Octet) /\ Len(five) = 1
    BY <2>1, <2>2
  <2>6. plain \in Seq(Octet) /\ Len(plain) = 5
    BY <2>1, <2>3
  <2>7. en_US \in Seq(Octet) /\ Len(en_US) = 5
    BY <2>1, <2>4
  <2>8. /\ Finds(env, "mechanism", <<Symbol(five), Symbol(plain)>>)
        /\ Finds(env, "locale", <<Symbol(five), Symbol(en_US)>>)
    BY <2>2, <2>3, <2>4 DEF StartOkFound
  <2>9. Unfolds(env, r3, r4)
    OBVIOUS
  <2>10. AreSix(r3["mechanism"])
    BY <2>5, <2>6, <2>8, <2>9, SymbolsDecoded
  <2>11. AreSix(r3["locale"])
    BY <2>5, <2>7, <2>8, <2>9, SymbolsDecoded
  <2> QED
    BY <1>8, <2>10, <2>11 DEF AreSix
<1>12. /\ Len(s) = Len(a) + Len(b) + Len(c) + Len(d)
       /\ Within(s, 0, a) /\ Within(s, Len(a) + Len(b), c)
  BY <1>7, <1>9, <1>10, <1>11, FourWithin
<1>13. /\ Within(s, 0 + 0, SizeOctets(Len(p)))
       /\ Within(s, (Len(a) + Len(b)) + 0, SizeOctets(Len(q)))
  BY <1>9, <1>10, <1>12, WithinWithin
<1>14. /\ Len(s) = 20 + Len(p) + Len(q) /\ 0 + 0 = 0
       /\ (Len(a) + Len(b)) + 0 = 10 + Len(p)
  BY <1>2, <1>9, <1>10, <1>11, <1>12
<1>15. s \in Seq(Octet)
  BY <1>12 DEF Within
<1> QED
  BY <1>1, <1>13, <1>14, <1>15

LEMMA StartOkDecoded ==
  ASSUME Octets = 256, NEW env, DecodableEnvironment(env),
         NEW p, NEW q, StartOkFound(env, p, q),
         NEW s \in decode_rule("method-payload", env)
  PROVE  IsStartOk(s)
<1> DEFINE e1 == Rule("class-id")
           e2 == Rule("method-id")
           e3 == Rule("method-properties")
<1>1. /\ Finds(env, "method-payload", <<e1, e2, e3>>)
      /\ Finds(env, "class-id", <<Symbol(<<0, 10>>)>>)
      /\ Finds(env, "method-id", <<Rule("m11-method-id")>>)
      /\ Finds(env, "m11-method-id", <<Symbol(<<0, 11>>)>>)
      /\ Finds(env, "method-properties", <<Rule("m11-method-properties")>>)
      /\ "class-id" \in STRING /\ "method-id" \in STRING
      /\ "method-properties" \in STRING /\ "m11-method-id" \in STRING
      /\ "m11-method-properties" \in STRING
  BY DEF StartOkFound, Finds
<1>2. PICK r0, r1, r2, r3, r4, r5 :
        /\ r0 = Decodings(env)[Deepest]
        /\ Unfolds(env, r0, r1) /\ Unfolds(env, r1, r2) /\ Unfolds(env, r2, r3)
        /\ Unfolds(env, r3, r4) /\ Unfolds(env, r4, r5)
  BY RulesUnfoldFive, FrameAssumption
<1>3. /\ Decodable(e1) /\ parse_element(e1, r1) = r1["class-id"]
      /\ Decodable(e2) /\ parse_element(e2, r1) = r1["method-id"]
      /\ Decodable(e3) /\ parse_element(e3, r1) = r1["method-properties"]
  BY <1>1, RuleParts
<1> HIDE DEF e1, e2, e3
<1>4. s \in parse_elements(<<e1, e2, e3>>, r1)
  <2>1. r0["method-payload"] = parse_elements(<<e1, e2, e3>>, r1)
    BY <1>1, <1>2, ElementsUnfold
  <2> QED
    BY <1>2, <2>1 DEF decode_rule
<1>5. PICK A, B, C : /\ A = parse_element(e1, r1) /\ B = parse_element(e2, r1)
                     /\ C = parse_element(e3, r1)
  OBVIOUS
<1>6. \E a \in A : \E b \in B : \E c \in C : s = (a \o b) \o c
  <2>1. OctetRules(r1)
    BY <1>2 DEF Unfolds
  <2>2. /\ Joined(parse_elements(<<e1, e2>>, r1), A, B)
        /\ Joined(parse_elements(<<e1, e2, e3>>, r1),
                  parse_elements(<<e1, e2>>, r1), C)
    BY <1>3, <1>5, <2>1, TwoInTurn, ThreeInTurn
  <2> QED
    BY <1>4, <2>2, ThreeJoined
<1>7. PICK a \in A, b \in B, c \in C : s = (a \o b) \o c
  BY <1>6
<1>8. a \in Seq(Octet) /\ Len(a) = 2
  <2>1. Octet = 0..255
    BY Weights
  <2>2. PICK class : class = <<0, 10>>
    OBVIOUS
  <2>3. class \in Seq(Octet) /\ Len(class) = 2
    BY <2>1, <2>2
  <2>4. Finds(env, "class-id", <<Symbol(class)>>)
    BY <1>1, <2>2
  <2>5. r1["class-id"] \subseteq {class}
    BY <1>2, <2>3, <2>4, RuleUnfoldsToSymbol
  <2> QED
    BY <1>3, <1>5, <2>3, <2>5
<1>9. b \in Seq(Octet) /\ Len(b) = 2
  <2>1. Octet = 0..255
    BY Weights
  <2>2. PICK id : id = <<0, 11>>
    OBVIOUS
  <2>3. id \in Seq(Octet) /\ Len(id) = 2
    BY <2>1, <2>2
  <2>4. Finds(env, "m11-method-id", <<Symbol(id)>>)
    BY <1>1, <2>2
  <2>5. r2["m11-method-id"] \subseteq {id}
    BY <1>2, <2>3, <2>4, RuleUnfoldsToSymbol
  <2>6. r1["method-id"] \subseteq r2["m11-method-id"]
    BY <1>1, <1>2, RuleUnfoldsToRule
  <2> QED
    BY <1>3, <1>5, <2>3, <2>5, <2>6
<1>10. /\ p \in Seq(Octet) /\ q \in Seq(Octet) /\ c \in Seq(Octet)
       /\ Len(c) = 20 + Len(p) + Len(q)
       /\ Within(c, 0, SizeOctets(Len(p)))
       /\ Within(c, 10 + Len(p), SizeOctets(Len(q)))
  <2>1. r1["method-properties"] \subseteq r2["m11-method-properties"]
    BY <1>1, <1>2, RuleUnfoldsToRule
  <2>2. c \in r2["m11-method-properties"]
    BY <1>3, <1>5, <2>1
  <2> QED
    BY <1>2, <2>2, StartOkPropertiesDecoded
<1>11. /\ Len(s) = Len(a) + Len(b) + Len(c)
       /\ Within(s, Len(a) + Len(b), c)
  BY <1>7, <1>8, <1>9, <1>10, ThreeWithin
<1>12. /\ Within(s, (Len(a) + Len(b)) + 0, SizeOctets(Len(p)))
       /\ Within(s, (Len(a) + Len(b)) + (10 + Len(p)), SizeOctets(Len(q)))
  BY <1>10, <1>11, WithinWithin
<1>13. Len(p) \in Nat /\ Len(q) \in Nat
  BY <1>10, LenProperties
<1>14. /\ Len(s) = 24 + Len(p) + Len(q)
       /\ (Len(a) + Len(b)) + 0 = 4
       /\ (Len(a) + Len(b)) + (10 + Len(p)) = 14 + Len(p)
  BY <1>8, <1>9, <1>10, <1>11, <1>13
<1> QED
  BY <1>10, <1>12, <1>14 DEF IsStartOk

-----------------------------------------------------------------------------
(* Lookups in the grammars of a packet, without chaos                      *)

Has(grammar, rule) == rule \in DOMAIN grammar /\ grammar[rule] # UNDEFINED

HasEntry(grammar, rule, entry) == rule \in DOMAIN grammar /\ grammar[rule] = entry

LEMMA LookupInThree ==
  ASSUME NEW a, NEW b, NEW c, NEW rule
  PROVE  environment_lookup(<<a, b, c>>, rule)
           = IF Has(a, rule) THEN a[rule] ELSE IF Has(b, rule) THEN b[rule]
             ELSE IF Has(c, rule) THEN c[rule] ELSE UNDEFINED
<1> DEFINE env == <<a, b, c>>
           found == {i \in DOMAIN env : /\ rule \in DOMAIN env[i]
                                        /\ env[i][rule] # UNDEFINED}
           Least(i) == i \in found /\ \A j \in found : i <= j
<1>1. /\ DOMAIN env = 1..3 /\ env[1] = a /\ env[2] = b /\ env[3] = c
  OBVIOUS
<1>2. /\ found \subseteq 1..3
      /\ 1 \in found <=> Has(a, rule)
      /\ 2 \in found <=> Has(b, rule)
      /\ 3 \in found <=> Has(c, rule)
  BY <1>1 DEF Has
<1>3. environment_lookup(env, rule)
        = IF found = {} THEN UNDEFINED
          ELSE env[CHOOSE i \in found : \A j \in found : i <= j][rule]
  BY DEF environment_lookup
<1> HIDE DEF env, found
<1>4. ASSUME NEW i \in 1..3, i \in found, \A j \in found : i <= j
      PROVE  (CHOOSE k \in found : \A j \in found : k <= j) = i
  <2>1. \A k \in found : k \in 1..3
    BY <1>2
  <2>2. \A k \in found : (\A j \in found : k <= j) => k = i
    BY <1>4, <2>1
  <2> QED
    BY <1>4, <2>2
<1>5. CASE 1 \in found
  <2>1. \A j \in found : 1 <= j
    BY <1>2
  <2>2. (CHOOSE k \in found : \A j \in found : k <= j) = 1
    BY <1>4, <1>5, <2>1
  <2> QED
    BY <1>1, <1>2, <1>3, <1>5, <2>2 DEF env
<1>6. CASE 1 \notin found /\ 2 \in found
  <2>1. \A j \in found : 2 <= j
    BY <1>2, <1>6
  <2>2. (CHOOSE k \in found : \A j \in found : k <= j) = 2
    BY <1>4, <1>6, <2>1
  <2> QED
    BY <1>1, <1>2, <1>3, <1>6, <2>2 DEF env
<1>7. CASE 1 \notin found /\ 2 \notin found /\ 3 \in found
  <2>1. \A j \in found : 3 <= j
    BY <1>2, <1>7
  <2>2. (CHOOSE k \in found : \A j \in found : k <= j) = 3
    BY <1>4, <1>7, <2>1
  <2> QED
    BY <1>1, <1>2, <1>3, <1>7, <2>2 DEF env
<1>8. CASE 1 \notin found /\ 2 \notin found /\ 3 \notin found
  <2>1. found = {}
    BY <1>2, <1>8
  <2> QED
    BY <1>2, <1>3, <1>8, <2>1 DEF env
<1> QED
  BY <1>5, <1>6, <1>7, <1>8

LEMMA LookupInTwo ==
  ASSUME NEW a, NEW b, NEW rule
  PROVE  environment_lookup(<<a, b>>, rule)
           = IF Has(a, rule) THEN a[rule] ELSE IF Has(b, rule) THEN b[rule]
             ELSE UNDEFINED
<1> DEFINE env == <<a, b>>
           found == {i \in DOMAIN env : /\ rule \in DOMAIN env[i]
                                        /\ env[i][rule] # UNDEFINED}
<1>1. /\ DOMAIN env = 1..2 /\ env[1] = a /\ env[2] = b
  OBVIOUS
<1>2. /\ found \subseteq 1..2
      /\ 1 \in found <=> Has(a, rule)
      /\ 2 \in found <=> Has(b, rule)
  BY <1>1 DEF Has
<1>3. environment_lookup(env, rule)
        = IF found = {} THEN UNDEFINED
          ELSE env[CHOOSE i \in found : \A j \in found : i <= j][rule]
  BY DEF environment_lookup
<1> HIDE DEF env, found
<1>4. ASSUME NEW i \in 1..2, i \in found, \A j \in found : i <= j
      PROVE  (CHOOSE k \in found : \A j \in found : k <= j) = i
  <2>1. \A k \in found : k \in 1..2
    BY <1>2
  <2>2. \A k \in found : (\A j \in found : k <= j) => k = i
    BY <1>4, <2>1
  <2> QED
    BY <1>4, <2>2
<1>5. CASE 1 \in found
  <2>1. \A j \in found : 1 <= j
    BY <1>2
  <2>2. (CHOOSE k \in found : \A j \in found : k <= j) = 1
    BY <1>4, <1>5, <2>1
  <2> QED
    BY <1>1, <1>2, <1>3, <1>5, <2>2 DEF env
<1>6. CASE 1 \notin found /\ 2 \in found
  <2>1. \A j \in found : 2 <= j
    BY <1>2, <1>6
  <2>2. (CHOOSE k \in found : \A j \in found : k <= j) = 2
    BY <1>4, <1>6, <2>1
  <2> QED
    BY <1>1, <1>2, <1>3, <1>6, <2>2 DEF env
<1>7. CASE 1 \notin found /\ 2 \notin found
  <2>1. found = {}
    BY <1>2, <1>7
  <2> QED
    BY <1>2, <1>3, <1>7, <2>1 DEF env
<1> QED
  BY <1>5, <1>6, <1>7

(* The set-up overwrites the two kinds of strings, and nothing else.       *)
LEMMA SetUpEntries ==
  /\ DOMAIN setup_connection_env(0) = DOMAIN ConnectionRules \cup SetUp
  /\ \A rule \in SetUp : setup_connection_env(0)[rule].type = "FUNCTION"
  /\ \A rule \in DOMAIN ConnectionRules \ SetUp :
       setup_connection_env(0)[rule] = ConnectionRules[rule]
BY DEF setup_connection_env, overwrite_rule_with_chaos, grammar_insert, SetUp,
       new_function_grammar_entry

(* A rule that no constructor has overwritten is found as it was read.     *)
LEMMA ReadIsFound ==
  ASSUME NEW grammar, NEW rule, rule \notin DOMAIN grammar, rule \notin SetUp
  PROVE  environment_lookup(<<grammar, setup_connection_env(0), ProtocolRules>>, rule)
           = environment_lookup(<<ConnectionRules, ProtocolRules>>, rule)
<1> DEFINE c == setup_connection_env(0)
<1>1. ~ Has(grammar, rule)
  BY DEF Has
<1>2. /\ Has(c, rule) <=> Has(ConnectionRules, rule)
      /\ Has(c, rule) => c[rule] = ConnectionRules[rule]
  BY SetUpEntries DEF Has
<1> HIDE DEF c
<1>3. environment_lookup(<<grammar, c, ProtocolRules>>, rule)
        = IF Has(grammar, rule) THEN grammar[rule]
          ELSE IF Has(c, rule) THEN c[rule]
          ELSE IF Has(ProtocolRules, rule) THEN ProtocolRules[rule] ELSE UNDEFINED
  BY LookupInThree
<1>4. environment_lookup(<<ConnectionRules, ProtocolRules>>, rule)
        = IF Has(ConnectionRules, rule) THEN ConnectionRules[rule]
          ELSE IF Has(ProtocolRules, rule) THEN ProtocolRules[rule] ELSE UNDEFINED
  BY LookupInTwo
<1> QED
  BY <1>1, <1>2, <1>3, <1>4 DEF c

-----------------------------------------------------------------------------
(* What the constructors have written, without chaos                       *)

(* What a statement leaves behind.                                         *)
WrittenBy(grammar, s) ==
  IF s.set = "rule" THEN HasEntry(grammar, s.rule, s.entry)
  ELSE \E d \in Seq(Octet) :
         /\ HasEntry(grammar, s.rule, new_byte_array_grammar_entry(d))
         /\ HasEntry(grammar, s.length_rule,
                     new_byte_array_grammar_entry(SizeOctets(Len(d))))

PayloadIsStartOk(grammar) ==
  \E d \in Seq(Octet) :
    /\ HasEntry(grammar, "method-payload", new_byte_array_grammar_entry(d))
    /\ IsStartOk(d)

GrammarDecodes(grammar) ==
  \A rule \in DOMAIN grammar : DecodableEntry(grammar[rule])

Orderly ==
  /\ connection_grammar = setup_connection_env(0)
  /\ DOMAIN mutable_grammar \subseteq Overwritten
  /\ GrammarDecodes(mutable_grammar)
  /\ \A i \in 1..statement : WrittenBy(mutable_grammar, Program[method][i])
  /\ statement = Len(Program[method]) /\ method = "start_ok" =>
       PayloadIsStartOk(mutable_grammar)
  /\ packet # <<>> => /\ statement = Len(Program[method])
                      /\ packet \in decode_rule("method", result_env)

OrderlyInv == Running /\ (RULE_CHAOS = 0 => Orderly)

(* An environment of such a grammar decodes every rule to octets.          *)
LEMMA OverwrittenAreTargets ==
  ASSUME Running, NEW rule, rule \in Overwritten
  PROVE  \E i \in 1..Len(Program[method]) : rule \in Targets(Program[method][i])
<1>1. Overwritten = NamedBy(method, statement)
  BY DEF Overwritten, NamedBy
<1>2. /\ method \in Methods /\ statement \in 0..Len(Program[method])
      /\ Len(Program[method]) \in Nat
  BY ConstructorsAssumption DEF Running
<1>3. NamedBy(method, statement)
        = UNION {Targets(Program[method][i]) : i \in 1..statement}
  BY <1>2, NamedAreTargets
<1>4. PICK i \in 1..statement : rule \in Targets(Program[method][i])
  BY <1>1, <1>3
<1>5. i \in 1..Len(Program[method])
  BY <1>2
<1> QED
  BY <1>4, <1>5

LEMMA PlainIsFound ==
  ASSUME Running, Orderly, NEW rule, NEW elements, Plain(rule, elements)
  PROVE  Finds(result_env, rule, elements)
<1>1. /\ rule \in STRING /\ rule \notin SetUp
      /\ environment_lookup(<<ConnectionRules, ProtocolRules>>, rule)
           = new_string_grammar_entry(elements)
      /\ \A i \in 1..Len(Program[method]) : rule \notin Targets(Program[method][i])
  BY DEF Plain, Read, Running
<1>2. rule \notin DOMAIN mutable_grammar
  BY <1>1, OverwrittenAreTargets DEF Orderly
<1>3. result_env = <<mutable_grammar, setup_connection_env(0), ProtocolRules>>
  BY DEF result_env, new_environment, Orderly
<1> QED
  BY <1>1, <1>2, <1>3, ReadIsFound DEF Finds

LEMMA WrittenIsFound ==
  ASSUME NEW rule, NEW entry, HasEntry(mutable_grammar, rule, entry),
         entry # UNDEFINED
  PROVE  environment_lookup(result_env, rule) = entry
<1>1. Has(mutable_grammar, rule)
  BY DEF Has, HasEntry
<1>2. environment_lookup(<<mutable_grammar, connection_grammar, ProtocolRules>>, rule)
        = mutable_grammar[rule]
  BY <1>1, LookupInThree
<1> QED
  BY <1>2 DEF result_env, new_environment, HasEntry

LEMMA OctetsAreFound ==
  ASSUME NEW rule \in STRING, NEW octets \in Seq(Octet),
         HasEntry(mutable_grammar, rule, new_byte_array_grammar_entry(octets))
  PROVE  FindsOctets(result_env, rule, octets)
<1>1. new_byte_array_grammar_entry(octets) # UNDEFINED
  <2>1. /\ new_byte_array_grammar_entry(octets).type = "BYTE_ARRAY"
        /\ UNDEFINED.type = "NULL"
    BY DEF new_byte_array_grammar_entry, UNDEFINED
  <2> QED
    BY <2>1
<1> QED
  BY <1>1, WrittenIsFound DEF FindsOctets

LEMMA OrderlyEnvironment ==
  ASSUME Running, Orderly
  PROVE  DecodableEnvironment(result_env)
<1>1. /\ DOMAIN result_env = 1..3
      /\ result_env[1] = mutable_grammar
      /\ result_env[2] = setup_connection_env(0)
      /\ result_env[3] = ProtocolRules
  BY DEF result_env, new_environment, Orderly
<1>2. /\ GrammarDecodes(mutable_grammar) /\ GrammarDecodes(ProtocolRules)
      /\ GrammarDecodes(ConnectionRules)
  BY EntriesAssumption DEF Orderly, GrammarDecodes
<1>3. GrammarDecodes(setup_connection_env(0))
  <2> SUFFICES ASSUME NEW rule \in DOMAIN setup_connection_env(0)
               PROVE  DecodableEntry(setup_connection_env(0)[rule])
    BY DEF GrammarDecodes
  <2>1. CASE rule \in SetUp
    BY <2>1, SetUpEntries DEF DecodableEntry
  <2>2. CASE rule \notin SetUp
    <3>1. /\ rule \in DOMAIN ConnectionRules
          /\ setup_connection_env(0)[rule] = ConnectionRules[rule]
      BY <2>2, SetUpEntries
    <3> QED
      BY <1>2, <3>1 DEF GrammarDecodes
  <2> QED
    BY <2>1, <2>2
<1>4. ASSUME NEW rule PROVE DecodableEntry(environment_lookup(result_env, rule))
  <2>1. \/ environment_lookup(result_env, rule) = UNDEFINED
        \/ \E i \in 1..3 :
             /\ rule \in DOMAIN result_env[i]
             /\ environment_lookup(result_env, rule) = result_env[i][rule]
    BY <1>1, LookupFinds
  <2>2. CASE environment_lookup(result_env, rule) = UNDEFINED
    BY <2>2 DEF DecodableEntry
  <2>3. CASE \E i \in 1..3 :
               /\ rule \in DOMAIN result_env[i]
               /\ environment_lookup(result_env, rule) = result_env[i][rule]
    <3>1. PICK i \in 1..3 :
            /\ rule \in DOMAIN result_env[i]
            /\ environment_lookup(result_env, rule) = result_env[i][rule]
      BY <2>3
    <3>2. GrammarDecodes(result_env[i])
      BY <1>1, <1>2, <1>3
    <3> QED
      BY <3>1, <3>2 DEF GrammarDecodes
  <2> QED
    BY <2>1, <2>2, <2>3
<1>5. Finds(result_env, "OCTET", <<Between(<<0>>, <<Octets - 1>>)>>)
  BY FrameAssumption, PlainIsFound
<1> QED
  BY <1>4, <1>5 DEF DecodableEnvironment, Finds

(* What is inserted, and what is not, is there afterwards.                 *)
LEMMA InsertedEntries ==
  ASSUME NEW grammar, NEW rule, NEW entry
  PROVE  LET new == grammar_insert(grammar, rule, entry)
         IN  /\ DOMAIN new = DOMAIN grammar \cup {rule}
             /\ HasEntry(new, rule, entry)
             /\ \A other, e : HasEntry(grammar, other, e) /\ other # rule =>
                                HasEntry(new, other, e)
             /\ GrammarDecodes(grammar) /\ DecodableEntry(entry) =>
                  GrammarDecodes(new)
BY DEF grammar_insert, HasEntry, GrammarDecodes

LEMMA WrittenStays ==
  ASSUME NEW grammar, NEW rule, NEW entry, NEW s,
         s.set \in {"rule", "length"}, rule \notin Targets(s),
         WrittenBy(grammar, s)
  PROVE  WrittenBy(grammar_insert(grammar, rule, entry), s)
<1>1. \A other, e : HasEntry(grammar, other, e) /\ other # rule =>
        HasEntry(grammar_insert(grammar, rule, entry), other, e)
  BY InsertedEntries
<1>2. CASE s.set = "rule"
  BY <1>1, <1>2 DEF WrittenBy, Targets
<1>3. CASE s.set = "length"
  BY <1>1, <1>3 DEF WrittenBy, Targets
<1> QED
  BY <1>2, <1>3

LEMMA ElementsAreFound ==
  ASSUME NEW rule \in STRING, NEW elements,
         HasEntry(mutable_grammar, rule, new_string_grammar_entry(elements))
  PROVE  Finds(result_env, rule, elements)
<1>1. new_string_grammar_entry(elements) # UNDEFINED
  <2>1. /\ new_string_grammar_entry(elements).type = "STRING"
        /\ UNDEFINED.type = "NULL"
    BY DEF new_string_grammar_entry, UNDEFINED
  <2> QED
    BY <2>1
<1> QED
  BY <1>1, WrittenIsFound DEF Finds

(* Before its last statement START-OK has what its payload is made of.     *)
LEMMA PayloadIsRead ==
  ASSUME Running, Orderly, statement + 1 = Len(Program[method]),
         NEW elements, Read("method-payload", elements)
  PROVE  Finds(result_env, "method-payload", elements)
<1>1. /\ method \in Methods /\ statement \in Nat
      /\ Len(Program[method]) \in Nat /\ Len(Program[method]) > 0
      /\ Program[method][Len(Program[method])]
           = SetsLength("method-payload", "payload-size")
      /\ "method-payload" \in STRING
  BY FrameAssumption, ConstructorsAssumption DEF Running
<1>2. PICK n \in 1..Len(Program[method]) : n = Len(Program[method])
  BY <1>1
<1>3. "method-payload" \in Targets(Program[method][n])
  BY <1>1, <1>2 DEF Targets, SetsLength
<1>4. /\ "method-payload" \notin SetUp
      /\ \A i \in 1..Len(Program[method]) :
           i # n => "method-payload" \notin Targets(Program[method][i])
  BY <1>1, <1>3, StatementTargets
<1>5. "method-payload" \notin Overwritten
  <2>1. Overwritten = NamedBy(method, statement)
    BY DEF Overwritten, NamedBy
  <2>2. statement \in 0..Len(Program[method])
    BY DEF Running
  <2>3. NamedBy(method, statement)
          = UNION {Targets(Program[method][i]) : i \in 1..statement}
    BY <1>1, <2>2, NamedAreTargets
  <2>4. \A i \in 1..statement : i \in 1..Len(Program[method]) /\ i # n
    BY <1>1, <1>2
  <2> QED
    BY <1>4, <2>1, <2>3, <2>4
<1>6. result_env = <<mutable_grammar, setup_connection_env(0), ProtocolRules>>
  BY DEF result_env, new_environment, Orderly
<1>7. "method-payload" \notin DOMAIN mutable_grammar
  BY <1>5 DEF Orderly
<1>8. environment_lookup(result_env, "method-payload")
        = environment_lookup(<<ConnectionRules, ProtocolRules>>, "method-payload")
  BY <1>4, <1>6, <1>7, ReadIsFound
<1> QED
  BY <1>1, <1>8 DEF Finds, Read

LEMMA StartOkIsFound ==
  ASSUME Octets = 256, Running, Orderly, method = "start_ok",
         statement + 1 = Len(Program[method])
  PROVE  \E p, q : StartOkFound(result_env, p, q)
<1>1. /\ "start_ok" \in Methods /\ statement \in Nat
      /\ Len(Program["start_ok"]) \in Nat
      /\ Len(Program["start_ok"]) - 1 = statement
  BY ConstructorsAssumption DEF Running
<1>2. \A s \in {[set |-> "rule", rule |-> "method-id", entry |->
                   new_string_grammar_entry(<<Rule("m11-method-id")>>)],
                 [set |-> "rule", rule |-> "method-properties", entry |->
                   new_string_grammar_entry(<<Rule("m11-method-properties")>>)],
                 SetsLength("client-properties-payload",
                            "client-properties-length"),
                 SetsLength("message", "message-length")} :
         WrittenBy(mutable_grammar, s)
  BY <1>1, StartOkAssumption DEF Orderly
<1>3. {"method-id", "method-properties", "client-properties-length",
       "client-properties-payload", "message-length", "message"} \subseteq STRING
  BY StartOkAssumption
<1>4. /\ HasEntry(mutable_grammar, "method-id",
                  new_string_grammar_entry(<<Rule("m11-method-id")>>))
      /\ HasEntry(mutable_grammar, "method-properties",
                  new_string_grammar_entry(<<Rule("m11-method-properties")>>))
  BY <1>2 DEF WrittenBy
<1>5. /\ WrittenBy(mutable_grammar, SetsLength("client-properties-payload",
                                               "client-properties-length"))
      /\ WrittenBy(mutable_grammar, SetsLength("message", "message-length"))
  BY <1>2
<1>6. \A rule, length_rule :
        WrittenBy(mutable_grammar, SetsLength(rule, length_rule)) =>
          \E d \in Seq(Octet) :
            /\ HasEntry(mutable_grammar, rule, new_byte_array_grammar_entry(d))
            /\ HasEntry(mutable_grammar, length_rule,
                        new_byte_array_grammar_entry(SizeOctets(Len(d))))
  BY DEF WrittenBy, SetsLength
<1>7. PICK p \in Seq(Octet) :
        /\ HasEntry(mutable_grammar, "client-properties-payload",
                    new_byte_array_grammar_entry(p))
        /\ HasEntry(mutable_grammar, "client-properties-length",
                    new_byte_array_grammar_entry(SizeOctets(Len(p))))
  BY <1>5, <1>6
<1>8. PICK q \in Seq(Octet) :
        /\ HasEntry(mutable_grammar, "message", new_byte_array_grammar_entry(q))
        /\ HasEntry(mutable_grammar, "message-length",
                    new_byte_array_grammar_entry(SizeOctets(Len(q))))
  BY <1>5, <1>6
<1>9. /\ FindsOctets(result_env, "client-properties-payload", p)
      /\ FindsOctets(result_env, "client-properties-length", SizeOctets(Len(p)))
      /\ FindsOctets(result_env, "message", q)
      /\ FindsOctets(result_env, "message-length", SizeOctets(Len(q)))
  <2>1. SizeOctets(Len(p)) \in Seq(Octet) /\ SizeOctets(Len(q)) \in Seq(Octet)
    BY SizeIsFour, LenProperties
  <2> QED
    BY <1>3, <1>7, <1>8, <2>1, OctetsAreFound
<1>10. /\ Finds(result_env, "method-id", <<Rule("m11-method-id")>>)
       /\ Finds(result_env, "method-properties", <<Rule("m11-method-properties")>>)
  BY <1>3, <1>4, ElementsAreFound
<1>11. Finds(result_env, "method-payload",
             <<Rule("class-id"), Rule("method-id"), Rule("method-properties")>>)
  BY StartOkAssumption, PayloadIsRead
<1>12. /\ Finds(result_env, "class-id", <<Symbol(<<0, 10>>)>>)
       /\ Finds(result_env, "m11-method-id", <<Symbol(<<0, 11>>)>>)
       /\ Finds(result_env, "m11-method-properties",
                <<Rule("client-properties"), Rule("mechanism"),
                  Rule("response"), Rule("locale")>>)
       /\ Finds(result_env, "client-properties",
                <<Rule("client-properties-length"),
                  Rule("client-properties-payload")>>)
  BY StartOkAssumption, PlainIsFound
<1>13. /\ Finds(result_env, "mechanism",
                <<Symbol(<<5>>), Symbol(<<80, 76, 65, 73, 78>>)>>)
       /\ Finds(result_env, "response", <<Rule("message-length"), Rule("message")>>)
       /\ Finds(result_env, "locale",
                <<Symbol(<<5>>), Symbol(<<101, 110, 95, 85, 83>>)>>)
  BY StartOkAssumption, PlainIsFound
<1> QED
  BY <1>9, <1>10, <1>11, <1>12, <1>13 DEF StartOkFound

LEMMA OrderlyInit == ChaosInit => OrderlyInv
<1> SUFFICES ASSUME ChaosInit PROVE OrderlyInv
  OBVIOUS
<1>1. /\ connection_grammar = setup_connection_env(RULE_CHAOS)
      /\ method \in Methods /\ statement = 0 /\ mutable_grammar = <<>>
      /\ packet = <<>>
  BY DEF ChaosInit
<1>2. Running
  BY ChaosInitInv DEF ChaosInv
<1>3. DOMAIN mutable_grammar = {} /\ 1..statement = {}
  BY <1>1
<1>4. statement # Len(Program[method])
  BY <1>1, FrameAssumption, ConstructorsAssumption
<1>5. GrammarDecodes(mutable_grammar)
  BY <1>3 DEF GrammarDecodes
<1> QED
  BY <1>1, <1>2, <1>3, <1>4, <1>5 DEF OrderlyInv, Orderly

(* What the statements before have written is not overwritten by this one. *)
LEMMA WrittenBefore ==
  ASSUME Running, statement < Len(Program[method]), NEW i \in 1..statement
  PROVE  /\ Program[method][i].set \in {"rule", "length"}
         /\ Targets(Current) \cap Targets(Program[method][i]) = {}
<1>1. /\ method \in Methods /\ statement \in Nat /\ Len(Program[method]) \in Nat
  BY ConstructorsAssumption DEF Running
<1>2. PICK n \in 1..Len(Program[method]) : n = statement + 1
  BY <1>1
<1>3. i \in 1..Len(Program[method]) /\ i # n
  BY <1>1, <1>2
<1>4. Harmless(Program[method][i])
  BY <1>1, <1>3, StatementTargets
<1>5. Targets(Program[method][n]) \cap Targets(Program[method][i]) = {}
  BY <1>1, <1>3, StatementTargets
<1> QED
  BY <1>2, <1>4, <1>5 DEF Harmless, Current

(* The last statement is the one that sets the length of the payload.      *)
LEMMA LastStatement ==
  ASSUME Running, statement + 1 = Len(Program[method])
  PROVE  Current = SetsLength("method-payload", "payload-size")
BY FrameAssumption DEF Running, Current

LEMMA RuleStepOrderly ==
  ASSUME OrderlyInv, OverwriteRule, RULE_CHAOS = 0
  PROVE  Orderly'
<1> DEFINE rule == Current.rule
           entry == Current.entry
           new == grammar_insert(mutable_grammar, rule, entry)
<1>1. /\ Running /\ Orderly
      /\ statement < Len(Program[method]) /\ Current.set = "rule"
      /\ mutable_grammar' = overwrite(mutable_grammar, rule, entry)
      /\ statement' = statement + 1
      /\ UNCHANGED <<RULE_CHAOS, connection_grammar, method, packet>>
  BY DEF OrderlyInv, OverwriteRule
<1>2. mutable_grammar' = new
  BY <1>1 DEF overwrite, overwrite_rule_with_chaos
<1>3. /\ Running'
      /\ Overwritten' = Overwritten \cup {rule}
      /\ Targets(Current) = {rule}
  BY <1>1, StatementAdds DEF Targets
<1>4. /\ method \in Methods /\ statement \in Nat /\ Len(Program[method]) \in Nat
  BY ConstructorsAssumption, <1>1 DEF Running
<1>5. DecodableEntry(entry)
  <2>1. statement + 1 \in 1..Len(Program[method])
    BY <1>1, <1>4
  <2> QED
    BY <1>1, <1>4, <2>1, EntriesAssumption DEF Current
<1>6. /\ DOMAIN new = DOMAIN mutable_grammar \cup {rule}
      /\ HasEntry(new, rule, entry)
      /\ GrammarDecodes(mutable_grammar) => GrammarDecodes(new)
  BY <1>5, InsertedEntries
<1>7. \A i \in 1..statement : WrittenBy(new, Program[method][i])
  <2> TAKE i \in 1..statement
  <2>1. /\ Program[method][i].set \in {"rule", "length"}
        /\ rule \notin Targets(Program[method][i])
    BY <1>1, <1>3, WrittenBefore
  <2>2. WrittenBy(mutable_grammar, Program[method][i])
    BY <1>1 DEF Orderly
  <2> QED
    BY <2>1, <2>2, WrittenStays
<1>8. WrittenBy(new, Current)
  BY <1>1, <1>6 DEF WrittenBy
<1> HIDE DEF new, rule, entry
<1>9. \A i \in 1..(statement + 1) : WrittenBy(new, Program[method][i])
  <2> TAKE i \in 1..(statement + 1)
  <2>1. i \in 1..statement \/ i = statement + 1
    BY <1>4
  <2> QED
    BY <1>7, <1>8, <2>1 DEF Current
<1>10. packet' = <<>>
  BY <1>1, <1>4 DEF Orderly
<1>11. ~(statement' = Len(Program[method]))
  <2> SUFFICES ASSUME statement + 1 = Len(Program[method]) PROVE FALSE
    BY <1>1
  <2>1. Current.set = "length"
    BY <1>1, LastStatement DEF SetsLength
  <2> QED
    BY <1>1, <2>1
<1>12. /\ connection_grammar' = setup_connection_env(0)
       /\ DOMAIN mutable_grammar' \subseteq Overwritten'
       /\ GrammarDecodes(mutable_grammar')
  BY <1>1, <1>2, <1>3, <1>6 DEF Orderly
<1> QED
  BY <1>1, <1>2, <1>9, <1>10, <1>11, <1>12 DEF Orderly, GrammarDecodes, WrittenBy,
     HasEntry

LEMMA LengthStepOrderly ==
  ASSUME Octets = 256, OrderlyInv, OverwriteLength, RULE_CHAOS = 0
  PROVE  Orderly'
<1> DEFINE rule == Current.rule
           length_rule == Current.length_rule
<1>1. /\ Running /\ Orderly
      /\ statement < Len(Program[method]) /\ Current.set = "length"
      /\ statement' = statement + 1
      /\ UNCHANGED <<RULE_CHAOS, connection_grammar, method, packet>>
  BY DEF OrderlyInv, OverwriteLength
<1>2. PICK made \in decode_rule(rule, result_env) :
        mutable_grammar' = overwrite_rule_set_length(mutable_grammar, rule,
                                                     length_rule, made)
  BY DEF OverwriteLength
<1> DEFINE octets == new_byte_array_grammar_entry(made)
           size == new_byte_array_grammar_entry(SizeOctets(Len(made)))
           first == grammar_insert(mutable_grammar, rule, octets)
           new == grammar_insert(first, length_rule, size)
<1>3. mutable_grammar' = new
  BY <1>1, <1>2 DEF overwrite_rule_set_length, overwrite, overwrite_rule_with_chaos
<1>4. /\ Running'
      /\ Overwritten' = Overwritten \cup {rule, length_rule}
      /\ Targets(Current) = {rule, length_rule}
      /\ length_rule # rule /\ rule \in STRING
  <2>1. /\ Running' /\ Harmless(Current)
        /\ Targets(Current) \subseteq RuleNames
        /\ Overwritten' = Overwritten \cup Targets(Current)
    BY <1>1, StatementAdds
  <2>2. Targets(Current) = {rule, length_rule} /\ length_rule # rule
    BY <1>1, <2>1 DEF Targets, Harmless
  <2> QED
    BY <2>1, <2>2, NamesAssumption
<1>5. /\ method \in Methods /\ statement \in Nat /\ Len(Program[method]) \in Nat
  BY ConstructorsAssumption, <1>1 DEF Running
<1>6. made \in Seq(Octet)
  <2>1. DecodableEnvironment(result_env)
    BY <1>1, OrderlyEnvironment
  <2>2. Deepest \in 0..Deepest
    BY DeepestAssumption
  <2>3. OctetRules(Decodings(result_env)[Deepest])
    BY <2>1, <2>2, TableOctets
  <2> QED
    BY <1>2, <1>4, <2>3 DEF OctetRules, decode_rule
<1>7. DecodableEntry(octets) /\ DecodableEntry(size)
  <2>1. SizeOctets(Len(made)) \in Seq(Octet)
    BY <1>6, SizeIsFour, LenProperties
  <2> QED
    BY <1>6, <2>1 DEF DecodableEntry, new_byte_array_grammar_entry
<1> HIDE DEF octets, size
<1>8. /\ DOMAIN first = DOMAIN mutable_grammar \cup {rule}
      /\ HasEntry(first, rule, octets)
      /\ GrammarDecodes(mutable_grammar) => GrammarDecodes(first)
  BY <1>7, InsertedEntries
<1> HIDE DEF first
<1>9. /\ DOMAIN new = DOMAIN first \cup {length_rule}
      /\ HasEntry(new, length_rule, size) /\ HasEntry(new, rule, octets)
      /\ GrammarDecodes(first) => GrammarDecodes(new)
  BY <1>4, <1>7, <1>8, InsertedEntries
<1>10. \A i \in 1..statement : WrittenBy(new, Program[method][i])
  <2> TAKE i \in 1..statement
  <2>1. /\ Program[method][i].set \in {"rule", "length"}
        /\ rule \notin Targets(Program[method][i])
        /\ length_rule \notin Targets(Program[method][i])
    BY <1>1, <1>4, WrittenBefore
  <2>2. WrittenBy(mutable_grammar, Program[method][i])
    BY <1>1 DEF Orderly
  <2>3. WrittenBy(first, Program[method][i])
    BY <2>1, <2>2, WrittenStays DEF first
  <2> QED
    BY <2>1, <2>3, WrittenStays
<1>11. WrittenBy(new, Current)
  BY <1>1, <1>6, <1>9 DEF WrittenBy, octets, size
<1> HIDE DEF new
<1>12. \A i \in 1..(statement + 1) : WrittenBy(new, Program[method][i])
  <2> TAKE i \in 1..(statement + 1)
  <2>1. i \in 1..statement \/ i = statement + 1
    BY <1>5
  <2> QED
    BY <1>10, <1>11, <2>1 DEF Current
<1>13. packet' = <<>>
  BY <1>1, <1>5 DEF Orderly
<1>14. ASSUME statement + 1 = Len(Program[method]), method = "start_ok"
       PROVE  PayloadIsStartOk(new)
  <2>1. rule = "method-payload"
    BY <1>1, <1>14, LastStatement DEF SetsLength
  <2>2. PICK p, q : StartOkFound(result_env, p, q)
    BY <1>1, <1>14, StartOkIsFound
  <2>3. DecodableEnvironment(result_env)
    BY <1>1, OrderlyEnvironment
  <2>4. made \in decode_rule("method-payload", result_env)
    BY <1>2, <2>1
  <2>5. IsStartOk(made)
    BY <2>2, <2>3, <2>4, StartOkDecoded
  <2> QED
    BY <1>6, <1>9, <2>1, <2>5 DEF PayloadIsStartOk, octets
<1> HIDE DEF rule, length_rule
<1>15. /\ connection_grammar' = setup_connection_env(0)
       /\ DOMAIN mutable_grammar' \subseteq Overwritten'
       /\ GrammarDecodes(mutable_grammar')
  BY <1>1, <1>3, <1>4, <1>8, <1>9 DEF Orderly
<1>16. statement' = Len(Program[method]) /\ method = "start_ok" =>
         PayloadIsStartOk(mutable_grammar')
  BY <1>1, <1>3, <1>14
<1> QED
  BY <1>1, <1>3, <1>12, <1>13, <1>15, <1>16 DEF Orderly, GrammarDecodes, WrittenBy,
     HasEntry, PayloadIsStartOk

LEMMA PacketStepOrderly ==
  ASSUME OrderlyInv, DecodeMethod, RULE_CHAOS = 0
  PROVE  Orderly'
<1>1. /\ Orderly /\ statement = Len(Program[method])
      /\ packet' \in decode_rule("method", result_env)
      /\ UNCHANGED <<RULE_CHAOS, connection_grammar, method, statement,
                     mutable_grammar>>
  BY DEF OrderlyInv, DecodeMethod
<1>2. result_env' = result_env /\ Overwritten' = Overwritten
  BY <1>1 DEF result_env, new_environment, Overwritten
<1> QED
  BY <1>1, <1>2 DEF Orderly, GrammarDecodes, WrittenBy, HasEntry, PayloadIsStartOk

LEMMA OrderlyNext ==
  ASSUME Octets = 256
  PROVE  OrderlyInv /\ [ChaosNext]_chaosVars => OrderlyInv'
<1> SUFFICES ASSUME OrderlyInv, [ChaosNext]_chaosVars PROVE OrderlyInv'
  OBVIOUS
<1>1. Running
  BY DEF OrderlyInv
<1>2. CASE OverwriteRule
  <2>1. Running' /\ RULE_CHAOS' = RULE_CHAOS
    BY <1>1, <1>2, StatementAdds DEF OverwriteRule
  <2> QED
    BY <1>2, <2>1, RuleStepOrderly DEF OrderlyInv
<1>3. CASE OverwriteLength
  <2>1. Running' /\ RULE_CHAOS' = RULE_CHAOS
    BY <1>1, <1>3, StatementAdds DEF OverwriteLength
  <2> QED
    BY <1>3, <2>1, LengthStepOrderly DEF OrderlyInv
<1>4. CASE DecodeMethod
  <2>1. Running' /\ RULE_CHAOS' = RULE_CHAOS
    BY <1>1, <1>4 DEF DecodeMethod, Running
  <2> QED
    BY <1>4, <2>1, PacketStepOrderly DEF OrderlyInv
<1>5. CASE UNCHANGED chaosVars
  <2>1. /\ UNCHANGED <<RULE_CHAOS, connection_grammar, method, statement,
                       mutable_grammar, packet>>
    BY <1>5 DEF chaosVars
  <2>2. result_env' = result_env /\ Overwritten' = Overwritten
    BY <2>1 DEF result_env, new_environment, Overwritten
  <2>3. Running'
    BY <1>1, <2>1 DEF Running
  <2> QED
    BY <2>1, <2>2, <2>3 DEF OrderlyInv, Orderly, GrammarDecodes, WrittenBy,
       HasEntry, PayloadIsStartOk
<1> QED
  BY <1>2, <1>3, <1>4, <1>5 DEF ChaosNext

(* Without rule chaos (overwrite_rule_with_chaos, level 0) a constructor   *)
(* has written what its statements say, and nothing else, at every point.  *)
THEOREM OrderlyInvariance == ASSUME Octets = 256 PROVE ChaosSpec => []OrderlyInv
<1>1. ChaosInit => OrderlyInv
  BY OrderlyInit
<1>2. OrderlyInv /\ [ChaosNext]_chaosVars => OrderlyInv'
  BY OrderlyNext
<1> QED BY <1>1, <1>2, PTL DEF ChaosSpec

-----------------------------------------------------------------------------
(* The lengths in a packet                                                 *)

LEMMA SmallerFits ==
  ASSUME Octets = 256, NEW n \in Nat, NEW m \in Nat, m <= n, FitsInt(n)
  PROVE  FitsInt(m)
<1>1. n \div 16777216 < 256
  BY Weights DEF FitsInt
<1>2. m \div 16777216 < 256
  BY SMT, <1>1
<1> QED
  BY <1>2, Weights DEF FitsInt

LEMMA FrameIsFound ==
  ASSUME Octets = 256, Running, Orderly, statement = Len(Program[method])
  PROVE  \E d : /\ FrameFound(result_env, d)
                /\ method = "start_ok" => IsStartOk(d)
<1>1. /\ method \in Methods /\ Len(Program[method]) > 0
      /\ Len(Program[method]) \in Nat
      /\ Program[method][Len(Program[method])]
           = SetsLength("method-payload", "payload-size")
      /\ {"method-payload", "payload-size"} \subseteq STRING
  BY FrameAssumption, ConstructorsAssumption DEF Running
<1>2. WrittenBy(mutable_grammar, SetsLength("method-payload", "payload-size"))
  <2>1. statement \in 1..statement
    BY <1>1
  <2> QED
    BY <1>1, <2>1 DEF Orderly
<1>3. PICK d \in Seq(Octet) :
        /\ HasEntry(mutable_grammar, "method-payload",
                    new_byte_array_grammar_entry(d))
        /\ HasEntry(mutable_grammar, "payload-size",
                    new_byte_array_grammar_entry(SizeOctets(Len(d))))
  BY <1>2 DEF WrittenBy, SetsLength
<1>4. /\ FindsOctets(result_env, "method-payload", d)
      /\ FindsOctets(result_env, "payload-size", SizeOctets(Len(d)))
  <2>1. SizeOctets(Len(d)) \in Seq(Octet)
    BY SizeIsFour, LenProperties
  <2> QED
    BY <1>1, <1>3, <2>1, OctetsAreFound
<1>5. /\ Finds(result_env, "method", <<Rule("method-frame")>>)
      /\ Finds(result_env, "method-frame",
               <<Symbol(<<1>>), Rule("frame-properties"),
                 Rule("method-payload"), Rule("frame-end")>>)
      /\ Finds(result_env, "frame-properties",
               <<Rule("channel"), Rule("payload-size")>>)
  BY FrameAssumption, PlainIsFound
<1>6. /\ Finds(result_env, "channel", <<Symbol(<<0, 0>>)>>)
      /\ Finds(result_env, "frame-end", <<Symbol(<<206>>)>>)
  BY FrameAssumption, PlainIsFound
<1>7. ASSUME method = "start_ok" PROVE IsStartOk(d)
  <2>1. PICK e \in Seq(Octet) :
          /\ HasEntry(mutable_grammar, "method-payload",
                      new_byte_array_grammar_entry(e))
          /\ IsStartOk(e)
    BY <1>7 DEF Orderly, PayloadIsStartOk
  <2>2. new_byte_array_grammar_entry(e).octets = new_byte_array_grammar_entry(d).octets
    BY <1>3, <2>1 DEF HasEntry
  <2>3. e = d
    BY <2>2 DEF new_byte_array_grammar_entry
  <2> QED
    BY <2>1, <2>3
<1> QED
  BY <1>4, <1>5, <1>6, <1>7 DEF FrameFound

LEMMA FrameLengths ==
  ASSUME Octets = 256, NEW d \in Seq(Octet), IsFrame(packet, d),
         FitsInt(Len(packet))
  PROVE  /\ FrameIsWhole
         /\ IsStartOk(d) => StartOkIsWhole
<1>1. /\ Len(packet) = Len(d) + 8
      /\ Within(packet, 3, SizeOctets(Len(d))) /\ Within(packet, 7, d)
  BY DEF IsFrame
<1>2. Len(d) \in Nat /\ Len(packet) \in Nat
  BY <1>1, LenProperties
<1>3. FitsInt(Len(d))
  BY <1>1, <1>2, SmallerFits
<1>4. Unsigned32(packet[3 + 1], packet[3 + 2], packet[3 + 3], packet[3 + 4]) = Len(d)
  BY <1>1, <1>2, <1>3, LengthIsRead DEF SizeOctets
<1>5. Unsigned32At(4) = Len(d)
  BY <1>4 DEF Unsigned32At
<1>6. FrameIsWhole
  BY <1>1, <1>2, <1>5 DEF FrameIsWhole
<1>7. ASSUME IsStartOk(d) PROVE StartOkIsWhole
  <2>1. PICK p \in Seq(Octet), q \in Seq(Octet) :
          /\ Len(d) = 24 + Len(p) + Len(q)
          /\ Within(d, 4, SizeOctets(Len(p)))
          /\ Within(d, 14 + Len(p), SizeOctets(Len(q)))
    BY <1>7 DEF IsStartOk
  <2>2. PICK P \in Nat, Q \in Nat : P = Len(p) /\ Q = Len(q)
    BY LenProperties
  <2>3. FitsInt(P) /\ FitsInt(Q)
    BY <1>2, <1>3, <2>1, <2>2, SmallerFits
  <2>4. /\ Within(packet, 7 + 4, InOctets(P, 4))
        /\ Within(packet, 7 + (14 + P), InOctets(Q, 4))
    BY <1>1, <2>1, <2>2, WithinWithin DEF SizeOctets
  <2>5. Unsigned32(packet[11 + 1], packet[11 + 2], packet[11 + 3], packet[11 + 4]) = P
    BY <2>3, <2>4, LengthIsRead
  <2>6. PICK k \in Nat : k = 21 + P
    BY <2>2
  <2>7. Within(packet, k, InOctets(Q, 4))
    BY <2>4, <2>6
  <2>8. Unsigned32(packet[k + 1], packet[k + 2], packet[k + 3], packet[k + 4]) = Q
    BY <2>3, <2>7, LengthIsRead
  <2>9. Unsigned32At(12) = P
    BY <2>5 DEF Unsigned32At
  <2>10. /\ k + 1 = 22 + P /\ k + 2 = (22 + P) + 1
         /\ k + 3 = (22 + P) + 2 /\ k + 4 = (22 + P) + 3
    BY <2>6
  <2>11. Unsigned32At(22 + P) = Q
    BY <2>8, <2>10 DEF Unsigned32At
  <2>12. /\ 25 + P <= Len(packet)
         /\ Len(packet) = 25 + P + Q + 6 + 1
    BY <1>1, <2>1, <2>2
  <2> QED
    BY <2>9, <2>11, <2>12 DEF StartOkIsWhole
<1> QED
  BY <1>6, <1>7

(* Without rule chaos every length that overwrite_rule_set_length has put  *)
(* into a packet is that of what follows it, if four octets can hold it.   *)
THEOREM LengthsAreThose ==
  ASSUME Octets = 256
  PROVE  ChaosSpec => [](FitsInt(Len(packet)) => LengthsAreTrue)
<1>1. OrderlyInv => (FitsInt(Len(packet)) => LengthsAreTrue)
  <2> SUFFICES ASSUME OrderlyInv, FitsInt(Len(packet)), packet # <<>>,
                      RULE_CHAOS = 0
               PROVE  FrameIsWhole /\ (method = "start_ok" => StartOkIsWhole)
    BY DEF LengthsAreTrue
  <2>1. /\ Running /\ Orderly /\ statement = Len(Program[method])
        /\ packet \in decode_rule("method", result_env)
    BY DEF OrderlyInv, Orderly
  <2>2. PICK d : /\ FrameFound(result_env, d)
                 /\ method = "start_ok" => IsStartOk(d)
    BY <2>1, FrameIsFound
  <2>3. d \in Seq(Octet)
    BY <2>2 DEF FrameFound, FindsOctets
  <2>4. DecodableEnvironment(result_env)
    BY <2>1, OrderlyEnvironment
  <2>5. IsFrame(packet, d)
    BY <2>1, <2>2, <2>4, FrameDecoded
  <2> QED
    BY <2>2, <2>3, <2>5, FrameLengths
<1> QED BY <1>1, OrderlyInvariance, PTL

(* Without rule chaos no draw ends the process (packet-generator.c 131 and *)
(* 255): what a constructor returns is octets.                             *)
THEOREM PacketsAreOctets ==
  ASSUME Octets = 256
  PROVE  ChaosSpec => [](RULE_CHAOS = 0 => packet \in Seq(Octet))
<1>1. OrderlyInv => (RULE_CHAOS = 0 => packet \in Seq(Octet))
  <2> SUFFICES ASSUME OrderlyInv, RULE_CHAOS = 0 PROVE packet \in Seq(Octet)
    OBVIOUS
  <2>1. CASE packet = <<>>
    BY <2>1
  <2>2. CASE packet # <<>>
    <3>1. /\ Running /\ Orderly
          /\ packet \in decode_rule("method", result_env)
      BY <2>2 DEF OrderlyInv, Orderly
    <3>2. DecodableEnvironment(result_env) /\ Deepest \in 0..Deepest
      BY <3>1, OrderlyEnvironment, DeepestAssumption
    <3>3. OctetRules(Decodings(result_env)[Deepest])
      BY <3>2, TableOctets
    <3>4. "method" \in STRING
      BY FrameAssumption DEF Plain
    <3> QED
      BY <3>1, <3>3, <3>4 DEF OctetRules, decode_rule
  <2> QED
    BY <2>1, <2>2
<1> QED BY <1>1, OrderlyInvariance, PTL
===============================================================================

------------------------------ MODULE MCGenerator ------------------------------
(***************************************************************************)
(* The parts of the packet generator for TLC, side by side: they are       *)
(* sequential and share no state, and a behaviour is one of one of them.   *)
(* The other parts are as if they were over.                               *)
(***************************************************************************)
EXTENDS Buffers, RuleChaos, Constructors, Decoding

VARIABLES
  part,
  file, pad, read, grammar, crashed  \* GrammarFile

-----------------------------------------------------------------------------
(* Every draw where there are few, a string of some length, and else       *)
(* the lowest: an octet is the lowest of its range.  The choice between    *)
(* raw and ordered rules is free.                                          *)
FewDraws(m) ==
  IF m \in -5..5 THEN Draws(m)
  ELSE IF m = RULE_REPETITION_INFTY THEN {3} ELSE {0}

(* The rules of the grammars and what the constructors put in their place: *)
(* each above those it is made of.                                         *)
BottomUp ==
  <<{"OCTET", "frame-end", "channel", "string-char", "class-id",
     "m11-method-id", "mechanism", "locale", "client-properties-length",
     "client-properties-payload", "message-length", "m31-method-id",
     "m40-method-id", "virtual-host", "m50-method-id", "m51-method-id",
     "m51-method-properties", "shortstr", "UTF8NUL", "UTF1"},
    {"short-string", "long-uint", "method-id", "short-int", "long-int",
     "reply-text", "client-properties", "m40-method-properties",
     "m50-class-id-val", "SAFE"},
    {"long-string", "payload-size", "channel-max", "frame-max",
     "heartbeat-time", "reply-code", "m50-method-id-val", "authcid",
     "passwd"},
    {"frame-properties", "message", "m31-method-properties",
     "m50-method-properties"},
    {"response"},
    {"m11-method-properties"},
    {"method-properties"},
    {"method-payload"},
    {"method-frame"},
    {"method"}>>

(* What the constants of RuleChaos are given: TLC evaluates these at every *)
(* use, and what they stand for once.                                      *)
ConnectionFile == grammar_connection
OtherFiles     == spec_grammar
Statements     == Constructors

(* Bounds of one and of two octets, about the values where the number of   *)
(* octets changes and those of the octets do.                              *)
Bounds ==
  {<<h>> : h \in {0, 1, 2, 3, 4, 65, 254, 255}}
    \cup {<<h, l>> : h \in {0, 1, 2, 3, 255}, l \in {0, 1, 2, 254, 255}}

SomeElements ==
  {e \in {Between(low, high) : low \in Bounds, high \in Bounds} :
     Number(e.low) <= Number(e.high)}
    \cup {Repeat(min, max, Between(<<0>>, <<2>>)) :
            min \in 0..5, max \in 0..4}
    \cup {Rule("short-string"), Rule("long-string"), Rule("property-flags"),
          Quoted(<<97, 66>>), Optional}

WithoutChaos ==
  <<[name \in {"OCTET", "short-string", "long-string"} |->
       IF name = "OCTET"
       THEN new_string_grammar_entry(<<Between(<<0>>, <<255>>)>>)
       ELSE new_function_grammar_entry(
              IF name = "short-string" THEN "shortstring" ELSE "longstring")]>>

(* Files of two lines: rules, with alternatives and comments.              *)
Lines ==
  LET texts == {<<"x">>, <<"x", " ", "y">>, <<"\"", "=", "\"">>}
      comments == {<<>>, <<";", " ", "r", "=", "x">>, <<";", ";", "/", "y">>}
      Line(name, defined_as, alternatives, comment) ==
        [name |-> name, defined_as |-> defined_as,
         alternatives |-> alternatives, comment |-> comment]
  IN  {Line(n, <<"=">>, a, c) :
         n \in {<<"r">>, <<"s", "t">>},
         a \in {<<t>> : t \in texts}
                 \cup {<<t, u>> : t \in texts, u \in texts},
         c \in comments}
        \cup {Line(<<>>, <<>>, <<>>, c) : c \in comments}

-----------------------------------------------------------------------------
(* GrammarFile is an instance; the other parts are not.                    *)
F == INSTANCE GrammarFile WITH
       Files <- {<<k, l>> : k \in Lines, l \in Lines},
       WSP <- {<<>>, <<" ">>}

ASSUME FilesAssumption == F!GrammarFileAssumption

-----------------------------------------------------------------------------
buffersOver ==
  /\ caller = "repetition" /\ pc = "done" /\ parts = 0 /\ i = 0 /\ length = 0
  /\ position = 0 /\ real_length = 0 /\ allocated = 0
  /\ result = [j \in {} |-> 0]
decodingOver ==
  element = [kind |-> "optional"] /\ done = TRUE /\ decoded = <<>>
chaosOver ==
  /\ RULE_CHAOS = 0 /\ connection_grammar = <<>>
  /\ method = "close_ok" /\ statement = 0
  /\ mutable_grammar = <<>> /\ packet = <<>>
fileOver ==
  /\ file = <<>> /\ pad = <<>> /\ read = <<>>
  /\ grammar = <<>> /\ crashed = FALSE

GeneratorInit ==
  \/ part = "buffers"  /\ Init /\ decodingOver /\ chaosOver /\ fileOver
  \/ part = "decoding" /\ DecodingInit /\ buffersOver /\ chaosOver /\ fileOver
  \/ part = "chaos"    /\ ChaosInit /\ buffersOver /\ decodingOver /\ fileOver
  \/ part = "file"     /\ F!Init /\ buffersOver /\ decodingOver /\ chaosOver

fileVars     == <<file, pad, read, grammar, crashed>>

generatorVars == <<part, vars, decodingVars, chaosVars, fileVars>>

Buffer ==
  part = "buffers" /\ Next
    /\ UNCHANGED <<part, decodingVars, chaosVars, fileVars>>
Decoding ==
  part = "decoding" /\ DecodingNext /\ UNCHANGED <<part, vars, chaosVars, fileVars>>
Constructor ==
  part = "chaos" /\ ChaosNext
    /\ UNCHANGED <<part, vars, decodingVars, fileVars>>
File ==
  part = "file" /\ F!Next /\ UNCHANGED <<part, vars, decodingVars, chaosVars>>

GeneratorNext == Buffer \/ Decoding \/ Constructor \/ File

(* A sequential program that is not stopped; its loops are in Buffers.     *)
GeneratorSpec ==
  GeneratorInit /\ [][GeneratorNext]_generatorVars
    /\ WF_generatorVars(Buffer)

-----------------------------------------------------------------------------
(* The property of the part that is an instance.                           *)

(* grammar-parser.c 209-284: the grammar read is the grammar written.      *)
RulesAreRead == F!RulesAreRead
===============================================================================

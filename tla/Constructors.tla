------------------------------ MODULE Constructors -----------------------------
(***************************************************************************)
(* What the constructors of Connection.c do to write a packet: they        *)
(* overwrite rules in a grammar of their own, some of them with the        *)
(* lengths of others, before they decode `method'.                         *)
(***************************************************************************)
EXTENDS Grammars

Overwrite(rule, elements) ==
  [set |-> "rule", rule |-> rule, entry |-> new_string_grammar_entry(elements)]
OverwriteBytes(rule, octets) ==
  [set |-> "rule", rule |-> rule,
   entry |-> new_byte_array_grammar_entry(octets)]
SetLength(rule, length_rule) ==
  [set |-> "length", rule |-> rule, length_rule |-> length_rule]

(* What every constructor begins and ends with.                            *)
Method(id, properties, body) ==
  <<Overwrite("method-id", <<Rule(id)>>),
    Overwrite("method-properties", <<Rule(properties)>>)>>
  \o body \o <<SetLength("method-payload", "payload-size")>>

(* The statements of the constructors, in order.  tune_ok's numbers are    *)
(* those of TuneOk.                                                        *)
Constructors ==
  [start_ok |-> Method("m11-method-id", "m11-method-properties",
     <<SetLength("client-properties-payload", "client-properties-length"),
       Overwrite("authcid",
                 <<Quoted(<<117, 115, 101, 114, 110, 97, 109, 101>>)>>),
       Overwrite("passwd",
                 <<Quoted(<<112, 97, 115, 115, 119, 111, 114, 100>>)>>),
       SetLength("message", "message-length")>>),
   tune_ok |-> Method("m31-method-id", "m31-method-properties",
     <<OverwriteBytes("frame-max", <<0, 0, 0, 0>>),
       OverwriteBytes("channel-max", <<0, 1>>)>>),
   open |-> Method("m40-method-id", "m40-method-properties",
     <<Overwrite("virtual-host", <<Symbol(<<1, 47>>)>>)>>),
   close |-> Method("m50-method-id", "m50-method-properties",
     <<Overwrite("reply-code", <<Symbol(<<0, 200>>)>>),
       Overwrite("reply-text", <<Symbol(<<3, 50, 48, 48>>)>>),
       Overwrite("m50-class-id-val", <<Symbol(<<0, 0>>)>>),
       Overwrite("m50-method-id-val", <<Symbol(<<0, 0>>)>>)>>),
   close_ok |-> Method("m51-method-id", "m51-method-properties", <<>>)]
===============================================================================

-------------------------------- MODULE Grammars -------------------------------
(***************************************************************************)
(* The grammars of abnf/, as populate_grammar reads them: the rules that   *)
(* a packet of Connection.c can reach.  UTF2 to UTF4, characters of more   *)
(* than one octet, are left out of SAFE.                                   *)
(***************************************************************************)
EXTENDS Environments, TLC

Is(elements)             == new_string_grammar_entry(elements)
EitherOf(alternatives)   == new_str_array_grammar_entry(alternatives)
Rules(names)             == Is([i \in DOMAIN names |-> Rule(names[i])])
Times(number, rule)      == Is(<<Repeat(number, number, Rule(rule))>>)
AtLeast(number, rule)    == Repeat(number, RULE_REPETITION_INFTY, Rule(rule))

(* abnf/grammar-spec and abnf/grammar-abnf                                 *)
spec_grammar ==
  "OCTET"            :> Is(<<Between(<<0>>, <<255>>)>>)
    @@ "method-frame"     :> Is(<<Symbol(<<1>>), Rule("frame-properties"),
                                  Rule("method-payload"), Rule("frame-end")>>)
    @@ "frame-properties" :> Rules(<<"channel", "payload-size">>)
    @@ "payload-size"     :> Rules(<<"long-uint">>)
    @@ "method-id"        :> Is(<<Between(<<0, 1>>, <<255, 255>>)>>)
    @@ "long-uint"        :> Times(4, "OCTET")
    @@ "short-int"        :> Times(2, "OCTET")
    @@ "long-int"         :> Times(4, "OCTET")
    @@ "string-char"      :> Is(<<Between(<<1>>, <<255>>)>>)
    @@ "short-string"     :> Is(<<Rule("OCTET"), AtLeast(0, "string-char")>>)
    @@ "long-string"      :> Is(<<Rule("long-uint"), AtLeast(0, "OCTET")>>)
    @@ "frame-end"        :> Is(<<Symbol(<<206>>)>>)

(* abnf/grammar-connection                                                 *)
grammar_connection ==
  "method"             :> Rules(<<"method-frame">>)
    @@ "channel"            :> Is(<<Symbol(<<0, 0>>)>>)
    @@ "class-id"           :> Is(<<Symbol(<<0, 10>>)>>)
    @@ "method-payload"     :> Rules(<<"class-id", "method-id",
                                       "method-properties">>)
    @@ "m11-method-id"      :> Is(<<Symbol(<<0, 11>>)>>)
    @@ "m11-method-properties" :> Rules(<<"client-properties", "mechanism",
                                          "response", "locale">>)
    @@ "client-properties"  :> Rules(<<"client-properties-length",
                                       "client-properties-payload">>)
    @@ "client-properties-payload" :> Is(<<Symbol(<<0, 86>>)>>)
    @@ "mechanism"          :> Is(<<Symbol(<<5>>),
                                    Symbol(<<80, 76, 65, 73, 78>>)>>)
    @@ "response"           :> Rules(<<"message-length", "message">>)
    @@ "locale"             :> Is(<<Symbol(<<5>>),
                                    Symbol(<<101, 110, 95, 85, 83>>)>>)
    @@ "m31-method-id"      :> Is(<<Symbol(<<0, 31>>)>>)
    @@ "m31-method-properties" :> Rules(<<"channel-max", "frame-max",
                                          "heartbeat-time">>)
    @@ "channel-max"        :> Rules(<<"short-int">>)
    @@ "frame-max"          :> Rules(<<"long-int">>)
    @@ "heartbeat-time"     :> Rules(<<"short-int">>)
    @@ "m40-method-id"      :> Is(<<Symbol(<<0, 40>>)>>)
    @@ "m40-method-properties" :> Is(<<Rule("virtual-host"), Symbol(<<0>>),
                                       Symbol(<<0>>)>>)
    @@ "m50-method-id"      :> Is(<<Symbol(<<0, 50>>)>>)
    @@ "m50-method-properties" :> Rules(<<"reply-code", "reply-text",
                                  "m50-class-id-val", "m50-method-id-val">>)
    @@ "m50-class-id-val"   :> Rules(<<"class-id">>)
    @@ "m50-method-id-val"  :> Rules(<<"method-id">>)
    @@ "reply-code"         :> Rules(<<"short-int">>)
    @@ "reply-text"         :> Rules(<<"shortstr">>)
    @@ "m51-method-id"      :> Is(<<Symbol(<<0, 51>>)>>)
    @@ "message"            :> Is(<<Optional, Rule("UTF8NUL"),
                                    Rule("authcid"), Rule("UTF8NUL"),
                                    Rule("passwd")>>)
    @@ "authcid"            :> Is(<<AtLeast(1, "SAFE")>>)
    @@ "passwd"             :> Is(<<AtLeast(1, "SAFE")>>)
    @@ "UTF8NUL"            :> Is(<<Symbol(<<0>>)>>)
    @@ "SAFE"               :> EitherOf(<<<<Rule("UTF1")>>>>)
    @@ "UTF1"               :> Is(<<Between(<<1>>, <<127>>)>>)
===============================================================================

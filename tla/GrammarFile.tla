------------------------------- MODULE GrammarFile ------------------------------
(***************************************************************************)
(* How populate_grammar reads a grammar file (grammar-parser.c): one rule  *)
(* a line, cut by strtok at the first =, at the next ; and at every /.     *)
(*                                                                         *)
(* A string is a sequence of characters, and " " any white space.  The     *)
(* file is given as what its author means, and read as its text.           *)
(***************************************************************************)
EXTENDS Integers, SequencesExt

CONSTANTS
  Files,  \* sequences of lines [name, defined_as, alternatives, comment];
          \* a comment of its own has no name
  WSP     \* what may be written between the parts of a line

GrammarFileAssumption == WSP \subseteq {<<>>, <<" ">>}

VARIABLES
  file,     \* what fgets has not read yet
  pad,      \* the white space it is written with
  read,     \* the lines that were read
  grammar,  \* the hash table, from keys to entries
  crashed

vars == <<file, pad, read, grammar, crashed>>

-----------------------------------------------------------------------------
(* libc and glib                                                           *)

NULL == <<"NULL">>

(* The next token of s and what is left behind its delimiter.              *)
strtok(s, delimiter) ==
  LET starts == {i \in DOMAIN s : s[i] # delimiter}
      from   == Min(starts)
      to     == Min({i \in from..Len(s) : s[i] = delimiter} \cup {Len(s) + 1})
  IN  IF starts = {} THEN [token |-> NULL, rest |-> <<>>]
      ELSE [token |-> SubSeq(s, from, to - 1), rest |-> SubSeq(s, to + 1, Len(s))]

RECURSIVE Tokens(_, _)
Tokens(s, delimiter) ==
  LET next == strtok(s, delimiter)
  IN  IF next.token = NULL THEN <<>>
      ELSE <<next.token>> \o Tokens(next.rest, delimiter)

insert(table, key, entry) ==
  [k \in DOMAIN table \cup {key} |-> IF k = key THEN entry ELSE table[k]]

-----------------------------------------------------------------------------
(* A version that leaves white space at the end.                           *)
trim_string_Start(s) ==
  LET ink == {i \in DOMAIN s : s[i] # " "}
  IN  IF ink = {} THEN <<>> ELSE SubSeq(s, Min(ink), Len(s))

trim_string(s) ==
  LET ink == {i \in DOMAIN s : s[i] # " "}
  IN  IF ink = {} THEN <<>> ELSE SubSeq(s, Min(ink), Max(ink))

STRING_(text)        == [type |-> "STRING", text |-> text]
STRING_ARRAY_(texts) == [type |-> "STRING_ARRAY", texts |-> texts]

(* strcmp of a first token that is NULL crashes.                           *)
Parsable(value) == strtok(value, "/").token # NULL

parse_value(value) ==
  LET entries == Tokens(value, "/")
  IN  IF Head(entries) = value THEN STRING_(value)
      ELSE STRING_ARRAY_([i \in DOMAIN entries |-> trim_string(entries[i])])

-----------------------------------------------------------------------------
(* The text of a line, with its newline.                                   *)
Text(line) ==
  LET w == pad
      body == FlattenSeq(
                [i \in DOMAIN line.alternatives |->
                   (IF i = 1 THEN <<>> ELSE w \o <<"/">> \o w)
                     \o line.alternatives[i]])
  IN  line.name \o w \o line.defined_as \o w \o body \o w \o line.comment
        \o <<" ">>

Init ==
  /\ file \in Files /\ pad \in WSP
  /\ read = <<>>
  /\ grammar = [k \in {} |-> NULL]
  /\ crashed = FALSE

ReadLine ==
  /\ file # <<>> /\ ~crashed
  /\ LET first == strtok(Text(Head(file)), "=")
         key   == trim_string(first.token)
         value == strtok(first.rest, ";").token
     IN  IF value = NULL THEN UNCHANGED <<grammar, crashed>>
         ELSE /\ crashed' = ~Parsable(trim_string(value))
              /\ grammar' = IF crashed' THEN grammar
                            ELSE insert(grammar, key,
                                        parse_value(trim_string(value)))
  /\ read' = Append(read, Head(file))
  /\ file' = Tail(file)
  /\ UNCHANGED pad

Next == ReadLine \/ ((file = <<>> \/ crashed) /\ UNCHANGED vars)

Spec == Init /\ [][Next]_vars

-----------------------------------------------------------------------------
(* What the lines mean (RFC 5234)                                          *)

Definitions(name) ==
  {i \in DOMAIN read : read[i].name = name /\ read[i].defined_as = <<"=">>}

Names == {read[i].name : i \in DOMAIN read} \ {<<>>}

Quotes(line, c) ==
  \E i \in DOMAIN line.alternatives : c \in Range(line.alternatives[i])

Plain == \A i \in DOMAIN read :
           /\ ~Quotes(read[i], "/") /\ ~Quotes(read[i], ";")
           /\ read[i].defined_as # <<"=", "/">>

Texts(entry) == IF entry.type = "STRING" THEN <<entry.text>> ELSE entry.texts

Means(name, alternatives) ==
  name \in DOMAIN grammar /\ Texts(grammar[name]) = alternatives

(* Of rules without quoted separators, the grammar has exactly those of    *)
(* the file, each with its alternatives: no white space, comment or        *)
(* earlier definition gets into them, and no comment defines a rule.       *)
RulesAreRead ==
  Plain =>
    /\ ~crashed
    /\ {key \in DOMAIN grammar : key # <<>> /\ key[1] # ";"} = Names
    /\ \A name \in Names :
         Means(name, read[Max(Definitions(name))].alternatives)
===============================================================================

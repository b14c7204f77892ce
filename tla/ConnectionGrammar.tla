--------------------------- MODULE ConnectionGrammar ---------------------------
(***************************************************************************)
(* The conversation abnf/grammar-connection allows on one connection, the  *)
(* abstract specification of a session.  The rules are                     *)
(*                                                                         *)
(*   connection       = open-connection *use-connection close-connection   *)
(*   open-connection  = C:protocol-header S:START C:START-OK *challenge    *)
(*                      S:TUNE C:TUNE-OK C:OPEN S:OPEN-OK                   *)
(*   challenge        = S:SECURE C:SECURE-OK                               *)
(*   use-connection   = C:CLOSE S:CLOSE-OK                                 *)
(*   close-connection = C:CLOSE S:CLOSE-OK / S:CLOSE C:CLOSE-OK            *)
(*                                                                         *)
(* The language is regular and every message but CLOSE_OK has one set of   *)
(* successors, so the latest message is all the state there is.  What the  *)
(* client sends is in lower case, as in Session.                           *)
(***************************************************************************)

VARIABLE last

(* The messages that may come after each message.                          *)
Follow ==
  [none      |-> {"header"},
   header    |-> {"START"},
   START     |-> {"start_ok"},
   start_ok  |-> {"SECURE", "TUNE"},
   SECURE    |-> {"secure_ok"},
   secure_ok |-> {"SECURE", "TUNE"},
   TUNE      |-> {"tune_ok"},
   tune_ok   |-> {"open"},
   open      |-> {"OPEN_OK"},
   OPEN_OK   |-> {"close", "CLOSE"},
   close     |-> {"CLOSE_OK"},
   CLOSE_OK  |-> {"close", "CLOSE"},
   CLOSE     |-> {"close_ok"},
   close_ok  |-> {}]

Init == last = "none"

Next == last' \in Follow[last]

Spec == Init /\ [][Next]_last
===============================================================================

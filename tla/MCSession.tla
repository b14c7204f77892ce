------------------------------- MODULE MCSession -------------------------------
(***************************************************************************)
(* Instances of Session for TLC.                                           *)
(***************************************************************************)
EXTENDS SessionProperties

(* What a broker sends out of turn, or that the fuzzer does not implement. *)
(* To the client SECURE is OPEN_OK, and OTHER_TYPE is OTHER_CLASS.         *)
OddFrames ==
  {"CLOSE", "TUNE_MINUS_ONE", "UNIMPLEMENTED", "PROTOCOL_HEADER",
   "OTHER_CLASS"}
===============================================================================

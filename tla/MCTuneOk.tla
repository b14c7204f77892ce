------------------------------- MODULE MCTuneOk -------------------------------
EXTENDS TuneOk

(* Every frame-max of four small octets, with a few channel-max.           *)
SomeOffers ==
  {o \in [0..5 -> Octet] :
     <<o[0], o[1]>> \in {<<0, 1>>, <<2, 3>>, <<3, 3>>}}
===============================================================================

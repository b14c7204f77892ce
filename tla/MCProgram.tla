-------------------------------- MODULE MCProgram ------------------------------
EXTENDS Program

(* The arguments: "none" is one that is no option.                         *)
Arguments ==
  [opt : {"P", "R"}, value : {-1, 0, 4, 5}]
    \cup [opt : {"n"}, value : {-1, 0, 2, 5}]
    \cup [opt : {"t"}, value : {-1, 0, 2}]
    \cup [opt : {"s"}, value : {-1, 0, 1}]
    \cup [opt : {"p", "none"}, value : {5673}]
    \cup [opt : {"v", "h"}, value : {0}]

UpToTwo ==
  {<<>>} \cup {<<a>> : a \in Arguments}
    \cup {<<a, b>> : a \in Arguments, b \in Arguments}
===============================================================================

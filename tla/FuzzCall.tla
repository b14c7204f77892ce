-------------------------------- MODULE FuzzCall -------------------------------
(***************************************************************************)
(* What one call of fuzz(sockfd, 'n', stratval) promises its caller, and   *)
(* all Battery knows of it: the packet counter grows by what the session   *)
(* sends, the result is a value the counter had during the call, and       *)
(* nothing is sent after the return.  Session implements this.             *)
(***************************************************************************)
EXTENDS Integers

CONSTANT MaxPerSession  \* packets one session may send

ASSUME MaxPerSessionAssumption == MaxPerSession \in Nat \ {0}

VARIABLES
  call,          \* "idle", "fuzzing" or "returned"
  first,         \* the counter when fuzz was called
  retval,        \* the latest result of get_packet_count, 0 before the first
  packet_count

callVars == <<call, first, retval, packet_count>>

Call ==
  /\ call # "fuzzing"
  /\ call' = "fuzzing"
  /\ first' = packet_count
  /\ retval' = 0
  /\ UNCHANGED packet_count

SendPacket ==
  /\ call = "fuzzing"
  /\ packet_count < first + MaxPerSession
  /\ packet_count' = packet_count + 1
  /\ UNCHANGED <<call, first, retval>>

ReadCount ==
  /\ call = "fuzzing"
  /\ retval' = packet_count
  /\ UNCHANGED <<call, first, packet_count>>

(* check_strat reads the counter at least once.                            *)
Return ==
  /\ call = "fuzzing"
  /\ retval >= first
  /\ call' = "returned"
  /\ UNCHANGED <<first, retval, packet_count>>

CallInit == call = "idle" /\ first = 0 /\ retval = 0 /\ packet_count = 0

CallNext == Call \/ SendPacket \/ ReadCount \/ Return

CallSpec == CallInit /\ [][CallNext]_callVars
===============================================================================

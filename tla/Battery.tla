-------------------------------- MODULE Battery --------------------------------
(***************************************************************************)
(* fuzz_with_strategy('n', stratval): one session after another until      *)
(* stratval packets have been exchanged.  A session is a FuzzCall.         *)
(***************************************************************************)
EXTENDS FuzzCall

CONSTANT Criteria  \* the arguments of -n

ASSUME CriteriaAssumption == Criteria \subseteq Nat

VARIABLES
  stratval,           \* the -n argument
  pc,                 \* "connect", "fuzz", or how the program ended
  currval,            \* what the sessions so far have reported, in sum
  delta,              \* what the latest one added
  last_packets_count  \* the packet counter after the latest one

batteryVars == <<currval, delta, last_packets_count>>

vars == <<stratval, pc, batteryVars, callVars>>

(* How the program ends: "done" returns from main, "hell" and "stuck" are  *)
(* the two exit(1), "refused" the exit(3) of connect_to_server.            *)
Exits == {"done", "hell", "stuck", "refused"}

(* A version that takes what a session reports for its increment.          *)
Delta_NoDifference == retval

Delta == retval - currval

(* A version with <= in the loop's condition.                              *)
Continue_OneMore(c, d) == c <= stratval /\ d <= stratval

(* The condition of the do loop.                                           *)
Continue(c, d) == c < stratval /\ d < stratval

-----------------------------------------------------------------------------

(* connect_to_server and the entry of fuzz.                                *)
Connect ==
  /\ pc = "connect"
  /\ pc' = "fuzz"
  /\ Call
  /\ UNCHANGED <<stratval, batteryVars>>

(* The broker refuses; or connect succeeds, and errno still holds an older *)
(* error.                                                                  *)
ConnectRefused ==
  /\ pc = "connect"
  /\ pc' = "refused"
  /\ UNCHANGED <<stratval, batteryVars, callVars>>

(* The session runs.                                                       *)
Fuzz ==
  /\ pc = "fuzz"
  /\ SendPacket \/ ReadCount \/ Return
  /\ UNCHANGED <<stratval, pc, batteryVars>>

(* The rest of the loop's body is one of these three: delta is not sane,   *)
(* or the session sent nothing, or its packets are accounted for.          *)
InsaneDelta ==
  /\ pc = "fuzz" /\ call = "returned"
  /\ delta' = Delta
  /\ delta' < 0 \/ delta' > 2 * stratval
  /\ pc' = "hell"
  /\ UNCHANGED <<stratval, currval, last_packets_count, callVars>>

NothingSent ==
  /\ pc = "fuzz" /\ call = "returned"
  /\ delta' = Delta
  /\ delta' \in 0..(2 * stratval)
  /\ packet_count = last_packets_count
  /\ pc' = "stuck"
  /\ UNCHANGED <<stratval, currval, last_packets_count, callVars>>

(* A version that trusts every session to have sent something.             *)
Account_AnyProgress ==
  /\ pc = "fuzz" /\ call = "returned"
  /\ delta' = Delta
  /\ delta' \in 0..(2 * stratval)
  /\ last_packets_count' = packet_count
  /\ currval' = currval + delta'
  /\ pc' = IF Continue(currval', delta') THEN "connect" ELSE "done"
  /\ UNCHANGED <<stratval, callVars>>

Account ==
  /\ pc = "fuzz" /\ call = "returned"
  /\ delta' = Delta
  /\ delta' \in 0..(2 * stratval)
  /\ packet_count # last_packets_count
  /\ last_packets_count' = packet_count
  /\ currval' = currval + delta'
  /\ pc' = IF Continue(currval', delta') THEN "connect" ELSE "done"
  /\ UNCHANGED <<stratval, callVars>>

Main == InsaneDelta \/ NothingSent \/ Account

-----------------------------------------------------------------------------
(* The counter is zeroed at the start, and currval read from it.           *)
Begin ==
  /\ CallInit
  /\ pc = "connect"
  /\ currval = 0 /\ delta = 0 /\ last_packets_count = 0

Init == stratval \in Criteria /\ Begin

Next ==
  \/ Connect \/ ConnectRefused \/ Fuzz \/ Main
  \/ pc \in Exits /\ UNCHANGED vars

Spec == Init /\ [][Next]_vars

-----------------------------------------------------------------------------
TypeOK ==
  /\ stratval \in Nat
  /\ pc \in {"connect", "fuzz"} \cup Exits
  /\ call \in {"idle", "fuzzing", "returned"}
  /\ currval \in Nat /\ delta \in Int /\ last_packets_count \in Nat
  /\ first \in Nat /\ retval \in Nat /\ packet_count \in Nat

(* A session that sent more packets than it reported leaves the rest to    *)
(* the next one, so currval may lag behind the counter, but never by more  *)
(* than one session.                                                       *)
LagsOneSession ==
  /\ pc = "connect" =>
       /\ call # "fuzzing"
       /\ last_packets_count = packet_count
       /\ currval <= packet_count
       /\ packet_count <= currval + MaxPerSession
       /\ currval < stratval \/ packet_count = 0
  /\ pc = "fuzz" =>
       /\ call # "idle"
       /\ last_packets_count = first
       /\ currval <= first /\ first <= currval + MaxPerSession
       /\ first <= packet_count /\ packet_count <= first + MaxPerSession
       /\ retval <= packet_count
       /\ call = "returned" => retval >= first
       /\ currval < stratval \/ first = 0

(* The check of delta ends no battery of sane sessions: a session and what *)
(* the one before left over make at most 2 * MaxPerSession.                *)
DeltaIsSane == MaxPerSession <= stratval => pc # "hell"

(* The stop criterion is met when main returns, though main only knows of  *)
(* the packets that check_strat has seen.                                  *)
DoneMeansEnough == pc = "done" => packet_count >= stratval

(* And it is overshot by less than two sessions.                           *)
OvershootBound == packet_count < stratval + 2 * MaxPerSession

IInv == TypeOK /\ LagsOneSession /\ DeltaIsSane /\ DoneMeansEnough
          /\ OvershootBound
===============================================================================

------------------------------- MODULE BatteryTime ------------------------------
(***************************************************************************)
(* fuzz_with_strategy('t', stratval): one session after another for so     *)
(* many seconds.  What a session reports is the time that check_strat has  *)
(* read last.                                                              *)
(***************************************************************************)
EXTENDS Integers

CONSTANTS
  Start,       \* time(NULL) when the battery begins
  MaxWaiting   \* seconds that a connect, or the joining of the threads, takes

BatteryTimeAssumption == Start \in Nat \ {0} /\ MaxWaiting \in Nat

VARIABLES
  printable_stratval,  \* the -t argument
  pc,       \* "connect", "watch", "join", "account", or how it ended
  clock,    \* time(NULL)
  currval, delta,
  reading,  \* current_val of check_strat, 0 before it has read the time
  sent,     \* the session has sent a packet
  waiting,  \* seconds of the connect, or of the joining, going on
  unseen    \* seconds since the last reading, while nobody looked

vars == <<printable_stratval, pc, clock, currval, delta, reading, sent,
          waiting, unseen>>

Exits == {"done", "hell", "stuck", "refused"}

stratval == Start + printable_stratval

-----------------------------------------------------------------------------
(* main spins while it watches, and so sees every second.                  *)
Tick ==
  /\ \/ pc \in {"connect", "join"} /\ waiting < MaxWaiting
        /\ waiting' = waiting + 1 /\ unseen' = unseen + 1
     \/ pc = "watch" /\ reading = clock /\ UNCHANGED <<waiting, unseen>>
  /\ clock' = clock + 1
  /\ UNCHANGED <<printable_stratval, pc, currval, delta, reading, sent>>

Connect ==
  /\ pc = "connect"
  /\ pc' = "watch"
  /\ reading' = 0 /\ sent' = FALSE /\ waiting' = 0
  /\ UNCHANGED <<printable_stratval, clock, currval, delta, unseen>>

(* The broker refuses; or connect succeeds, and errno still holds an older *)
(* error.                                                                  *)
ConnectRefused ==
  /\ pc = "connect"
  /\ pc' = "refused"
  /\ UNCHANGED <<printable_stratval, clock, currval, delta, reading, sent,
                 waiting, unseen>>

SendPacket ==
  /\ pc \in {"watch", "join"} /\ ~sent
  /\ sent' = TRUE
  /\ UNCHANGED <<printable_stratval, pc, clock, currval, delta, reading,
                 waiting, unseen>>

(* A version that only watches is_running.                                 *)
ReadTime_NoDeadline ==
  /\ pc = "watch" /\ reading # clock
  /\ reading' = clock
  /\ UNCHANGED <<printable_stratval, pc, clock, currval, delta, sent,
                 waiting, unseen>>

ReadTime ==
  /\ pc = "watch" /\ reading # clock
  /\ reading' = clock
  /\ pc' = IF clock < stratval THEN "watch" ELSE "join"
  /\ UNCHANGED <<printable_stratval, clock, currval, delta, sent, waiting,
                 unseen>>

(* The listener has stopped, and the loop of check_strat sees it.          *)
SessionOver ==
  /\ pc = "watch" /\ reading # 0
  /\ pc' = "join"
  /\ UNCHANGED <<printable_stratval, clock, currval, delta, reading, sent,
                 waiting, unseen>>

(* fuzz returns what was read before the threads were joined.              *)
Joined ==
  /\ pc = "join"
  /\ pc' = "account"
  /\ waiting' = 0
  /\ UNCHANGED <<printable_stratval, clock, currval, delta, reading, sent,
                 unseen>>

(* A version that takes what a session reports for its duration.           *)
Delta_NoDifference == reading

Delta == reading - currval

InsaneDelta ==
  /\ pc = "account"
  /\ delta' = Delta
  /\ delta' < 0 \/ delta' > 2 * printable_stratval
  /\ pc' = "hell"
  /\ UNCHANGED <<printable_stratval, clock, currval, reading, sent,
                 waiting, unseen>>

NothingSent ==
  /\ pc = "account" /\ ~sent
  /\ delta' = Delta
  /\ delta' \in 0..(2 * printable_stratval)
  /\ pc' = "stuck"
  /\ UNCHANGED <<printable_stratval, clock, currval, reading, sent,
                 waiting, unseen>>

(* A version that compares the time with the seconds asked for.            *)
Continue_Seconds(c, d) == c < printable_stratval /\ d < printable_stratval

Continue(c, d) == c < stratval /\ d < stratval

Account ==
  /\ pc = "account" /\ sent
  /\ delta' = Delta
  /\ delta' \in 0..(2 * printable_stratval)
  /\ currval' = currval + delta'
  /\ IF Continue(currval', delta')
     THEN pc' = "connect" /\ unseen' = clock - currval'
     ELSE pc' = "done" /\ UNCHANGED unseen
  /\ UNCHANGED <<printable_stratval, clock, reading, sent, waiting>>

(* fuzz has returned.                                                      *)
Leave == InsaneDelta \/ NothingSent \/ Account

Begin ==
  /\ pc = "connect"
  /\ clock = Start /\ currval = Start
  /\ delta = 0 /\ reading = 0 /\ sent = FALSE /\ waiting = 0 /\ unseen = 0

Next ==
  \/ Tick \/ Connect \/ ConnectRefused \/ SendPacket \/ ReadTime
  \/ SessionOver \/ Joined \/ Leave

-----------------------------------------------------------------------------
(* The check of delta ends a battery only if connecting, with the joining  *)
(* of the threads before it, took more than twice the time asked for.      *)
HellIsWaiting == pc = "hell" => unseen > 2 * printable_stratval

(* fuzz_with_strategy returns only when the time is up,                    *)
TimeIsUp == pc = "done" => clock >= stratval

(* and what it takes beyond was spent connecting and joining.  (-t may be  *)
(* negative: main does not look.)                                          *)
StopsOnTime ==
  clock <= (IF printable_stratval > 0 THEN stratval ELSE Start) + unseen

-----------------------------------------------------------------------------
TypeOK ==
  /\ printable_stratval \in Int
  /\ pc \in {"connect", "watch", "join", "account"} \cup Exits
  /\ clock \in Nat /\ currval \in Nat /\ delta \in Int /\ reading \in Nat
  /\ sent \in BOOLEAN /\ waiting \in Nat /\ unseen \in Nat

(* Where the seconds went.  Up to the first reading of a session all that  *)
(* passed since the last one of the session before is unseen; from then on *)
(* a reading is beyond the deadline by unseen seconds only.                *)
SecondsSeen ==
  /\ Start <= currval /\ currval <= clock
  /\ pc = "connect" \/ (pc = "watch" /\ reading = 0) =>
       /\ clock = currval + unseen
       /\ currval = Start \/ currval < stratval
  /\ pc = "watch" /\ reading # 0 => reading < stratval /\ clock <= reading + 1
  /\ pc \in {"join", "account"} => reading # 0
  /\ pc \in {"watch", "join", "account"} /\ reading # 0 =>
       /\ currval <= reading /\ reading <= clock
       /\ \/ reading <= currval + unseen
          \/ printable_stratval > 0 /\ reading <= stratval

IInv == TypeOK /\ SecondsSeen /\ HellIsWaiting /\ TimeIsUp /\ StopsOnTime
===============================================================================

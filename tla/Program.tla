--------------------------------- MODULE Program -------------------------------
(***************************************************************************)
(* main: the options are read, the generator is seeded, and a battery of   *)
(* sessions runs under the stop criterion that was given, counting packets *)
(* (Battery) or seconds (BatteryTime).                                     *)
(***************************************************************************)
EXTENDS Battery, Sequences

CONSTANTS CommandLines, DefaultPort,  \* of Options
          Start, MaxWaiting           \* of BatteryTime

VARIABLES
  argv, optind, port, RULE_CHAOS, PACKET_CHAOS, seed, strat, srand, status,
  tpc, clock, tcurrval, tdelta, reading, sent, waiting, unseen

(* They share stratval.                                                    *)
Line == INSTANCE Options

Timed == INSTANCE BatteryTime
           WITH printable_stratval <- stratval, pc <- tpc,
                currval <- tcurrval, delta <- tdelta

ASSUME ProgramAssumption ==
  /\ Line!OptionsAssumption
  /\ Timed!BatteryTimeAssumption

lineVars  == <<argv, optind, port, RULE_CHAOS, PACKET_CHAOS, seed, strat,
               srand, status>>
countVars == <<pc, batteryVars, callVars>>
timeVars  == <<tpc, clock, tcurrval, tdelta, reading, sent, waiting, unseen>>

programVars == <<stratval, lineVars, countVars, timeVars>>

-----------------------------------------------------------------------------
ProgramInit == Line!Init /\ Begin /\ Timed!Begin

ReadOptions == Line!Next /\ UNCHANGED <<countVars, timeVars>>

(* fuzz_with_strategy begins when main has read the options.               *)
Fuzzing(letter) == status = "fuzzing" /\ strat = letter

Counting(step) == Fuzzing("n") /\ step /\ UNCHANGED <<lineVars, timeVars>>
Watching(step) ==
  /\ Fuzzing("t") /\ step
  /\ UNCHANGED <<stratval, lineVars, countVars>>

CountPackets == Counting(Connect \/ ConnectRefused \/ Fuzz \/ Main)
CountSeconds == Watching(Timed!Next)

(* Without a criterion there is one session that is not waited for         *)
(* (Session, Strategy = "0").                                              *)
Over ==
  \/ status = "error"
  \/ Fuzzing("0")
  \/ Fuzzing("n") /\ pc \in Exits
  \/ Fuzzing("t") /\ tpc \in Exits

ProgramNext ==
  \/ ReadOptions \/ CountPackets \/ CountSeconds
  \/ Over /\ UNCHANGED programVars

ProgramSpec == ProgramInit /\ [][ProgramNext]_programVars

(* main's steps, and those of a session with -n, which sends at most       *)
(* MaxPerSession packets and returns: that it does is CancelledSessionEnds *)
(* of SessionProperties.  With -t time passes: the clock moves on if it is *)
(* looked at again and again; that a session ends by itself is not         *)
(* assumed.                                                                *)
FairProgramSpec ==
  /\ ProgramSpec
  /\ WF_programVars(ReadOptions)
  /\ WF_programVars(Counting(Connect))
  /\ WF_programVars(Counting(Fuzz))
  /\ WF_programVars(Counting(Main))
  /\ SF_programVars(Watching(Timed!Tick))
  /\ WF_programVars(Watching(Timed!Connect))
  /\ WF_programVars(Watching(Timed!ReadTime))
  /\ WF_programVars(Watching(Timed!Joined))
  /\ WF_programVars(Watching(Timed!Leave))

-----------------------------------------------------------------------------
(* The properties of the command line and of the timed battery, as they    *)
(* are in Options and BatteryTime.                                         *)

(* main.c 179-223: the options that were given are those that are used,    *)
(* in whatever order and number they came.                                 *)
OptionsAreKept == Line!OptionsAreKept

(* main.c 214-223: there is at most one stop criterion, the one given.     *)
OneCriterion == Line!OneCriterion

(* main.c 118, with -t: the check of delta ends a battery only for time    *)
(* that nobody watched.                                                    *)
HellIsWaiting == Timed!HellIsWaiting

(* main.c 138, with -t: no return before the time is up.                   *)
TimeIsUp == Timed!TimeIsUp

(* AMQP.c 499, with -t: and none later than connecting and joining take.   *)
StopsOnTime == Timed!StopsOnTime

(* The invariant behind these five, and behind those of Battery if -n is   *)
(* not negative: until the options are read, both batteries are at their   *)
(* beginning.                                                              *)
ProgramIInv ==
  /\ Line!ReadSoFar
  /\ status # "fuzzing" => Begin /\ Timed!Begin
  /\ Timed!IInv
  /\ stratval >= 0 => IInv

(* README.md, "Stop Criteria": given one, the program ends, whether every  *)
(* session reports what it sent or none does, and however little time a    *)
(* session takes.                                                          *)
ProgramEnds == <>Over
===============================================================================

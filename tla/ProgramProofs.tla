----------------------------- MODULE ProgramProofs -----------------------------
(***************************************************************************)
(* Proofs about the program as a whole: what the command line asks for is  *)
(* what the battery does, whichever the criterion.                         *)
(***************************************************************************)
EXTENDS Program, TLAPS

-----------------------------------------------------------------------------
(* A battery of sessions is accounted for, for every criterion and every   *)
(* bound on the packets of a session.                                      *)

LEMMA InitIInv == Init => IInv
  BY MaxPerSessionAssumption, CriteriaAssumption
     DEF Init, Begin, CallInit, IInv, TypeOK, LagsOneSession, DeltaIsSane,
         DoneMeansEnough, OvershootBound

(* Only Account moves currval, and it leaves behind what the session sent  *)
(* after its last reading; only SendPacket moves the counter.              *)
LEMMA NextIInv == IInv /\ [Next]_vars => IInv'
<1> SUFFICES ASSUME IInv, [Next]_vars PROVE IInv'
  OBVIOUS
<1> USE MaxPerSessionAssumption, CriteriaAssumption
        DEF IInv, TypeOK, LagsOneSession, DeltaIsSane, DoneMeansEnough,
            OvershootBound, Exits
<1>1. CASE Connect
  BY <1>1 DEF Connect, Call, batteryVars
<1>2. CASE ConnectRefused
  BY <1>2 DEF ConnectRefused, batteryVars, callVars
<1>3. CASE Fuzz
  <2>1. CASE SendPacket
    BY <1>3, <2>1 DEF Fuzz, SendPacket, batteryVars
  <2>2. CASE ReadCount
    BY <1>3, <2>2 DEF Fuzz, ReadCount, batteryVars
  <2>3. CASE Return
    BY <1>3, <2>3 DEF Fuzz, Return, batteryVars
  <2> QED
    BY <1>3, <2>1, <2>2, <2>3 DEF Fuzz
<1>4. CASE InsaneDelta
  \* A session and what was left over are within the check's bound.
  <2>1. Delta \in 0..(2 * MaxPerSession)
    BY <1>4 DEF InsaneDelta, Delta
  <2> QED
    BY <1>4, <2>1 DEF InsaneDelta, Delta, callVars
<1>5. CASE NothingSent
  BY <1>5 DEF NothingSent, Delta, callVars
<1>6. CASE Account
  <2>1. currval' = retval /\ currval' \in Nat
    BY <1>6 DEF Account, Delta
  <2>2. pc' \in {"connect", "done"} /\ (pc' = "done" => packet_count >= stratval)
    BY <1>6, <2>1 DEF Account, Delta, Continue
  <2>3. pc' = "connect" => currval' < stratval
    BY <1>6 DEF Account, Continue
  <2> QED
    BY <1>6, <2>1, <2>2, <2>3 DEF Account, Delta, callVars
<1>7. CASE UNCHANGED vars
  BY <1>7 DEF vars, batteryVars, callVars
<1> QED
  BY <1>1, <1>2, <1>3, <1>4, <1>5, <1>6, <1>7 DEF Next, Main

(* The invariant holds throughout every battery.                           *)
THEOREM Invariance == Spec => []IInv
  BY InitIInv, NextIInv, PTL DEF Spec

(* main.c's check of delta never ends a battery whose criterion is at      *)
(* least one session long.                                                 *)
THEOREM DeltasAreSane == Spec => []DeltaIsSane
<1>1. IInv => DeltaIsSane
  BY DEF IInv
<1> QED
  BY <1>1, Invariance, PTL

(* fuzz_with_strategy returns only when stratval packets have been sent.          *)
THEOREM CriterionIsMet == Spec => []DoneMeansEnough
<1>1. IInv => DoneMeansEnough
  BY DEF IInv
<1> QED
  BY <1>1, Invariance, PTL

(* And before two more sessions' worth of them have been.                  *)
THEOREM OvershootIsBounded == Spec => []OvershootBound
<1>1. IInv => OvershootBound
  BY DEF IInv
<1> QED
  BY <1>1, Invariance, PTL

-----------------------------------------------------------------------------
(* The options                                                             *)

(* One more argument is in its place or leaves the places as they are.     *)
LEMMA PlacesGrow ==
  ASSUME NEW n \in Nat, NEW letters
  PROVE  Line!Places(letters, n + 1) =
           IF argv[n + 1].opt \in letters
           THEN Line!Places(letters, n) \cup {n + 1}
           ELSE Line!Places(letters, n)
BY DEF Line!Places

(* An option of this letter is the latest of it,                           *)
LEMMA LatestGiven ==
  ASSUME NEW n \in Nat, NEW letter, NEW default, argv[n + 1].opt = letter
  PROVE  Line!Latest(argv[n + 1].value, default, letter, n + 1)
<1>1. n + 1 \in Line!Places({letter}, n + 1)
  BY DEF Line!Places
<1>2. \A j \in Line!Places({letter}, n + 1) : j <= n + 1
  BY DEF Line!Places
<1> QED
  BY <1>1, <1>2 DEF Line!Latest

(* and any other leaves the latest as it was.                              *)
LEMMA LatestKept ==
  ASSUME NEW n \in Nat, NEW letter, NEW default, NEW value,
         argv[n + 1].opt # letter, Line!Latest(value, default, letter, n)
  PROVE  Line!Latest(value, default, letter, n + 1)
<1>1. Line!Places({letter}, n + 1) = Line!Places({letter}, n)
  BY PlacesGrow
<1> QED
  BY <1>1 DEF Line!Latest

(* The invariant of the loop over getopt, argument by argument.            *)
LEMMA OptionStep == Line!ReadSoFar /\ Line!Next => Line!ReadSoFar'
<1> SUFFICES ASSUME Line!ReadSoFar, Line!Next
             PROVE  Line!ReadSoFar'
  OBVIOUS
<1>1. /\ Line!OptionsAssumption
      /\ argv' = argv
      /\ argv \in Seq([opt : Line!Letters, value : Int])
  <2>1. argv' = argv
    BY DEF Line!Next, Line!Help, Line!Port, Line!ChaosLevel, Line!Seed,
           Line!StopCriterion, Line!Other, Line!EndOfOptions, Line!seed_RNG,
           Line!Given
  <2> QED
    BY <2>1, ProgramAssumption DEF Line!ReadSoFar, Line!OptionsAssumption
<1>2. ASSUME NEW letters, Line!Given(letters)
      PROVE  /\ optind \in Nat /\ optind + 1 \in 1..Len(argv)
             /\ optind' = optind + 1 /\ srand' = srand
             /\ status = "parsing"
             /\ argv[optind + 1].opt \in letters
             /\ argv[optind + 1].value \in Int
  <2>1. optind \in Nat /\ optind + 1 \in 1..Len(argv)
    BY <1>1, <1>2 DEF Line!Given, Line!ReadSoFar
  <2>2. argv[optind + 1] \in [opt : Line!Letters, value : Int]
    <3> DEFINE Argument == [opt : Line!Letters, value : Int]
    <3>1. argv \in Seq(Argument)
      BY <1>1
    <3> HIDE DEF Argument
    <3>2. argv[optind + 1] \in Argument
      BY <2>1, <3>1
    <3> QED  BY <3>2 DEF Argument
  <2> QED
    BY <1>2, <2>1, <2>2 DEF Line!Given
<1>3. ASSUME NEW letters, Line!Given(letters), status' = "error",
             UNCHANGED Line!chaos, UNCHANGED Line!criterion
      PROVE  Line!ReadSoFar'
  <2>1. optind' \in 0..Len(argv')
    BY <1>1, <1>2, <1>3
  <2>2. UNCHANGED <<argv, RULE_CHAOS, PACKET_CHAOS, strat, stratval>>
    BY <1>1, <1>3 DEF Line!chaos, Line!criterion
  <2> QED
    BY <1>3, <2>1, <2>2 DEF Line!ReadSoFar
<1> DEFINE Read(p, r, c, s) ==
      /\ Line!Latest(p, DefaultPort, "p", optind + 1)
      /\ Line!Latest(r, 0, "R", optind + 1)
      /\ Line!Latest(c, 0, "P", optind + 1)
      /\ Line!Latest(s, Line!UINT_MAX, "s", optind + 1)
<1>4. ASSUME NEW letters, Line!Given(letters), status' = status,
             RULE_CHAOS' \in 0..4, PACKET_CHAOS' \in 0..4,
             Read(port', RULE_CHAOS', PACKET_CHAOS', seed'),
             letters \cap {"n", "t"} = {}, UNCHANGED Line!criterion
      PROVE  Line!ReadSoFar'
  <2>1. Line!Places({"n", "t"}, optind + 1) = Line!Places({"n", "t"}, optind)
    BY <1>2, <1>4, PlacesGrow
  <2>2. Line!Criterion(optind)'
    <3>1. Line!Criterion(optind)
      BY <1>2, <1>4 DEF Line!ReadSoFar
    <3>2. Line!Places({"n", "t"}, optind)' = Line!Places({"n", "t"}, optind)
      BY <1>1, <1>2, <1>4, <2>1 DEF Line!Places
    <3> QED
      BY <1>1, <1>4, <3>1, <3>2 DEF Line!Criterion, Line!criterion
  <2>3. /\ Line!Latest(port, DefaultPort, "p", optind)'
        /\ Line!Latest(RULE_CHAOS, 0, "R", optind)'
        /\ Line!Latest(PACKET_CHAOS, 0, "P", optind)'
        /\ Line!Latest(seed, Line!UINT_MAX, "s", optind)'
    BY <1>1, <1>2, <1>4 DEF Line!Latest, Line!Places, Line!UINT_MAX
  <2> QED
    BY <1>1, <1>2, <1>4, <2>2, <2>3 DEF Line!ReadSoFar, Line!criterion
<1>5. CASE Line!Help
  BY <1>3, <1>5 DEF Line!Help
<1>6. CASE Line!Port
  <2>1. Line!Given({"p"}) /\ argv[optind + 1].opt = "p"
    BY <1>2, <1>6 DEF Line!Port
  <2>2. Read(port', RULE_CHAOS', PACKET_CHAOS', seed')
    BY <1>2, <1>6, <2>1, LatestGiven, LatestKept
       DEF Line!Port, Line!optarg, Line!ReadSoFar, Line!chaos
  <2> QED
    BY <1>4, <1>6, <2>1, <2>2 DEF Line!Port, Line!ReadSoFar, Line!chaos
<1>7. CASE Line!ChaosLevel
  <2>1. Line!Given({"P", "R"}) /\ argv[optind + 1].opt \in {"P", "R"}
    BY <1>2, <1>7 DEF Line!ChaosLevel
  <2>2. CASE Line!optarg < 0 \/ Line!optarg > 4
    BY <1>3, <1>7, <2>1, <2>2 DEF Line!ChaosLevel
  <2>3. CASE ~(Line!optarg < 0 \/ Line!optarg > 4)
    <3>1. Line!optarg \in 0..4
      BY <1>2, <2>1, <2>3 DEF Line!optarg
    <3>2. /\ RULE_CHAOS' = IF argv[optind + 1].opt = "R"
                           THEN argv[optind + 1].value ELSE RULE_CHAOS
          /\ PACKET_CHAOS' = IF argv[optind + 1].opt = "P"
                             THEN argv[optind + 1].value ELSE PACKET_CHAOS
          /\ UNCHANGED <<status, port, seed>> /\ UNCHANGED Line!criterion
      BY <1>7, <2>3 DEF Line!ChaosLevel, Line!opt, Line!optarg
    <3>3. Read(port', RULE_CHAOS', PACKET_CHAOS', seed')
      <4>1. CASE argv[optind + 1].opt = "R"
        BY <1>2, <2>1, <3>2, <4>1, LatestGiven, LatestKept DEF Line!ReadSoFar
      <4>2. CASE argv[optind + 1].opt = "P"
        BY <1>2, <2>1, <3>2, <4>2, LatestGiven, LatestKept DEF Line!ReadSoFar
      <4> QED  BY <2>1, <4>1, <4>2
    <3>4. RULE_CHAOS' \in 0..4 /\ PACKET_CHAOS' \in 0..4
      BY <3>1, <3>2 DEF Line!ReadSoFar, Line!optarg
    <3> QED
      BY <1>4, <2>1, <3>2, <3>3, <3>4
  <2> QED  BY <2>2, <2>3
<1>8. CASE Line!Seed
  <2>1. Line!Given({"s"}) /\ argv[optind + 1].opt = "s"
    BY <1>2, <1>8 DEF Line!Seed
  <2>2. Read(port', RULE_CHAOS', PACKET_CHAOS', seed')
    BY <1>2, <1>8, <2>1, LatestGiven, LatestKept
       DEF Line!Seed, Line!optarg, Line!ReadSoFar, Line!chaos
  <2> QED
    BY <1>4, <1>8, <2>1, <2>2 DEF Line!Seed, Line!ReadSoFar, Line!chaos
<1>9. CASE Line!StopCriterion
  <2>1. Line!Given({"n", "t"}) /\ argv[optind + 1].opt \in {"n", "t"}
    BY <1>2, <1>9 DEF Line!StopCriterion
  <2>2. CASE strat # "0"
    BY <1>3, <1>9, <2>1, <2>2 DEF Line!StopCriterion
  <2>3. CASE strat = "0"
    <3>1. /\ strat' = argv[optind + 1].opt
          /\ stratval' = argv[optind + 1].value
          /\ UNCHANGED <<status, port, seed, RULE_CHAOS, PACKET_CHAOS>>
      BY <1>9, <2>3 DEF Line!StopCriterion, Line!opt, Line!optarg, Line!chaos
    <3>2. Line!Places({"n", "t"}, optind) = {}
      <4>1. \A i \in Line!Places({"n", "t"}, optind) : argv[i].opt # "0"
        BY DEF Line!Places
      <4> QED
        BY <1>2, <2>1, <2>3, <4>1 DEF Line!ReadSoFar, Line!Criterion
    <3>3. Line!Criterion(optind)'
      <4>1. Line!Places({"n", "t"}, optind + 1) = {optind + 1}
        BY <1>2, <2>1, <3>2, PlacesGrow
      <4>2. Line!Places({"n", "t"}, optind)' = {optind + 1}
        BY <1>1, <1>2, <2>1, <4>1 DEF Line!Places
      <4> QED
        BY <1>1, <3>1, <4>2 DEF Line!Criterion
    <3>4. Read(port, RULE_CHAOS, PACKET_CHAOS, seed)
      BY <1>2, <2>1, LatestKept DEF Line!ReadSoFar
    <3>5. /\ Line!Latest(port, DefaultPort, "p", optind)'
          /\ Line!Latest(RULE_CHAOS, 0, "R", optind)'
          /\ Line!Latest(PACKET_CHAOS, 0, "P", optind)'
          /\ Line!Latest(seed, Line!UINT_MAX, "s", optind)'
      BY <1>1, <1>2, <2>1, <3>1, <3>4
         DEF Line!Latest, Line!Places, Line!UINT_MAX
    <3> QED
      BY <1>1, <1>2, <2>1, <3>1, <3>3, <3>5 DEF Line!ReadSoFar
  <2> QED  BY <2>2, <2>3
<1>10. CASE Line!Other
  <2>1. Line!Given({"v", "none"}) /\ argv[optind + 1].opt \in {"v", "none"}
    BY <1>2, <1>10 DEF Line!Other
  <2>2. Read(port', RULE_CHAOS', PACKET_CHAOS', seed')
    BY <1>2, <1>10, <2>1, LatestKept
       DEF Line!Other, Line!ReadSoFar, Line!chaos
  <2> QED
    BY <1>4, <1>10, <2>1, <2>2 DEF Line!Other, Line!ReadSoFar, Line!chaos
<1>11. ASSUME Line!EndOfOptions \/ Line!seed_RNG
       PROVE  Line!ReadSoFar'
  <2>1. UNCHANGED <<argv, optind, port, RULE_CHAOS, PACKET_CHAOS, seed, strat,
                    stratval>>
    BY <1>11 DEF Line!EndOfOptions, Line!seed_RNG, Line!chaos, Line!criterion
  <2>2. /\ Line!Latest(port, DefaultPort, "p", optind)'
        /\ Line!Latest(RULE_CHAOS, 0, "R", optind)'
        /\ Line!Latest(PACKET_CHAOS, 0, "P", optind)'
        /\ Line!Latest(seed, Line!UINT_MAX, "s", optind)'
        /\ Line!Criterion(optind)'
    BY <1>11, <2>1
       DEF Line!EndOfOptions, Line!seed_RNG, Line!ReadSoFar, Line!Latest,
           Line!Places, Line!Criterion, Line!UINT_MAX
  <2> QED
    BY <1>11, <2>1, <2>2
       DEF Line!EndOfOptions, Line!seed_RNG, Line!ReadSoFar, Line!UINT_MAX
<1> QED
  BY <1>5, <1>6, <1>7, <1>8, <1>9, <1>10, <1>11 DEF Line!Next

-----------------------------------------------------------------------------
(* The battery that counts seconds                                         *)

(* The deadline is fixed, and a step of the battery keeps account of the   *)
(* seconds that nobody saw.                                                *)
LEMMA SecondsStep ==
  Timed!IInv /\ Timed!Next /\ UNCHANGED stratval => Timed!IInv'
<1> SUFFICES ASSUME Timed!IInv, Timed!Next, UNCHANGED stratval
             PROVE  Timed!IInv'
  OBVIOUS
<1> USE ProgramAssumption
        DEF Timed!BatteryTimeAssumption, Timed!IInv, Timed!TypeOK,
            Timed!SecondsSeen, Timed!HellIsWaiting, Timed!TimeIsUp,
            Timed!StopsOnTime, Timed!stratval, Timed!Exits
<1>1. CASE Timed!Tick
  BY <1>1 DEF Timed!Tick
<1>2. CASE Timed!Connect
  BY <1>2 DEF Timed!Connect
<1>9. CASE Timed!ConnectRefused
  BY <1>9 DEF Timed!ConnectRefused
<1>3. CASE Timed!SendPacket
  BY <1>3 DEF Timed!SendPacket
<1>4. CASE Timed!ReadTime
  BY <1>4 DEF Timed!ReadTime
<1>5. CASE Timed!SessionOver
  BY <1>5 DEF Timed!SessionOver
<1>6. CASE Timed!Joined
  BY <1>6 DEF Timed!Joined
<1>7. CASE Timed!InsaneDelta \/ Timed!NothingSent
  BY <1>7 DEF Timed!InsaneDelta, Timed!NothingSent, Timed!Delta
<1>8. CASE Timed!Account
  BY <1>8 DEF Timed!Account, Timed!Delta, Timed!Continue
<1> QED
  BY <1>1, <1>2, <1>3, <1>4, <1>5, <1>6, <1>7, <1>8, <1>9
     DEF Timed!Next, Timed!Leave

(* A battery that has not begun satisfies the invariant, whatever -t is.   *)
LEMMA SecondsBegin == Timed!Begin /\ stratval \in Int => Timed!IInv
<1> SUFFICES ASSUME Timed!Begin, stratval \in Int PROVE Timed!IInv
  OBVIOUS
<1>1. /\ Start \in Nat \ {0}
      /\ tpc = "connect" /\ clock = Start /\ tcurrval = Start
      /\ tdelta = 0 /\ reading = 0 /\ waiting = 0 /\ unseen = 0
  BY ProgramAssumption DEF Timed!BatteryTimeAssumption, Timed!Begin
<1>2. sent \in BOOLEAN
  BY DEF Timed!Begin
<1> QED
  BY <1>1, <1>2
     DEF Timed!IInv, Timed!TypeOK, Timed!SecondsSeen, Timed!HellIsWaiting,
         Timed!TimeIsUp, Timed!StopsOnTime, Timed!stratval

(* What one part of the program leaves alone is as it was in the others.   *)
LEMMA OptionsStay ==
  Line!ReadSoFar /\ UNCHANGED stratval /\ UNCHANGED lineVars
    => Line!ReadSoFar'
<1> SUFFICES ASSUME Line!ReadSoFar, UNCHANGED stratval, UNCHANGED lineVars
             PROVE  Line!ReadSoFar'
  OBVIOUS
<1> QED
  BY DEF lineVars, Line!ReadSoFar, Line!Latest, Line!Places, Line!Criterion,
         Line!UINT_MAX

LEMMA SecondsStay ==
  Timed!IInv /\ UNCHANGED stratval /\ UNCHANGED timeVars => Timed!IInv'
BY DEF timeVars, Timed!IInv, Timed!TypeOK, Timed!SecondsSeen,
       Timed!HellIsWaiting, Timed!TimeIsUp, Timed!StopsOnTime, Timed!stratval

LEMMA CountStays ==
  (stratval >= 0 => IInv) /\ UNCHANGED stratval /\ UNCHANGED countVars
    => (stratval' >= 0 => IInv')
BY NextIInv DEF countVars, vars

(* A battery with -n that has not begun, likewise.                         *)
LEMMA CountBegin == Begin /\ stratval \in Int /\ stratval >= 0 => IInv
BY MaxPerSessionAssumption
   DEF Begin, CallInit, IInv, TypeOK, LagsOneSession, DeltaIsSane,
       DoneMeansEnough, OvershootBound, Exits

-----------------------------------------------------------------------------
(* The program                                                             *)

(* The invariant holds when main is called,                                *)
LEMMA ProgramBegins == ProgramInit => ProgramIInv
<1> SUFFICES ASSUME ProgramInit PROVE ProgramIInv
  OBVIOUS
<1>1. stratval = 0 /\ status = "parsing" /\ Begin /\ Timed!Begin
  BY DEF ProgramInit, Line!Init
<1>2. Line!ReadSoFar
  <2>1. argv \in CommandLines /\ optind = 0
    BY DEF ProgramInit, Line!Init
  <2>2. Len(argv) \in Nat
    BY <2>1, ProgramAssumption DEF Line!OptionsAssumption
  <2>3. \A letters : Line!Places(letters, 0) = {}
    BY DEF Line!Places
  <2> QED
    BY <2>1, <2>2, <2>3
       DEF ProgramInit, Line!Init, Line!ReadSoFar, Line!Latest,
           Line!Criterion, Line!UINT_MAX
<1>3. Timed!IInv
  BY <1>1, SecondsBegin
<1>4. IInv
  BY <1>1, CountBegin
<1> QED
  BY <1>1, <1>2, <1>3, <1>4 DEF ProgramIInv

(* and every step of main and of the battery it has chosen keeps it.       *)
LEMMA ProgramStep == ProgramIInv /\ [ProgramNext]_programVars => ProgramIInv'
<1> SUFFICES ASSUME ProgramIInv, [ProgramNext]_programVars
             PROVE  ProgramIInv'
  OBVIOUS
<1>1. stratval \in Int
  BY DEF ProgramIInv, Line!ReadSoFar
<1>2. CASE ReadOptions
  <2>1. Line!Next /\ UNCHANGED countVars /\ UNCHANGED timeVars
    BY <1>2 DEF ReadOptions
  <2>2. Line!ReadSoFar'
    BY <2>1, OptionStep DEF ProgramIInv
  <2>3. status # "fuzzing"
    BY <2>1
       DEF Line!Next, Line!Help, Line!Port, Line!ChaosLevel, Line!Seed,
           Line!StopCriterion, Line!Other, Line!EndOfOptions, Line!seed_RNG,
           Line!Given
  <2>4. Begin' /\ Timed!Begin'
    <3>1. Begin /\ Timed!Begin
      BY <2>3 DEF ProgramIInv
    <3> QED
      BY <2>1, <3>1
         DEF Begin, CallInit, Timed!Begin, countVars, batteryVars, callVars,
             timeVars
  <2>5. stratval' \in Int
    BY <2>2 DEF Line!ReadSoFar
  <2>6. Timed!IInv'
    <3>1. (Timed!Begin /\ stratval \in Int => Timed!IInv)'
      BY SecondsBegin, PTL
    <3> QED  BY <2>4, <2>5, <3>1
  <2>7. stratval' >= 0 => IInv'
    <3>1. (Begin /\ stratval \in Int /\ stratval >= 0 => IInv)'
      BY CountBegin, PTL
    <3> QED  BY <2>4, <2>5, <3>1
  <2> QED
    BY <2>2, <2>4, <2>6, <2>7 DEF ProgramIInv
<1>3. CASE CountPackets
  <2>1. /\ Connect \/ ConnectRefused \/ Fuzz \/ Main
        /\ UNCHANGED lineVars /\ UNCHANGED timeVars
        /\ status = "fuzzing"
    BY <1>3 DEF CountPackets, Counting, Fuzzing
  <2>2. UNCHANGED stratval
    BY <2>1
       DEF Connect, ConnectRefused, Fuzz, Main, InsaneDelta, NothingSent,
           Account
  <2>3. stratval' >= 0 => IInv'
    BY <2>1, <2>2, NextIInv DEF ProgramIInv, Next
  <2>4. Line!ReadSoFar' /\ status' = "fuzzing"
    BY <2>1, <2>2, OptionsStay DEF ProgramIInv, lineVars
  <2>5. Timed!IInv'
    BY <2>1, <2>2, SecondsStay DEF ProgramIInv
  <2> QED
    BY <2>3, <2>4, <2>5 DEF ProgramIInv
<1>4. CASE CountSeconds
  <2>1. /\ Timed!Next
        /\ UNCHANGED stratval /\ UNCHANGED lineVars /\ UNCHANGED countVars
        /\ status = "fuzzing"
    BY <1>4 DEF CountSeconds, Watching, Fuzzing
  <2>2. Timed!IInv'
    BY <2>1, SecondsStep DEF ProgramIInv
  <2>3. Line!ReadSoFar' /\ status' = "fuzzing"
    BY <2>1, OptionsStay DEF ProgramIInv, lineVars
  <2>4. stratval' >= 0 => IInv'
    BY <2>1, CountStays DEF ProgramIInv
  <2> QED
    BY <2>2, <2>3, <2>4 DEF ProgramIInv
<1>5. CASE UNCHANGED programVars
  <2>1. /\ UNCHANGED stratval /\ UNCHANGED lineVars
        /\ UNCHANGED countVars /\ UNCHANGED timeVars
    BY <1>5 DEF programVars
  <2>2. Line!ReadSoFar' /\ status' = status
    BY <2>1, OptionsStay DEF ProgramIInv, lineVars
  <2>3. Timed!IInv' /\ (stratval' >= 0 => IInv')
    BY <2>1, SecondsStay, CountStays DEF ProgramIInv
  <2>4. status' # "fuzzing" => Begin' /\ Timed!Begin'
    BY <2>1, <2>2
       DEF ProgramIInv, Begin, CallInit, Timed!Begin, countVars, batteryVars,
           callVars, timeVars
  <2> QED
    BY <2>2, <2>3, <2>4 DEF ProgramIInv
<1> QED
  BY <1>2, <1>3, <1>4, <1>5 DEF ProgramNext

(* The invariant holds of every run of the program.                        *)
THEOREM ProgramInvariance == ProgramSpec => []ProgramIInv
BY ProgramBegins, ProgramStep, PTL DEF ProgramSpec

-----------------------------------------------------------------------------
(* What follows from it                                                    *)

(* main.c 179-223: whatever was given, in any order and number, what the   *)
(* fuzzer runs with is the last of each, and within its range.             *)
THEOREM TheLastOptionCounts == ProgramSpec => []OptionsAreKept
<1>1. ProgramIInv => OptionsAreKept
  BY DEF ProgramIInv, Line!ReadSoFar, OptionsAreKept, Line!OptionsAreKept
<1> QED
  BY <1>1, ProgramInvariance, PTL

(* main.c 216: a second -n or -t is refused, even a repeated one.          *)
THEOREM CriteriaExclude == ProgramSpec => []OneCriterion
<1>1. ProgramIInv => OneCriterion
  BY DEF ProgramIInv, Line!ReadSoFar, OneCriterion, Line!OneCriterion
<1> QED
  BY <1>1, ProgramInvariance, PTL

(* main.c 118, with -t: "Delta went to hell" takes more than twice the     *)
(* given seconds of connecting and joining, for any -t, even a negative.   *)
THEOREM HellTakesWaiting == ProgramSpec => []HellIsWaiting
<1>1. ProgramIInv => HellIsWaiting
  BY DEF ProgramIInv, Timed!IInv, HellIsWaiting
<1> QED
  BY <1>1, ProgramInvariance, PTL

(* main.c 138, with -t: a battery that is done has used up its seconds.    *)
THEOREM NoEarlyReturn == ProgramSpec => []TimeIsUp
<1>1. ProgramIInv => TimeIsUp
  BY DEF ProgramIInv, Timed!IInv, TimeIsUp
<1> QED
  BY <1>1, ProgramInvariance, PTL

(* AMQP.c 499, with -t: the deadline is exceeded by nothing but the        *)
(* seconds of connecting and joining.                                      *)
THEOREM DeadlineIsKept == ProgramSpec => []StopsOnTime
<1>1. ProgramIInv => StopsOnTime
  BY DEF ProgramIInv, Timed!IInv, StopsOnTime
<1> QED
  BY <1>1, ProgramInvariance, PTL

(* main.c 87-143, with -n: what is shown above of the battery alone holds  *)
(* of the one that the options lead to.                                    *)
THEOREM PacketsAreCounted ==
  ProgramSpec =>
    [](stratval >= 0 => DeltaIsSane /\ DoneMeansEnough /\ OvershootBound)
<1>1. ProgramIInv =>
        (stratval >= 0 => DeltaIsSane /\ DoneMeansEnough /\ OvershootBound)
  BY DEF ProgramIInv, IInv
<1> QED
  BY <1>1, ProgramInvariance, PTL
===============================================================================

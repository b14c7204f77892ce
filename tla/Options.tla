--------------------------------- MODULE Options --------------------------------
(***************************************************************************)
(* The command line (main.c 146-246) and the seed (14-36).  getopt is      *)
(* external: it returns the options in turn, and leaves out what is none,  *)
(* the port that README.md has second among it.  An argument that strtol   *)
(* cannot read is the value 0.                                             *)
(***************************************************************************)
EXTENDS Integers, Sequences

CONSTANTS
  CommandLines,  \* sequences of arguments [opt, value]; opt is "none" if
                 \* the argument is no option
  DefaultPort    \* 5672

(* The options of the getopt string, and "none".                           *)
Letters == {"h", "p", "P", "R", "s", "n", "t", "v", "none"}

OptionsAssumption ==
  /\ DefaultPort \in Nat \ {0}
  /\ CommandLines \subseteq Seq([opt : Letters, value : Int])

VARIABLES
  argv,    \* all the arguments behind the address
  optind,  \* how many getopt has returned
  port, RULE_CHAOS, PACKET_CHAOS, seed, strat, stratval,
  srand,   \* what the generator was seeded with: "seed", "random", "time"
  status   \* "parsing", "seeding", "fuzzing", or "error": main returns 1

chaos     == <<RULE_CHAOS, PACKET_CHAOS>>
criterion == <<strat, stratval>>
vars      == <<argv, optind, port, chaos, seed, criterion, srand,
               status>>

UINT_MAX == -1   \* of seed: what -1 is converted to

-----------------------------------------------------------------------------
Init ==
  /\ argv \in CommandLines
  /\ optind = 0
  /\ port = DefaultPort
  /\ RULE_CHAOS = 0 /\ PACKET_CHAOS = 0
  /\ seed = UINT_MAX
  /\ strat = "0" /\ stratval = 0
  /\ srand = "nothing"
  /\ status = "parsing"

Given(letters) ==
  /\ status = "parsing" /\ optind < Len(argv)
  /\ argv[optind + 1].opt \in letters
  /\ optind' = optind + 1
  /\ UNCHANGED <<argv, srand>>

optarg == argv[optind + 1].value
opt    == argv[optind + 1].opt

Help ==
  /\ Given({"h"})
  /\ status' = "error"
  /\ UNCHANGED <<port, chaos, seed, criterion>>

Port ==
  /\ Given({"p"})
  /\ port' = optarg
  /\ UNCHANGED <<chaos, seed, criterion, status>>

(* A version that takes five levels for five to be the highest.            *)
ChaosLevel_Five ==
  /\ Given({"P", "R"})
  /\ IF optarg < 0 \/ optarg > 5
     THEN status' = "error" /\ UNCHANGED chaos
     ELSE /\ RULE_CHAOS' = IF opt = "R" THEN optarg ELSE RULE_CHAOS
          /\ PACKET_CHAOS' = IF opt = "P" THEN optarg ELSE PACKET_CHAOS
          /\ UNCHANGED status
  /\ UNCHANGED <<port, seed, criterion>>

ChaosLevel ==
  /\ Given({"P", "R"})
  /\ IF optarg < 0 \/ optarg > 4
     THEN status' = "error" /\ UNCHANGED chaos
     ELSE /\ RULE_CHAOS' = IF opt = "R" THEN optarg ELSE RULE_CHAOS
          /\ PACKET_CHAOS' = IF opt = "P" THEN optarg ELSE PACKET_CHAOS
          /\ UNCHANGED status
  /\ UNCHANGED <<port, seed, criterion>>

Seed ==
  /\ Given({"s"})
  /\ seed' = optarg
  /\ UNCHANGED <<port, chaos, criterion, status>>

(* A version that lets the second criterion replace the first.             *)
StopCriterion_Last ==
  /\ Given({"n", "t"})
  /\ strat' = opt /\ stratval' = optarg
  /\ UNCHANGED <<port, chaos, seed, status>>

StopCriterion ==
  /\ Given({"n", "t"})
  /\ IF strat # "0"
     THEN status' = "error" /\ UNCHANGED criterion
     ELSE strat' = opt /\ stratval' = optarg /\ UNCHANGED status
  /\ UNCHANGED <<port, chaos, seed>>

(* -v, and what getopt skips.                                              *)
Other ==
  /\ Given({"v", "none"})
  /\ UNCHANGED <<port, chaos, seed, criterion, status>>

EndOfOptions ==
  /\ status = "parsing" /\ optind = Len(argv)
  /\ status' = "seeding"
  /\ UNCHANGED <<argv, optind, port, chaos, seed, criterion, srand>>

(* With no seed, getrandom's, or the time if the system has no getrandom;  *)
(* if it fails otherwise, srand is not called, and main goes on.           *)
seed_RNG ==
  /\ status = "seeding"
  /\ srand' \in IF seed = UINT_MAX THEN {"random", "time", "nothing"}
                ELSE {"seed"}
  /\ status' = "fuzzing"
  /\ UNCHANGED <<argv, optind, port, chaos, seed, criterion>>

Next ==
  \/ Help \/ Port \/ ChaosLevel \/ Seed \/ StopCriterion \/ Other
  \/ EndOfOptions \/ seed_RNG

-----------------------------------------------------------------------------
(* Where one of these options stands among the first n arguments.          *)
Places(letters, n) == {i \in 1..n : argv[i].opt \in letters}

(* The value given last, or the default if there is none.                  *)
Latest(value, default, letter, n) ==
  LET given == Places({letter}, n)
  IN  \/ given = {} /\ value = default
      \/ \E i \in given : value = argv[i].value /\ \A j \in given : j <= i

(* The fuzzer runs with what the command line says, wherever an option     *)
(* stands and however often: the last of each, the levels of chaos within  *)
(* the range that the rest of the program relies on, and the same -s as    *)
(* the same run, for every seed but the one that asks for a random one.    *)
(* (An argument that is no option, README.md's [target port], is not read, *)
(* and no -s is no seed of 0.)                                             *)
OptionsAreKept ==
  status = "fuzzing" =>
    /\ Latest(port, DefaultPort, "p", Len(argv))
    /\ Latest(RULE_CHAOS, 0, "R", Len(argv)) /\ RULE_CHAOS \in 0..4
    /\ Latest(PACKET_CHAOS, 0, "P", Len(argv)) /\ PACKET_CHAOS \in 0..4
    /\ Latest(seed, UINT_MAX, "s", Len(argv))
    /\ (srand = "seed") <=> (seed # UINT_MAX)

(* The stop criterion after n arguments: none, or the only one given.      *)
Criterion(n) ==
  LET given == Places({"n", "t"}, n)
  IN  \/ given = {} /\ strat = "0"
      \/ \E i \in given :
           given = {i} /\ strat = argv[i].opt /\ stratval = argv[i].value

(* It has at most one stop criterion, which no other contradicts.          *)
OneCriterion == status = "fuzzing" => Criterion(Len(argv))

(* What the loop over getopt maintains: both hold of the arguments that    *)
(* were read so far, until one of them is refused.                         *)
ReadSoFar ==
  /\ argv \in CommandLines
  /\ optind \in 0..Len(argv)
  /\ status \in {"parsing", "seeding", "fuzzing", "error"}
  /\ strat \in {"0", "n", "t"} /\ stratval \in Int
  /\ RULE_CHAOS \in 0..4 /\ PACKET_CHAOS \in 0..4
  /\ status # "error" =>
       /\ Latest(port, DefaultPort, "p", optind)
       /\ Latest(RULE_CHAOS, 0, "R", optind)
       /\ Latest(PACKET_CHAOS, 0, "P", optind)
       /\ Latest(seed, UINT_MAX, "s", optind)
       /\ Criterion(optind)
  /\ status \in {"seeding", "fuzzing"} => optind = Len(argv)
  /\ status = "fuzzing" => ((srand = "seed") <=> (seed # UINT_MAX))
===============================================================================

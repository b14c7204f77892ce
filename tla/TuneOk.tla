--------------------------------- MODULE TuneOk --------------------------------
(***************************************************************************)
(* connection_tune_ok: how the client answers the limits a broker offers   *)
(* in TUNE.  Both are read from the arguments of the method as signed      *)
(* integers, and each answer is drawn with rand() % (received + 1).        *)
(***************************************************************************)
EXTENDS Bytes

CONSTANTS
  Offers,   \* argument octets of TUNE: channel-max, then frame-max
  MinFrame  \* the smallest frame-max that ends the loop, 0 apart: 4095

ASSUME OffersAssumption ==
  /\ Offers \subseteq [0..5 -> Octet]
  /\ MinFrame \in Nat

VARIABLES
  pc,           \* "channel", "frame", "write", "done"; or "SIGFPE"
  prompted,     \* is there a TUNE, or was the packet chosen by chaos?
  arguments,    \* its arguments
  channel_max, frame_max,
  channel_max_char, frame_max_char  \* what is put into the grammar

fields == <<channel_max_char, frame_max_char>>
vars   == <<pc, prompted, arguments, channel_max, frame_max, fields>>

-----------------------------------------------------------------------------
(* A version that adds one too many.                                       *)
Modulus_PlusTwo(received) == received + 2

Modulus(received) == received + 1

(* A version that takes 0 for too small.                                   *)
Again_Zero(size) == size < MinFrame

(* The condition of the while loop.                                        *)
Again(size) == size # 0 /\ size < MinFrame

(* Without a TUNE the largest values are sent.                             *)
Unprompted ==
  /\ pc = "channel" /\ ~prompted
  /\ channel_max' = Short - 1
  /\ frame_max' = -1
  /\ pc' = "write"
  /\ UNCHANGED <<prompted, arguments, fields>>

DrawChannel ==
  /\ pc = "channel" /\ prompted
  /\ LET m == Modulus(char_in_short(arguments[0], arguments[1]))
     IN  /\ channel_max' \in IF m = 0 THEN {channel_max} ELSE Draws(m)
         /\ pc' = IF m = 0 THEN "SIGFPE" ELSE "frame"
  /\ UNCHANGED <<prompted, arguments, frame_max, fields>>

DrawFrame ==
  /\ pc = "frame" /\ Again(frame_max)
  /\ LET m == Modulus(char_in_int(arguments[2], arguments[3],
                                  arguments[4], arguments[5]))
     IN  /\ frame_max' \in IF m = 0 THEN {frame_max} ELSE Draws(m)
         /\ pc' = IF m = 0 THEN "SIGFPE" ELSE "frame"
  /\ UNCHANGED <<prompted, arguments, channel_max, fields>>

Drawn ==
  /\ pc = "frame" /\ ~Again(frame_max)
  /\ pc' = "write"
  /\ UNCHANGED <<prompted, arguments, channel_max, frame_max, fields>>

(* The octets of the two rules.                                            *)
Write ==
  /\ pc = "write"
  /\ frame_max_char' = int_in_char(frame_max_char, frame_max, 0, 4)
  /\ channel_max_char' = short_in_char(channel_max_char, channel_max, 0, 2)
  /\ pc' = "done"
  /\ UNCHANGED <<prompted, arguments, channel_max, frame_max>>

-----------------------------------------------------------------------------
Init ==
  /\ pc = "channel"
  /\ prompted \in BOOLEAN
  /\ arguments \in Offers
  /\ channel_max = 0 /\ frame_max = -1
  /\ channel_max_char = [i \in 0..1 |-> 0]
  /\ frame_max_char = [i \in 0..3 |-> 0]

Next ==
  \/ Unprompted \/ DrawChannel \/ DrawFrame \/ Drawn \/ Write
  \/ pc \in {"done", "SIGFPE"} /\ UNCHANGED vars

Spec == Init /\ [][Next]_vars

(* rand() reaches every residue again and again, those that end the loop   *)
(* included: 0 always is one.                                              *)
Fairness ==
  /\ WF_vars(Next)
  /\ SF_vars(DrawFrame /\ ~Again(frame_max'))

FairSpec == Spec /\ Fairness

-----------------------------------------------------------------------------
TypeOK ==
  /\ pc \in {"channel", "frame", "write", "done", "SIGFPE"}
  /\ prompted \in BOOLEAN
  /\ arguments \in [0..5 -> Octet]
  /\ channel_max \in 0..(Short - 1)
  /\ frame_max \in -1..(Int32 - 1)
  /\ channel_max_char \in [0..1 -> Octet]
  /\ frame_max_char \in [0..3 -> Octet]

(* What the broker offered, as it meant it.                                *)
OfferedChannel == Unsigned16(arguments[0], arguments[1])
OfferedFrame   ==
  Unsigned32(arguments[2], arguments[3], arguments[4], arguments[5])

(* Although Connection.c reads the offer as signed integers, and utils.c   *)
(* gets one integer in two wrong, no answer is above what was offered.     *)
NeverAboveOffer ==
  pc \in {"write", "done"} /\ prompted =>
    /\ channel_max <= OfferedChannel
    /\ frame_max <= OfferedFrame

(* The modulus is zero for two kinds of offers only: the largest           *)
(* channel-max, and a frame-max of 0x0000FFFF, whose low half utils.c      *)
(* takes for -1.  (The largest frame-max reads as -65537.)                 *)
CrashOnlyOnMinusOne ==
  pc = "SIGFPE" =>
    \/ OfferedChannel = Short - 1
    \/ OfferedFrame = Short - 1

(* short_in_char puts the channel-max that was drawn into the packet: read *)
(* back as two octets in network order, it is the same.                    *)
ChannelMaxOnWire ==
  pc = "done" =>
    Unsigned16(channel_max_char[0], channel_max_char[1]) = channel_max

(* The draw of frame-max comes to an end.                                  *)
TuneOkEnds == <>(pc \in {"done", "SIGFPE"})
===============================================================================

--------------------------- MODULE SessionProperties ---------------------------
(***************************************************************************)
(* What a session promises.                                                *)
(***************************************************************************)
EXTENDS Session

(* The types the C declarations intend, by owner.                          *)
MainTypeOK ==
  /\ mpc \in {"start", "alloc", "create", "publish", "signal", "count",
              "running", "join_listener", "join_channel", "close_again",
              "free", "returned"}
  /\ retval \in Nat
  /\ closes \in Nat
  /\ args_freed \in BOOLEAN

ListenerTypeOK ==
  /\ lpc \in {"none", "born", "test", "poll", "deliver", "signal", "size",
              "cancel", "stop", "exited"}
  /\ missed_polls \in Nat
  /\ read_packet \in Packet
  /\ rereads \in Nat

ChannelTypeOK ==
  /\ cpc \in {"none", "lock", "waiting", "decide", "running", "send", "commit",
              "testcancel", "exited", "crashed"}
  /\ waiting_response \in 0..1
  /\ next_state \in State
  /\ sent_packet \in SentPacket
  /\ chaotic \in BOOLEAN

SharedTypeOK ==
  /\ current_state \in State
  /\ is_running \in 0..1
  /\ max_created_threads \in 0..1
  /\ packet_count \in Nat
  /\ channel_mutex \in {"free", "channel", "dead"}
  /\ channel_packet \in Packet
  /\ cancelled \in BOOLEAN
  /\ now \in Nat

BrokerTypeOK ==
  /\ bstate \in BrokerState
  /\ bopen \in BOOLEAN
  /\ unsolicited \in Nat
  /\ wire \in Seq(Frame)
  /\ toBroker \in Seq(ClientPacket)

HistoryTypeOK ==
  /\ last \in Frame \cup ClientPacket \cup {"none"}
  /\ lost \subseteq {"bundled", "fragmented", "overwritten"}
  /\ late \in Nat

TypeOK ==
  /\ MainTypeOK /\ ListenerTypeOK /\ ChannelTypeOK
  /\ SharedTypeOK /\ BrokerTypeOK /\ HistoryTypeOK

-----------------------------------------------------------------------------
(* Memory and locks                                                        *)

(* packet_decider and connection_packet_decider read packet and            *)
(* method_data without a test for NULL on most paths, and                  *)
(* ordered_packet_decider may return a pointer it never set.  Whatever     *)
(* PACKET_CHAOS does to the conversation, a decision ends the process only *)
(* over a frame the fuzzer does not implement: a decision with no frame is *)
(* taken in a state that has something to send.                            *)
CrashOnlyOnOddFrame ==
  cpc = "crashed" =>
    channel_packet \in {"OTHER_CLASS", "OTHER_TYPE", "TUNE_MINUS_ONE"}

(* fuzz frees listener_args, and its caller the grammar environments, only *)
(* when no thread that uses them is left.                                  *)
NoThreadOutlivesFuzz == args_freed => lpc = "exited" /\ cpc = "exited"

(* From the decision to the assignment of current_state, the frame the     *)
(* channel thread is answering is not replaced by the listener.            *)
FrameStableWhileAnswered ==
  [][(cpc \in {"decide", "running", "send"}) =>
       channel_packet' = channel_packet]_vars

(* The channel thread is not asleep with a frame in its slot, except       *)
(* between the listener's unlock and its pthread_cond_signal.              *)
NoLostWakeup ==
  channel_packet # NULL /\ cpc = "waiting" => lpc = "signal"

(* The listener runs before create_channel_thread has allocated the        *)
(* mutexes and slots it stores frames in, but no broker has been spoken to *)
(* by then, and so none has answered.                                      *)
TablesBeforeFrames ==
  lpc \in {"deliver", "signal"} => mpc \notin {"start", "alloc"}

(* Once the listener has stopped, is_running lets at most the one packet   *)
(* through whose test of is_running came before.                           *)
AtMostOneLatePacket == late <= 1

-----------------------------------------------------------------------------
(* The inductive invariant behind the properties above                     *)

(* How far main is tells which threads exist.                              *)
Phases ==
  /\ mpc = "start" <=> lpc = "none"
  /\ mpc \in {"start", "alloc", "create"} <=> cpc = "none"
  /\ mpc \in {"alloc", "create"} => current_state = None
  /\ is_running = 0 => lpc = "exited"

(* The channel thread owns its mutex from ChannelLock to ChannelCommit.    *)
Ownership ==
  /\ cpc \in {"decide", "running", "send", "commit"} =>
       channel_mutex = "channel"
  /\ channel_mutex = "dead" => cpc = "exited"

(* The states in which the client has something to say unasked, or is done.*)
Proactive == {None, ConnectionTuned, Connected, ConnectionClosed}

(* A channel thread that will not wait for the broker is in such a state.  *)
ReadyToDecide ==
  /\ cpc \in {"lock", "waiting", "decide"} => current_state # ConnectionClosed
  /\ cpc \in {"lock", "waiting", "decide", "testcancel"}
       /\ waiting_response = 0 => current_state \in Proactive
  /\ cpc \in {"running", "send", "commit"}
       /\ waiting_response = 0 => next_state \in Proactive
  /\ cpc = "decide" /\ channel_packet = NULL => waiting_response = 0

(* What is about to be sent is a packet, or a stale pointer that came from *)
(* a frame outside class Connection.                                       *)
SomethingToSend ==
  cpc \in {"running", "send"} =>
    \/ sent_packet \in ClientPacket
    \/ sent_packet = STALE /\ channel_packet \in {"OTHER_CLASS", "OTHER_TYPE"}

(* A late packet leaves the channel thread short of a second one.          *)
LateOnce == late # 0 => late = 1 /\ is_running = 0 /\ cpc # "send"

(* With a stop criterion, main passes the joins only behind the threads.   *)
Joined ==
  Strategy # "0" =>
    /\ mpc \in {"join_channel", "close_again", "free", "returned"} =>
         lpc = "exited"
    /\ mpc \in {"close_again", "free", "returned"} => cpc = "exited"
    /\ args_freed => mpc = "returned"

(* Until there is a channel thread, nothing is said on either side.        *)
Silence ==
  mpc \in {"start", "alloc", "create"} =>
    /\ lpc \notin {"deliver", "signal", "size"}
    /\ bstate = "header" /\ toBroker = <<>> /\ wire = <<>>

(* The conjunction the theorems of SessionProofs carry along.              *)
IInv ==
  /\ TypeOK /\ Phases /\ Ownership /\ ReadyToDecide /\ SomethingToSend
  /\ LateOnce /\ Joined /\ NoLostWakeup /\ CrashOnlyOnOddFrame /\ Silence

-----------------------------------------------------------------------------
(* The conversation, with PACKET_CHAOS off and a broker that answers only  *)
(* what it is asked                                                        *)

Grammar == INSTANCE ConnectionGrammar

(* What is sent and answered follows abnf/grammar-connection.              *)
ImplementsGrammar == Grammar!Spec

(* main counts on a session as FuzzCall has it: packets are sent between   *)
(* the call and the return only, five at most when the broker plays along, *)
(* and the result is a count that was right during the call.               *)
Caller == INSTANCE FuzzCall WITH
  MaxPerSession <- 5,
  first <- 0,
  call <- IF mpc \in {"start", "returned"}
          THEN [start |-> "idle", returned |-> "returned"][mpc] ELSE "fuzzing"

ImplementsFuzzCall == Caller!CallSpec

(* The frame of the previous answer has always been taken from the slot    *)
(* when the next one arrives, and no two frames arrive together.           *)
NoFrameLost == lost = {}

(* What the theorems about the conversation assume of the constants.       *)
Conforming ==
  /\ PACKET_CHAOS \in 0..1 /\ Unsolicited = {} /\ ~Fragmenting
  /\ MaxRereads = 0

(* The conversation from both ends: what was said last, the packet the     *)
(* broker waits for, the packets it has not read, and the frame that has   *)
(* not been answered.                                                      *)
Turns ==
  {<<"none",     "header",   <<>>,           NULL>>,
   <<"header",   "header",   <<"header">>,   NULL>>,
   <<"header",   "start_ok", <<>>,           "START">>,
   <<"START",    "start_ok", <<>>,           NULL>>,
   <<"start_ok", "start_ok", <<"start_ok">>, NULL>>,
   <<"start_ok", "tune_ok",  <<>>,           "TUNE">>,
   <<"TUNE",     "tune_ok",  <<>>,           NULL>>,
   <<"tune_ok",  "tune_ok",  <<"tune_ok">>,  NULL>>,
   <<"tune_ok",  "open",     <<>>,           NULL>>,
   <<"open",     "tune_ok",  <<"tune_ok", "open">>, NULL>>,
   <<"open",     "open",     <<"open">>,     NULL>>,
   <<"open",     "close",    <<>>,           "OPEN_OK">>,
   <<"OPEN_OK",  "close",    <<>>,           NULL>>,
   <<"close",    "close",    <<"close">>,    NULL>>,
   <<"close",    "over",     <<>>,           "CLOSE_OK">>,
   <<"CLOSE_OK", "over",     <<>>,           NULL>>}

(* A frame in the slot that no decision was taken about.                   *)
Unanswered ==
  channel_packet # NULL /\ cpc \notin {"running", "send", "commit"}

(* Such a frame is in one place: in TCP, with the listener or in the slot. *)
Due(frame) ==
  /\ wire = IF frame # NULL /\ lpc # "deliver" /\ ~Unanswered
            THEN <<frame>> ELSE <<>>
  /\ lpc = "deliver" => ~Unanswered /\ frame # NULL /\ read_packet = frame
  /\ Unanswered => frame # NULL /\ channel_packet = frame

TakesTurns == \E frame \in Packet :
  <<last, bstate, toBroker, frame>> \in Turns /\ Due(frame)

(* The state and waiting_response that a turn of the client leaves behind, *)
Resting ==
  [none |-> <<None, 0>>, header |-> <<ConnectionStart, 1>>,
   start_ok |-> <<ConnectionStart, 1>>, tune_ok |-> <<ConnectionTuned, 0>>,
   open |-> <<ConnectionOpen, 1>>, OPEN_OK |-> <<Connected, 0>>,
   close |-> <<ConnectionCloseOK, 1>>, CLOSE_OK |-> <<ConnectionClosed, 0>>]

(* and what it is about to say.                                            *)
Saying ==
  [none |-> "header", START |-> "start_ok", TUNE |-> "tune_ok",
   tune_ok |-> "open", OPEN_OK |-> "close"]

(* A client is at rest, is saying what comes next, or has given up because *)
(* nobody is listening.                                                    *)
AtRest(state) ==
  \/ last \in DOMAIN Resting /\ <<state, waiting_response>> = Resting[last]
  \/ state = ConnectionClosed /\ waiting_response = 0

InState ==
  /\ cpc \in {"running", "send"} =>
       /\ last \in DOMAIN Saying /\ sent_packet = Saying[last]
       /\ <<next_state, waiting_response>> = Resting[sent_packet]
  /\ cpc = "commit" => AtRest(next_state)
  /\ cpc \notin {"running", "send", "commit"} => AtRest(current_state)

(* The packets sent so far.                                                *)
Counted ==
  packet_count =
    [none |-> 0, header |-> 1, START |-> 1, start_ok |-> 2, TUNE |-> 2,
     tune_ok |-> 3, open |-> 4, OPEN_OK |-> 4, close |-> 5,
     CLOSE_OK |-> 5][last]

(* The invariant behind NoFrameLost, ImplementsGrammar, ImplementsFuzzCall.*)
ConversationInv == TakesTurns /\ InState /\ Counted /\ NoFrameLost

-----------------------------------------------------------------------------
(* Liveness                                                                *)

(* The listener leaves its loop, whatever the broker does: every poll is   *)
(* answered, missed, or the last.                                          *)
ListenerStops == <>(lpc = "exited" \/ Ended)

(* Once the listener has cancelled the channel thread, fuzz returns.       *)
CancelledSessionEnds == cancelled ~> Ended

-----------------------------------------------------------------------------
(* What the documentation and comments say, and the code does not do       *)

(* README.md, on Rule Chaos: "the chance of using the raw ABNF rule        *)
(* improves by 25%, up to 100% at Rule Chaos = 4"; and "Packet Chaos       *)
(* progresses the same way".                                               *)
AlwaysRandomAtFour ==
  PACKET_CHAOS = 4 /\ cpc \in {"running", "send"} => chaotic

(* AMQP.c, on the loop in listener: "Separating necessary for when AMQP    *)
(* frames come in "bundles"".                                              *)
NoBundleLost == "bundled" \notin lost

(* README.md, on the stop criteria: the program runs for N elapsed seconds *)
(* or N packets since start.                                               *)
SessionEnds == <>Ended
===============================================================================

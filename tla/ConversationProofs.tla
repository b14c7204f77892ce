--------------------------- MODULE ConversationProofs --------------------------
(***************************************************************************)
(* Proofs about the conversation of an ordered client with a broker that   *)
(* answers what it is asked, or fails: no frame is lost, and a session     *)
(* implements ConnectionGrammar and FuzzCall.                              *)
(***************************************************************************)
EXTENDS SessionProofs

-----------------------------------------------------------------------------
(* The conversation holds when fuzz is called.                             *)
LEMMA ConversationBegins == Init => ConversationInv
<1> SUFFICES ASSUME Init PROVE ConversationInv
  OBVIOUS
<1>1. TakesTurns
  <2>1. NULL \in Packet /\ <<"none", "header", <<>>, NULL>> \in Turns
    BY DEF Packet, Turns
  <2>2. <<last, bstate, toBroker, NULL>> = <<"none", "header", <<>>, NULL>>
    BY DEF Init
  <2>3. Due(NULL)
    BY DEF Init, Due, Unanswered
  <2> QED
    BY <2>1, <2>2, <2>3 DEF TakesTurns
<1>2. InState
  BY DEF Init, InState, AtRest, Resting
<1>3. Counted /\ NoFrameLost
  BY DEF Init, Counted, NoFrameLost
<1> QED
  BY <1>1, <1>2, <1>3 DEF ConversationInv

(* Whose turn it is depends on what was said and on where the frame is.    *)
LEMMA TurnStays ==
  ASSUME TakesTurns,
         UNCHANGED <<last, bstate, toBroker, wire>>,
         lpc' = "deliver" <=> lpc = "deliver",
         lpc = "deliver" => read_packet' = read_packet,
         Unanswered' <=> Unanswered,
         Unanswered => channel_packet' = channel_packet
  PROVE  TakesTurns'
<1>1. PICK frame \in Packet :
        <<last, bstate, toBroker, frame>> \in Turns /\ Due(frame)
  BY DEF TakesTurns
<1>2. Due(frame)'
  BY <1>1 DEF Due
<1>3. <<last, bstate, toBroker, frame>>' = <<last, bstate, toBroker, frame>>
  OBVIOUS
<1>4. frame \in Packet /\ <<last', bstate', toBroker', frame>> \in Turns
  BY <1>1, <1>3
<1> QED
  BY <1>2, <1>4 DEF TakesTurns

(* What the client is about to do depends on the channel thread alone.     *)
LEMMA StateStays ==
  ASSUME InState, UNCHANGED <<decision, current_state, last>>,
         cpc' = cpc \/ {cpc, cpc'} \cap {"running", "send", "commit"} = {}
  PROVE  InState'
BY DEF InState, AtRest, decision

(* At each turn, what the client may have in its slot, and what it says.   *)
LEMMA TurnOf ==
  ASSUME NEW frame, <<last, bstate, toBroker, frame>> \in Turns
  PROVE  /\ last = "none" => frame = NULL
         /\ last = "header" => frame \in {NULL, "START"}
         /\ last = "START" => frame = NULL
         /\ last = "start_ok" => frame \in {NULL, "TUNE"}
         /\ last = "TUNE" => frame = NULL
         /\ last = "tune_ok" => frame = NULL
         /\ last = "open" => frame \in {NULL, "OPEN_OK"}
         /\ last = "OPEN_OK" => frame = NULL
         /\ last = "close" => frame \in {NULL, "CLOSE_OK"}
         /\ last = "CLOSE_OK" => frame = NULL
         /\ last \in {"none", "header", "START", "start_ok", "TUNE", "tune_ok",
                      "open", "OPEN_OK", "close", "CLOSE_OK"}
BY DEF Turns, NULL

(* An ordered client that does not wait says what comes next, and one that *)
(* does answers the frame it waited for.                                   *)
LEMMA OrderedDecision ==
  ASSUME IInv, TakesTurns, InState, cpc = "decide",
         NEW a \in ordered_packet_decider(channel_packet, current_state,
                                          waiting_response)
  PROVE  \/ /\ channel_packet = NULL
            /\ last \in DOMAIN Saying
            /\ a.sent = Saying[last]
            /\ <<a.next, a.resp>> = Resting[a.sent]
         \/ /\ channel_packet = "START" /\ last = "header"
            /\ a = connection_start_ok
         \/ /\ channel_packet = "TUNE" /\ last = "start_ok"
            /\ a = connection_tune_ok("TUNE")
         \/ /\ channel_packet = "OPEN_OK" /\ last = "open"
            /\ a = Reply(Connected, 0, NULL)
         \/ /\ channel_packet = "CLOSE_OK" /\ last = "close"
            /\ a = Reply(ConnectionClosed, 0, NULL)
<1>1. PICK frame \in Packet :
        <<last, bstate, toBroker, frame>> \in Turns /\ Due(frame)
  BY DEF TakesTurns
<1>2. channel_packet # NULL => channel_packet = frame
  BY <1>1 DEF Due, Unanswered
<1>3. /\ current_state # ConnectionClosed
      /\ channel_packet = NULL => waiting_response = 0
  BY DEF IInv, ReadyToDecide
<1>4. /\ last \in DOMAIN Resting
      /\ <<current_state, waiting_response>> = Resting[last]
  BY <1>3 DEF InState, AtRest
<1> USE DEF None, ConnectionStart, ConnectionTune, ConnectionTuned,
            ConnectionOpen, Connected, ConnectionClose, ConnectionCloseOK,
            ConnectionClosed, NULL, Method, Reply
<1>5. CASE last = "none"
  <2>1. channel_packet = NULL /\ current_state = None
    BY <1>1, <1>2, <1>4, <1>5, TurnOf DEF Resting
  <2>2. a = amqp_header
    BY <2>1 DEF ordered_packet_decider
  <2> QED
    BY <1>5, <2>1, <2>2 DEF amqp_header, Saying, Resting
<1>6. CASE last = "tune_ok"
  <2>1. channel_packet = NULL /\ current_state = ConnectionTuned
    BY <1>1, <1>2, <1>4, <1>6, TurnOf DEF Resting
  <2>2. a = connection_open
    BY <2>1 DEF ordered_packet_decider, connection_packet_decider
  <2> QED
    BY <1>6, <2>1, <2>2 DEF connection_open, Saying, Resting
<1>7. CASE last = "OPEN_OK"
  <2>1. channel_packet = NULL /\ current_state = Connected
    BY <1>1, <1>2, <1>4, <1>7, TurnOf DEF Resting
  <2>2. a = connection_close
    BY <2>1 DEF ordered_packet_decider, connection_packet_decider
  <2> QED
    BY <1>7, <2>1, <2>2 DEF connection_close, Saying, Resting
<1>8. CASE last \in {"header", "start_ok", "open", "close"}
  <2>1. current_state # None /\ waiting_response = 1
    BY <1>4, <1>8 DEF Resting
  <2>2. channel_packet # NULL
    BY <1>3, <2>1
  <2>3. /\ last = "header" => channel_packet = "START"
        /\ last = "start_ok" => channel_packet = "TUNE"
        /\ last = "open" => channel_packet = "OPEN_OK"
        /\ last = "close" => channel_packet = "CLOSE_OK"
    BY <1>1, <1>2, <2>2, TurnOf
  <2>4. a = OnMethod(waiting_response)[channel_packet]
    BY <1>8, <2>1, <2>3 DEF ordered_packet_decider, connection_packet_decider
  <2> QED
    BY <1>8, <2>3, <2>4 DEF OnMethod
<1>9. CASE last = "CLOSE_OK"
  BY <1>3, <1>4, <1>9 DEF Resting
<1> QED
  BY <1>4, <1>5, <1>6, <1>7, <1>8, <1>9 DEF Resting

-----------------------------------------------------------------------------
(* Steps that neither speak nor move a frame leave the conversation alone. *)
LEMMA Neutral ==
  ASSUME ConversationInv,
         UNCHANGED <<last, bstate, toBroker, wire, channel_packet, decision,
                     current_state, packet_count, lost>>,
         lpc' = "deliver" <=> lpc = "deliver",
         lpc = "deliver" => read_packet' = read_packet,
         cpc' = cpc \/ {cpc, cpc'} \cap {"running", "send", "commit"} = {}
  PROVE  ConversationInv'
<1>1. TakesTurns'
  <2>1. Unanswered' <=> Unanswered
    BY DEF Unanswered
  <2> QED
    BY <2>1, TurnStays DEF ConversationInv
<1>2. InState'
  BY StateStays DEF ConversationInv
<1>3. Counted' /\ NoFrameLost'
  BY DEF ConversationInv, Counted, NoFrameLost
<1> QED
  BY <1>1, <1>2, <1>3 DEF ConversationInv

(* Until there is a channel thread, nobody has said or stored anything.    *)
LEMMA Quiet ==
  ASSUME IInv, ConversationInv, mpc \in {"start", "alloc", "create"}
  PROVE  last = "none" /\ waiting_response = 0 /\ channel_packet = NULL
<1>1. /\ cpc = "none" /\ lpc # "deliver"
      /\ bstate = "header" /\ toBroker = <<>> /\ wire = <<>>
  BY DEF IInv, Phases, Silence
<1>2. PICK frame \in Packet :
        <<last, bstate, toBroker, frame>> \in Turns /\ Due(frame)
  BY DEF ConversationInv, TakesTurns
<1>3. last = "none" /\ frame = NULL
  BY <1>1, <1>2 DEF Turns
<1>4. channel_packet = NULL
  BY <1>1, <1>2, <1>3 DEF Due, Unanswered
<1>5. AtRest(current_state)
  BY <1>1 DEF ConversationInv, InState
<1> QED
  BY <1>3, <1>4, <1>5 DEF AtRest, Resting

(* The steps of main and of the clock.                                     *)
LEMMA MainConverses ==
  ASSUME IInv, ConversationInv, Main \/ Tick
  PROVE  ConversationInv'
<1> USE DEF main, received, listener, decision, channel, slot, threads,
            broker, globals, history
<1>1. CASE MainStartListener
  <2>1. lpc = "none" /\ mpc = "start"
    BY <1>1 DEF MainStartListener, IInv, Phases
  <2>2. /\ last = "none" /\ waiting_response = 0 /\ cpc = "none"
        /\ channel_packet = NULL
    BY <2>1, Quiet DEF IInv, Phases
  <2>3. /\ UNCHANGED <<channel, slot, broker, packet_count, history>>
        /\ current_state' = None /\ lpc' = "born"
    BY <1>1 DEF MainStartListener
  <2>4. TakesTurns'
    <3>1. Unanswered' <=> Unanswered
      BY <2>3 DEF Unanswered
    <3> QED
      BY <2>1, <2>3, <3>1, TurnStays DEF ConversationInv
  <2>5. InState'
    BY <2>2, <2>3 DEF InState, AtRest, Resting
  <2>6. Counted' /\ NoFrameLost'
    BY <2>3 DEF ConversationInv, Counted, NoFrameLost
  <2> QED
    BY <2>4, <2>5, <2>6 DEF ConversationInv
<1>2. CASE MainAllocChannel
  BY <1>2, Quiet, Neutral DEF MainAllocChannel
<1>3. CASE MainCreateChannel
  BY <1>3, Quiet, Neutral DEF MainCreateChannel, IInv, Phases
<1>4. CASE MainPublishChannel
  BY <1>4, Neutral DEF MainPublishChannel
<1>5. CASE MainSignalChannel
  BY <1>5, Neutral DEF MainSignalChannel
<1>6. CASE MainReadCount
  BY <1>6, Neutral DEF MainReadCount
<1>7. CASE MainReadRunning
  BY <1>7, Neutral DEF MainReadRunning
<1>8. CASE MainJoinListener
  BY <1>8, Neutral DEF MainJoinListener
<1>9. CASE MainJoinChannel
  BY <1>9, Neutral DEF MainJoinChannel
<1>10. CASE MainCloseAgain
  BY <1>10, Neutral DEF MainCloseAgain
<1>11. CASE MainFree
  BY <1>11, Neutral DEF MainFree
<1>12. CASE Tick
  BY <1>12, Neutral DEF Tick
<1> QED
  BY <1>1, <1>2, <1>3, <1>4, <1>5, <1>6, <1>7, <1>8, <1>9, <1>10, <1>11,
     <1>12 DEF Main

(* The steps of the listener: a frame on its way is received alone and     *)
(* stored in an empty slot.                                                *)
LEMMA ListenerConverses ==
  ASSUME Conforming, IInv, ConversationInv, Listener
  PROVE  ConversationInv'
<1> USE DEF main, received, listener, decision, channel, slot, threads,
            broker, globals, history
<1>1. CASE ListenerRecv
  <2>1. PICK frame \in Packet :
          <<last, bstate, toBroker, frame>> \in Turns /\ Due(frame)
    BY DEF ConversationInv, TakesTurns
  <2>2. PICK k \in 1..Len(wire) :
          /\ wire' = SubSeq(wire, k + 1, Len(wire))
          /\ lost' = IF k > 1 THEN lost \cup {"bundled"} ELSE lost
    BY <1>1 DEF ListenerRecv
  <2>3. wire # <<>>
    BY <2>2
  <2>4. wire = <<frame>> /\ frame # NULL /\ ~Unanswered
    BY <2>1, <2>3 DEF Due
  <2>5. wire' = <<>> /\ lost' = lost
    BY <2>2, <2>4
  <2>6. /\ read_packet' = frame /\ lpc = "poll" /\ lpc' = "deliver"
        /\ UNCHANGED <<channel, slot, bstate, toBroker, last, packet_count>>
        /\ UNCHANGED current_state
    BY <1>1, <2>4 DEF ListenerRecv
  <2>7. TakesTurns'
    <3>1. ~Unanswered'
      BY <2>4, <2>6 DEF Unanswered
    <3>2. Due(frame)'
      BY <2>4, <2>5, <2>6, <3>1 DEF Due
    <3>3. <<last', bstate', toBroker', frame>> \in Turns
      BY <2>1, <2>6
    <3> QED
      BY <3>2, <3>3 DEF TakesTurns
  <2>8. InState'
    BY <2>6, StateStays DEF ConversationInv
  <2>9. Counted' /\ NoFrameLost'
    BY <2>5, <2>6 DEF ConversationInv, Counted, NoFrameLost
  <2> QED
    BY <2>7, <2>8, <2>9 DEF ConversationInv
<1>2. CASE ListenerRecvFragments
  BY <1>2 DEF ListenerRecvFragments, Conforming
<1>3. CASE ListenerDeliver
  <2>1. PICK frame \in Packet :
          <<last, bstate, toBroker, frame>> \in Turns /\ Due(frame)
    BY DEF ConversationInv, TakesTurns
  <2>2. /\ lpc = "deliver" /\ channel_mutex = "free" /\ lpc' = "signal"
        /\ channel_packet' = read_packet
        /\ UNCHANGED <<received, channel, broker, last, packet_count>>
        /\ UNCHANGED current_state
    BY <1>3 DEF ListenerDeliver
  <2>3. frame # NULL /\ read_packet = frame /\ ~Unanswered /\ wire = <<>>
    BY <2>1, <2>2 DEF Due
  <2>4. cpc \notin {"decide", "running", "send", "commit"}
    BY <2>2 DEF IInv, Ownership
  <2>5. channel_packet = NULL
    BY <2>3, <2>4 DEF Unanswered
  <2>6. TakesTurns'
    <3>1. Unanswered'
      BY <2>2, <2>3, <2>4 DEF Unanswered
    <3>2. Due(frame)'
      BY <2>2, <2>3, <3>1 DEF Due
    <3>3. <<last', bstate', toBroker', frame>> \in Turns
      BY <2>1, <2>2
    <3> QED
      BY <3>2, <3>3 DEF TakesTurns
  <2>7. InState'
    BY <2>2, StateStays DEF ConversationInv
  <2>8. Counted' /\ NoFrameLost'
    BY <1>3, <2>5, <2>2 DEF ListenerDeliver, ConversationInv, Counted, NoFrameLost
  <2> QED
    BY <2>6, <2>7, <2>8 DEF ConversationInv
<1>4. CASE ListenerReadSize
  <2>1. ~(rereads < MaxRereads)
    BY DEF Conforming, IInv, TypeOK, ListenerTypeOK
  <2> QED
    BY <1>4, <2>1, Neutral DEF ListenerReadSize
<1>5. CASE ListenerBorn
  BY <1>5, Neutral DEF ListenerBorn
<1>6. CASE ListenerTest
  BY <1>6, Neutral DEF ListenerTest
<1>7. CASE ListenerRecvEnd
  BY <1>7, Neutral DEF ListenerRecvEnd
<1>8. CASE ListenerMissedPoll
  BY <1>8, Neutral DEF ListenerMissedPoll
<1>9. CASE ListenerSignal
  BY <1>9, Neutral DEF ListenerSignal
<1>10. CASE ListenerCancel
  BY <1>10, Neutral DEF ListenerCancel
<1>11. CASE ListenerStop
  BY <1>11, Neutral DEF ListenerStop
<1> QED
  BY <1>1, <1>2, <1>3, <1>4, <1>5, <1>6, <1>7, <1>8, <1>9, <1>10, <1>11
     DEF Listener

(* The steps of the broker: it reads the packet it waits for.              *)
LEMMA BrokerConverses ==
  ASSUME Conforming, ConversationInv, Broker
  PROVE  ConversationInv'
<1> USE DEF main, received, listener, decision, channel, slot, threads,
            broker, globals, history
<1>1. CASE BrokerReceive
  <2>1. PICK frame \in Packet :
          <<last, bstate, toBroker, frame>> \in Turns /\ Due(frame)
    BY DEF ConversationInv, TakesTurns
  <2>2. toBroker # <<>>
    BY <1>1 DEF BrokerReceive
  <2>3. /\ Head(toBroker) = bstate /\ frame = NULL
        /\ bstate \in DOMAIN Script
    BY <2>1, <2>2 DEF Turns, NULL, Script
  <2>4. wire = <<>> /\ lpc # "deliver" /\ ~Unanswered
    BY <2>1, <2>3 DEF Due
  <2>5. /\ toBroker' = Tail(toBroker)
        /\ wire' = wire \o Script[bstate].reply
        /\ bstate' = Script[bstate].then
        /\ UNCHANGED <<main, listener, channel, slot, globals, history>>
    BY <1>1, <2>3 DEF BrokerReceive
  <2>6. PICK answer \in Packet :
          /\ <<last, bstate', toBroker', answer>> \in Turns
          /\ wire' = IF answer = NULL THEN <<>> ELSE <<answer>>
    <3>1. CASE bstate = "header"
      <4>1. last = "header" /\ toBroker = <<"header">>
        BY <2>1, <2>2, <3>1 DEF Turns
      <4>2. /\ bstate' = "start_ok" /\ toBroker' = <<>>
            /\ wire' = <<"START">>
        BY <2>4, <2>5, <3>1, <4>1 DEF Script
      <4> QED
        BY <4>1, <4>2 DEF Turns, NULL, Packet, Frame, Method
    <3>2. CASE bstate = "start_ok"
      <4>1. last = "start_ok" /\ toBroker = <<"start_ok">>
        BY <2>1, <2>2, <3>2 DEF Turns
      <4>2. /\ bstate' = "tune_ok" /\ toBroker' = <<>>
            /\ wire' = <<"TUNE">>
        BY <2>4, <2>5, <3>2, <4>1 DEF Script
      <4> QED
        BY <4>1, <4>2 DEF Turns, NULL, Packet, Frame, Method
    <3>3. CASE bstate = "tune_ok"
      <4>1. \/ last = "tune_ok" /\ toBroker = <<"tune_ok">>
            \/ last = "open" /\ toBroker = <<"tune_ok", "open">>
        BY <2>1, <2>2, <3>3 DEF Turns
      <4>2. bstate' = "open" /\ wire' = <<>>
        BY <2>4, <2>5, <3>3 DEF Script
      <4>3. \/ last = "tune_ok" /\ toBroker' = <<>>
            \/ last = "open" /\ toBroker' = <<"open">>
        <5>1. Tail(<<"tune_ok">>) = <<>>
          OBVIOUS
        <5>2. Tail(<<"tune_ok", "open">>) = <<"open">>
          OBVIOUS
        <5> QED
          BY <2>5, <4>1, <5>1, <5>2
      <4> QED
        BY <4>2, <4>3 DEF Turns, NULL, Packet
    <3>4. CASE bstate = "open"
      <4>1. last = "open" /\ toBroker = <<"open">>
        BY <2>1, <2>2, <3>4 DEF Turns
      <4>2. /\ bstate' = "close" /\ toBroker' = <<>>
            /\ wire' = <<"OPEN_OK">>
        BY <2>4, <2>5, <3>4, <4>1 DEF Script
      <4> QED
        BY <4>1, <4>2 DEF Turns, NULL, Packet, Frame, Method
    <3>5. CASE bstate = "close"
      <4>1. last = "close" /\ toBroker = <<"close">>
        BY <2>1, <2>2, <3>5 DEF Turns
      <4>2. /\ bstate' = "over" /\ toBroker' = <<>>
            /\ wire' = <<"CLOSE_OK">>
        BY <2>4, <2>5, <3>5, <4>1 DEF Script
      <4> QED
        BY <4>1, <4>2 DEF Turns, NULL, Packet, Frame, Method
    <3> QED
      BY <2>3, <3>1, <3>2, <3>3, <3>4, <3>5 DEF Script
  <2>7. TakesTurns'
    <3>1. ~Unanswered' /\ lpc' # "deliver" /\ last' = last
      BY <2>4, <2>5 DEF Unanswered
    <3>2. Due(answer)'
      BY <2>6, <3>1 DEF Due
    <3> QED
      BY <2>6, <3>1, <3>2 DEF TakesTurns
  <2>8. InState'
    BY <2>5, StateStays DEF ConversationInv
  <2>9. Counted' /\ NoFrameLost'
    BY <2>5 DEF ConversationInv, Counted, NoFrameLost
  <2> QED
    BY <2>7, <2>8, <2>9 DEF ConversationInv
<1>2. CASE BrokerUnsolicited
  BY <1>2 DEF BrokerUnsolicited, Conforming
<1>3. CASE BrokerClose
  BY <1>3, Neutral DEF BrokerClose
<1> QED
  BY <1>1, <1>2, <1>3 DEF Broker

(* A decision: to say what comes next, or to take the frame in the slot.   *)
LEMMA DecisionConverses ==
  ASSUME Conforming, IInv, ConversationInv, ChannelDecide
  PROVE  /\ ConversationInv'
         /\ last' # last => last' \in Grammar!Follow[last]
<1> USE DEF main, received, listener, slot, threads, broker, globals
<1>1. PICK frame \in Packet :
        <<last, bstate, toBroker, frame>> \in Turns /\ Due(frame)
  BY DEF ConversationInv, TakesTurns
<1>2. PICK a \in ordered_packet_decider(channel_packet, current_state,
                                        waiting_response) :
        /\ next_state' = a.next
        /\ waiting_response' = a.resp
        /\ sent_packet' = a.sent
        /\ \/ a.sent = CRASH /\ cpc' = "crashed"
           \/ a.sent = NULL /\ cpc' = "commit"
           \/ a.sent \in ClientPacket \cup {STALE} /\ cpc' = "running"
  <2>1. \A roll \in Roll : ~Chaotic(roll)
    BY DEF Conforming, Roll, Chaotic
  <2> QED
    BY <2>1 DEF ChannelDecide
<1>3. /\ cpc = "decide"
      /\ UNCHANGED <<main, listener, slot, threads, broker, globals, lost>>
      /\ last' = IF channel_packet = NULL THEN last ELSE channel_packet
  BY DEF ChannelDecide
<1>4. CASE channel_packet = NULL
  <2>1. /\ last \in DOMAIN Saying /\ a.sent = Saying[last]
        /\ <<a.next, a.resp>> = Resting[a.sent]
    BY <1>2, <1>3, <1>4, OrderedDecision DEF ConversationInv, NULL
  <2>2. cpc' = "running" /\ last' = last
    BY <1>2, <1>3, <1>4, <2>1 DEF Saying, NULL, CRASH
  <2>3. TakesTurns'
    <3>1. Unanswered' <=> Unanswered
      BY <1>3, <1>4 DEF Unanswered
    <3> QED
      BY <1>3, <2>2, <3>1, TurnStays DEF ConversationInv
  <2>4. InState'
    BY <1>2, <2>1, <2>2 DEF InState
  <2>5. Counted' /\ NoFrameLost'
    BY <1>3, <2>2 DEF ConversationInv, Counted, NoFrameLost
  <2> QED
    BY <2>2, <2>3, <2>4, <2>5 DEF ConversationInv
<1>5. CASE channel_packet # NULL
  <2>1. /\ Unanswered /\ frame = channel_packet /\ lpc # "deliver"
        /\ wire = <<>> /\ last' = frame
    BY <1>1, <1>3, <1>5 DEF Due, Unanswered
  <2>2. /\ <<frame, bstate, toBroker, NULL>> \in Turns
        /\ <<last, frame>> \in {<<"header", "START">>, <<"start_ok", "TUNE">>,
                                <<"open", "OPEN_OK">>, <<"close", "CLOSE_OK">>}
    BY <1>1, <1>5, <2>1 DEF Turns
  <2>3. /\ cpc' = "running" =>
             /\ last' \in DOMAIN Saying /\ a.sent = Saying[last']
             /\ <<a.next, a.resp>> = Resting[a.sent]
        /\ cpc' = "commit" =>
             /\ last' \in DOMAIN Resting
             /\ <<a.next, a.resp>> = Resting[last']
        /\ cpc' \in {"running", "commit"}
    <3> USE DEF NULL, STALE, CRASH, ClientPacket, Reply, Saying, Resting
    <3>1. CASE channel_packet = "START" /\ a = connection_start_ok
      BY <1>2, <2>1, <3>1 DEF connection_start_ok
    <3>2. CASE channel_packet = "TUNE" /\ a = connection_tune_ok("TUNE")
      BY <1>2, <2>1, <3>2 DEF connection_tune_ok
    <3>3. CASE channel_packet = "OPEN_OK" /\ a = Reply(Connected, 0, NULL)
      BY <1>2, <2>1, <3>3
    <3>4. CASE channel_packet = "CLOSE_OK"
               /\ a = Reply(ConnectionClosed, 0, NULL)
      BY <1>2, <2>1, <3>4
    <3> QED
      BY <1>2, <1>3, <1>5, <3>1, <3>2, <3>3, <3>4, OrderedDecision
         DEF ConversationInv
  <2>4. TakesTurns'
    <3>1. ~Unanswered'
      BY <2>3 DEF Unanswered
    <3>2. Due(NULL)'
      BY <1>3, <2>1, <3>1 DEF Due
    <3>3. <<last', bstate', toBroker', NULL>> \in Turns
      BY <1>3, <2>1, <2>2
    <3> QED
      BY <3>2, <3>3 DEF TakesTurns, Packet
  <2>5. InState'
    BY <1>2, <2>3 DEF InState, AtRest
  <2>6. Counted' /\ NoFrameLost'
    BY <1>3, <2>1, <2>2 DEF ConversationInv, Counted, NoFrameLost
  <2>7. last' \in Grammar!Follow[last]
    BY <2>1, <2>2 DEF Grammar!Follow
  <2> QED
    BY <2>4, <2>5, <2>6, <2>7 DEF ConversationInv
<1> QED
  BY <1>4, <1>5

(* A second packet in the socket.                                          *)
LEMMA TwoInARow ==
  ASSUME NEW S, NEW x \in S, NEW y \in S, NEW s \in Seq(S), s = <<x>>
  PROVE  Append(s, y) = <<x, y>>
<1>1. \A t \in Seq(S) : Len(t) = 2 /\ t[1] = x /\ t[2] = y => t = <<x, y>>
  OBVIOUS
<1>2. Len(s) = 1 /\ s[1] = x
  OBVIOUS
<1>3. Append(s, y) \in Seq(S)
  OBVIOUS
<1>4. Len(Append(s, y)) = 2
  BY <1>2
<1>5. Append(s, y)[1] = x
  BY <1>2
<1>6. Append(s, y)[2] = y
  BY <1>2
<1> QED
  BY <1>1, <1>3, <1>4, <1>5, <1>6

(* A packet is sent in its turn, and counted.                              *)
LEMMA SendConverses ==
  ASSUME IInv, ConversationInv, ChannelSend
  PROVE  /\ ConversationInv'
         /\ last' # last => last' \in Grammar!Follow[last]
         /\ \/ packet_count' = packet_count
            \/ packet_count \in 0..4 /\ packet_count' = packet_count + 1
<1> USE DEF main, received, listener, slot, threads, broker, globals
<1>1. PICK frame \in Packet :
        <<last, bstate, toBroker, frame>> \in Turns /\ Due(frame)
  BY DEF ConversationInv, TakesTurns
<1>2. /\ cpc = "send" /\ last \in DOMAIN Saying
      /\ sent_packet = Saying[last]
      /\ <<next_state, waiting_response>> = Resting[sent_packet]
  BY DEF ChannelSend, ConversationInv, InState
<1>3. sent_packet # STALE
  BY <1>2 DEF Saying, STALE
<1>4. /\ cpc' = "commit"
      /\ UNCHANGED <<main, listener, slot, threads, bstate, wire, lost>>
      /\ UNCHANGED current_state
  BY <1>3 DEF ChannelSend, Freed
<1>5. ~Unanswered /\ ~Unanswered'
  BY <1>2, <1>4 DEF Unanswered
<1>6. CASE DeliveryFailed /\ next_state' = ConnectionClosed
           /\ waiting_response' = 0
  <2>1. UNCHANGED <<packet_count, toBroker, last>>
    BY <1>6 DEF DeliveryFailed
  <2>2. TakesTurns'
    BY <1>4, <1>5, <2>1, TurnStays DEF ConversationInv
  <2>3. InState'
    BY <1>4, <1>6 DEF InState, AtRest
  <2>4. Counted' /\ NoFrameLost'
    BY <1>4, <2>1 DEF ConversationInv, Counted, NoFrameLost
  <2> QED
    BY <2>1, <2>2, <2>3, <2>4 DEF ConversationInv
<1>7. CASE Delivered /\ UNCHANGED <<next_state, waiting_response>>
  <2>1. /\ packet_count' = packet_count + 1
        /\ toBroker' = Append(toBroker, sent_packet)
        /\ last' = sent_packet
    BY <1>3, <1>7 DEF Delivered
  <2>2. frame = NULL /\ <<last', bstate, toBroker', NULL>> \in Turns
    <3>1. \/ /\ last # "tune_ok" /\ frame = NULL
             /\ bstate = sent_packet /\ toBroker = <<>>
          \/ /\ last = "tune_ok" /\ frame = NULL
             /\ \/ bstate = "tune_ok" /\ toBroker = <<"tune_ok">>
                \/ bstate = "open" /\ toBroker = <<>>
      BY <1>1, <1>2 DEF Turns, Saying
    <3>2. CASE last = "tune_ok" /\ bstate = "tune_ok"
      <4>1. toBroker \in Seq(ClientPacket) /\ toBroker = <<"tune_ok">>
        BY <3>1, <3>2, <1>2 DEF IInv, TypeOK, BrokerTypeOK, Saying
      <4>2. sent_packet = "open"
        BY <1>2, <3>2 DEF Saying
      <4>3. last' = "open" /\ toBroker' = <<"tune_ok", "open">>
        BY <2>1, <4>1, <4>2, TwoInARow DEF ClientPacket
      <4> QED
        BY <3>1, <3>2, <4>3 DEF Turns
    <3>3. CASE toBroker = <<>> /\ bstate = sent_packet
      <4>1. toBroker' = <<sent_packet>>
        BY <2>1, <3>3
      <4>2. sent_packet \in {"header", "start_ok", "tune_ok", "open", "close"}
        BY <1>2 DEF Saying
      <4> QED
        BY <2>1, <3>1, <3>3, <4>1, <4>2 DEF Turns
    <3> QED
      BY <1>2, <3>1, <3>2, <3>3 DEF Saying
  <2>3. TakesTurns'
    <3>1. Due(NULL)'
      BY <1>1, <1>4, <1>5, <2>2 DEF Due
    <3> QED
      BY <1>4, <2>2, <3>1 DEF TakesTurns, Packet
  <2>4. InState'
    BY <1>2, <1>4, <1>7, <2>1 DEF InState, AtRest, Saying, Resting
  <2>5. Counted' /\ packet_count \in 0..4
    BY <1>2, <2>1 DEF ConversationInv, Counted, Saying
  <2>6. NoFrameLost'
    BY <1>4 DEF ConversationInv, NoFrameLost
  <2>7. last' \in Grammar!Follow[last]
    BY <1>2, <2>1 DEF Saying, Grammar!Follow
  <2> QED
    BY <2>1, <2>3, <2>4, <2>5, <2>6, <2>7 DEF ConversationInv
<1> QED
  BY <1>6, <1>7 DEF ChannelSend

(* The steps of the channel thread.                                        *)
LEMMA ChannelConverses ==
  ASSUME Conforming, IInv, ConversationInv, Channel \/ ChannelSpuriousWakeup
  PROVE  ConversationInv'
<1> USE DEF main, received, listener, decision, channel, slot, threads,
            broker, globals, history
<1>1. CASE ChannelDecide
  BY <1>1, DecisionConverses
<1>2. CASE ChannelSend
  BY <1>2, SendConverses
<1>3. CASE ChannelReadRunning
  <2>1. /\ cpc = "running" /\ cpc' \in {"send", "commit"}
        /\ UNCHANGED <<last, bstate, toBroker, wire, lpc, read_packet, slot,
                       sent_packet, packet_count, lost>>
    <3>1. cpc = "running" /\ sent_packet # STALE
      BY <1>3 DEF ChannelReadRunning, ConversationInv, InState, Saying, STALE
    <3> QED
      BY <1>3, <3>1 DEF ChannelReadRunning, Freed
  <2>2. TakesTurns'
    <3>1. ~Unanswered /\ ~Unanswered'
      BY <2>1 DEF Unanswered
    <3> QED
      BY <2>1, <3>1, TurnStays DEF ConversationInv
  <2>3. InState'
    <3>1. CASE cpc' = "send" /\ UNCHANGED <<next_state, waiting_response>>
      BY <2>1, <3>1 DEF ConversationInv, InState
    <3>2. CASE cpc' = "commit" /\ next_state' = ConnectionClosed
               /\ waiting_response' = 0
      BY <3>2 DEF InState, AtRest
    <3> QED
      BY <1>3, <2>1, <3>1, <3>2 DEF ChannelReadRunning, Freed
  <2>4. Counted' /\ NoFrameLost'
    BY <2>1 DEF ConversationInv, Counted, NoFrameLost
  <2> QED
    BY <2>2, <2>3, <2>4 DEF ConversationInv
<1>4. CASE ChannelCommit
  <2>1. /\ cpc = "commit" /\ cpc' = "testcancel"
        /\ channel_packet' = NULL /\ current_state' = next_state
        /\ UNCHANGED <<last, bstate, toBroker, wire, lpc, read_packet,
                       waiting_response, packet_count, lost>>
    BY <1>4 DEF ChannelCommit
  <2>2. TakesTurns'
    <3>1. ~Unanswered /\ ~Unanswered'
      BY <2>1 DEF Unanswered
    <3> QED
      BY <2>1, <3>1, TurnStays DEF ConversationInv
  <2>3. InState'
    BY <2>1 DEF ConversationInv, InState, AtRest
  <2>4. Counted' /\ NoFrameLost'
    BY <2>1 DEF ConversationInv, Counted, NoFrameLost
  <2> QED
    BY <2>2, <2>3, <2>4 DEF ConversationInv
<1>5. CASE ChannelLock
  BY <1>5, Neutral DEF ChannelLock
<1>6. CASE ChannelSpuriousWakeup
  BY <1>6, Neutral DEF ChannelSpuriousWakeup
<1>7. CASE ChannelCancelledWaiting
  BY <1>7, Neutral DEF ChannelCancelledWaiting
<1>8. CASE ChannelTestCancel
  BY <1>8, Neutral DEF ChannelTestCancel
<1> QED
  BY <1>1, <1>2, <1>3, <1>4, <1>5, <1>6, <1>7, <1>8 DEF Channel

(* Every step keeps the conversation.                                      *)
LEMMA ConversationStep ==
  ASSUME Conforming
  PROVE  IInv /\ ConversationInv /\ [Next]_vars => ConversationInv'
<1> SUFFICES ASSUME IInv, ConversationInv, [Next]_vars
             PROVE  ConversationInv'
  OBVIOUS
<1>1. CASE UNCHANGED vars
  BY <1>1, Neutral
     DEF vars, main, received, listener, decision, channel, slot, threads,
         broker, globals, history
<1> QED
  BY <1>1, MainConverses, ListenerConverses, ChannelConverses, BrokerConverses
     DEF Next

(* The invariant of a conforming conversation.                             *)
LEMMA Conversation == ASSUME Conforming PROVE Spec => []ConversationInv
BY ConversationBegins, ConversationStep, Invariance, PTL DEF Spec

-----------------------------------------------------------------------------
(* What follows from it                                                    *)

(* An ordered client and a broker that answers what it is asked, whatever  *)
(* the broker refuses and whenever it leaves: each frame has been taken    *)
(* from its slot before the next arrives, so neither the loop over a       *)
(* bundle nor the unconditional store of the listener loses one.           *)
THEOREM FramesAreKept ==
  ASSUME Conforming
  PROVE  Spec => []NoFrameLost
<1>1. ConversationInv => NoFrameLost
  BY DEF ConversationInv
<1> QED
  BY <1>1, Conversation, PTL

(* What is said changes in a decision or by a send, and then as the        *)
(* grammar has it.                                                         *)
LEMMA SaysWhatFollows ==
  ASSUME Conforming
  PROVE  IInv /\ ConversationInv /\ [Next]_vars => [Grammar!Next]_last
<1> SUFFICES ASSUME IInv, ConversationInv, [Next]_vars
             PROVE  last' = last \/ last' \in Grammar!Follow[last]
  BY DEF Grammar!Next
<1> USE DEF history
<1>1. CASE ChannelDecide
  BY <1>1, DecisionConverses
<1>2. CASE ChannelSend
  BY <1>2, SendConverses
<1>3. CASE Main \/ Tick
  BY <1>3
     DEF Main, MainStartListener, MainAllocChannel, MainCreateChannel,
         MainPublishChannel, MainSignalChannel, MainReadCount,
         MainReadRunning, MainJoinListener, MainJoinChannel, MainCloseAgain,
         MainFree, Tick
<1>4. CASE Listener \/ Broker
  BY <1>4
     DEF Listener, ListenerBorn, ListenerTest, ListenerRecv,
         ListenerRecvFragments, ListenerRecvEnd, ListenerMissedPoll,
         ListenerDeliver, ListenerSignal, ListenerReadSize, ListenerCancel,
         ListenerStop, Broker, BrokerReceive, BrokerUnsolicited, BrokerClose
<1>5. CASE \/ ChannelLock \/ ChannelSpuriousWakeup \/ ChannelCancelledWaiting
           \/ ChannelReadRunning \/ ChannelCommit \/ ChannelTestCancel
  BY <1>5
     DEF ChannelLock, ChannelSpuriousWakeup, ChannelCancelledWaiting,
         ChannelReadRunning, ChannelCommit, ChannelTestCancel
<1>6. CASE UNCHANGED vars
  BY <1>6 DEF vars
<1> QED
  BY <1>1, <1>2, <1>3, <1>4, <1>5, <1>6 DEF Next, Channel

(* With PACKET_CHAOS off, the packets sent and the frames answered are a   *)
(* prefix of a conversation that abnf/grammar-connection allows.           *)
THEOREM GrammarIsFollowed ==
  ASSUME Conforming
  PROVE  Spec => ImplementsGrammar
<1>1. Init => Grammar!Init
  BY DEF Init, Grammar!Init
<1> QED
  BY <1>1, SaysWhatFollows, Conversation, Invariance, PTL
     DEF Spec, ImplementsGrammar, Grammar!Spec

(* A step of the session is a step of FuzzCall, or none.                   *)
LEMMA CallsAsPromised ==
  ASSUME Conforming, Strategy # "t"
  PROVE  IInv /\ ConversationInv /\ [Next]_vars =>
           [Caller!CallNext]_(Caller!callVars)
<1> SUFFICES ASSUME IInv, ConversationInv, [Next]_vars
             PROVE  Caller!CallNext \/ UNCHANGED Caller!callVars
  OBVIOUS
<1> USE DEF main, globals
<1>1. CASE MainStartListener
  <2>1. packet_count = 0
    BY <1>1, Quiet DEF MainStartListener, ConversationInv, Counted
  <2>2. Caller!Call
    BY <1>1, <2>1 DEF MainStartListener, Caller!Call
  <2> QED
    BY <2>2 DEF Caller!CallNext
<1>2. CASE MainReadCount
  <2>1. Caller!ReadCount
    BY <1>2 DEF MainReadCount, Current, Caller!ReadCount
  <2> QED
    BY <2>1 DEF Caller!CallNext
<1>3. CASE MainFree
  <2>1. retval >= 0
    BY DEF IInv, TypeOK, MainTypeOK
  <2>2. Caller!Return
    BY <1>3, <2>1 DEF MainFree, Caller!Return
  <2> QED
    BY <2>2 DEF Caller!CallNext
<1>4. CASE ChannelSend
  <2>1. UNCHANGED main
    BY <1>4 DEF ChannelSend
  <2>2. CASE packet_count' = packet_count
    BY <2>1, <2>2 DEF Caller!callVars
  <2>3. CASE packet_count \in 0..4 /\ packet_count' = packet_count + 1
    <3>1. mpc \notin {"start", "returned"}
      BY <1>4 DEF ChannelSend, Running, Ended, IInv, Phases
    <3>2. Caller!SendPacket
      BY <2>1, <2>3, <3>1 DEF Caller!SendPacket
    <3> QED
      BY <3>2 DEF Caller!CallNext
  <2> QED
    BY <1>4, <2>2, <2>3, SendConverses
<1>5. CASE \/ MainAllocChannel \/ MainCreateChannel \/ MainPublishChannel
           \/ MainSignalChannel \/ MainReadRunning \/ MainJoinListener
           \/ MainJoinChannel \/ MainCloseAgain
  BY <1>5
     DEF MainAllocChannel, MainCreateChannel, MainPublishChannel,
         MainSignalChannel, MainReadRunning, MainJoinListener,
         MainJoinChannel, MainCloseAgain, Caller!callVars
<1>6. CASE Tick \/ Listener \/ Broker
  BY <1>6
     DEF Tick, Listener, ListenerBorn, ListenerTest, ListenerRecv,
         ListenerRecvFragments, ListenerRecvEnd, ListenerMissedPoll,
         ListenerDeliver, ListenerSignal, ListenerReadSize, ListenerCancel,
         ListenerStop, Broker, BrokerReceive, BrokerUnsolicited, BrokerClose,
         Caller!callVars
<1>7. CASE \/ ChannelLock \/ ChannelSpuriousWakeup \/ ChannelCancelledWaiting
           \/ ChannelDecide \/ ChannelReadRunning \/ ChannelCommit
           \/ ChannelTestCancel
  BY <1>7
     DEF ChannelLock, ChannelSpuriousWakeup, ChannelCancelledWaiting,
         ChannelDecide, ChannelReadRunning, ChannelCommit, ChannelTestCancel,
         Caller!callVars
<1>8. CASE UNCHANGED vars
  BY <1>8 DEF vars, Caller!callVars
<1> QED
  BY <1>1, <1>2, <1>3, <1>4, <1>5, <1>6, <1>7, <1>8 DEF Next, Main, Channel

(* main can count on a conforming session as FuzzCall describes it: five   *)
(* packets at most, all between the call and the return, and a result that *)
(* the counter had.                                                        *)
THEOREM CallIsImplemented ==
  ASSUME Conforming, Strategy # "t"
  PROVE  Spec => ImplementsFuzzCall
<1>1. Init => Caller!CallInit
  BY DEF Init, Caller!CallInit
<1> QED
  BY <1>1, CallsAsPromised, Conversation, Invariance, PTL
     DEF Spec, ImplementsFuzzCall, Caller!CallSpec
===============================================================================

----------------------------- MODULE SessionProofs -----------------------------
(***************************************************************************)
(* Proofs about a session, for every value of the constants.               *)
(***************************************************************************)
EXTENDS SessionProperties, TLAPS

-----------------------------------------------------------------------------
(* The deciders                                                            *)

(* The components of an answer.                                            *)
LEMMA ReplyFields ==
  ASSUME NEW next, NEW resp, NEW sent
  PROVE  /\ Reply(next, resp, sent).next = next
         /\ Reply(next, resp, sent).resp = resp
         /\ Reply(next, resp, sent).sent = sent
         /\ next \in State /\ resp \in 0..1 /\ sent \in SentPacket
              => Reply(next, resp, sent) \in Answer
BY DEF Reply, Answer

(* What the answer to a method can be.                                     *)
LEMMA MethodAnswer ==
  ASSUME NEW method \in Method, NEW resp \in 0..1,
         NEW a, a = OnMethod(resp)[method]
  PROVE  /\ a \in Answer
         /\ a.resp = 0 => a.next \in Proactive
         /\ a.sent = CRASH => method = "TUNE_MINUS_ONE"
         /\ a.sent # STALE
BY ReplyFields
   DEF OnMethod, Method, connection_start_ok, connection_tune_ok,
       connection_close_ok, None, ConnectionStart, ConnectionTune,
       ConnectionTuned, ConnectionOpen, Connected, ConnectionClose,
       ConnectionCloseOK, ConnectionClosed, State, NULL, STALE, CRASH,
       Proactive, SentPacket, ClientPacket, Reply, Answer

(* What a decision can be, chaotic or not, in a state that is ready for it.*)
LEMMA Decision ==
  ASSUME NEW packet \in Packet, NEW state \in State, NEW resp \in 0..1,
         resp = 0 => state \in Proactive,
         packet = NULL => resp = 0,
         state # ConnectionClosed,
         NEW a, \/ a \in ordered_packet_decider(packet, state, resp)
                \/ a \in chaotic_packet_decider
  PROVE  /\ a \in Answer
         /\ a.resp = 0 => a.next \in Proactive
         /\ a.sent = CRASH => packet = "TUNE_MINUS_ONE"
         /\ a.sent = STALE => packet \in {"OTHER_CLASS", "OTHER_TYPE"}
<1> USE DEF None, ConnectionStart, ConnectionTune, ConnectionTuned,
            ConnectionOpen, Connected, ConnectionClose, ConnectionCloseOK,
            ConnectionClosed, State, NULL, STALE, CRASH, Proactive,
            SentPacket, ClientPacket, Reply, Answer
<1>1. CASE a \in chaotic_packet_decider
  BY <1>1 DEF chaotic_packet_decider, amqp_header, connection_start_ok,
              connection_tune_ok, connection_open, connection_close,
              connection_close_ok
<1>2. CASE a \in ordered_packet_decider(packet, state, resp)
  <2>1. CASE packet = "PROTOCOL_HEADER" \/ state = None
    BY <1>2, <2>1 DEF ordered_packet_decider, amqp_header
  <2>2. CASE packet \in Method /\ state # None
    <3>1. packet # "PROTOCOL_HEADER" /\ packet # NULL
      BY <2>2 DEF Method
    <3>2. a = OnMethod(resp)[packet]
      BY <1>2, <2>2, <3>1
         DEF ordered_packet_decider, connection_packet_decider
    <3> QED  BY <2>2, <3>2, MethodAnswer
  <2>3. CASE packet = NULL /\ state # None
    <3>1. packet # "PROTOCOL_HEADER" /\ packet \notin Method
      BY <2>3 DEF Method
    <3>2. state \in {ConnectionTuned, Connected}
      BY <2>3
    <3>3. a \in {connection_open, connection_close}
      BY <1>2, <2>3, <3>1, <3>2
         DEF ordered_packet_decider, connection_packet_decider
    <3> QED  BY <3>3 DEF connection_open, connection_close
  <2>4. CASE packet \in {"OTHER_CLASS", "OTHER_TYPE"} /\ state # None
    <3>1. /\ packet # "PROTOCOL_HEADER"
          /\ packet \notin Method
          /\ packet # NULL
      BY <2>4 DEF Method
    <3>2. a \in Uninitialized(state, resp)
      BY <1>2, <2>4, <3>1 DEF ordered_packet_decider
    <3> QED  BY <2>4, <3>2 DEF Uninitialized
  <2> QED
    BY <2>1, <2>2, <2>3, <2>4 DEF Packet, Frame
<1> QED
  BY <1>1, <1>2

-----------------------------------------------------------------------------
(* The inductive invariant                                                 *)

(* Values the actions assign.                                              *)
LEMMA Values ==
  /\ None \in State /\ ConnectionClosed \in State
  /\ None \in Proactive /\ ConnectionClosed \in Proactive
  /\ None # ConnectionClosed
  /\ NULL \in Packet /\ NULL \in SentPacket
  /\ NULL # STALE
  /\ \A p \in Packet : p # NULL => p \in Frame
BY DEF None, ConnectionTuned, Connected, ConnectionClosed, State, Proactive,
       Packet, SentPacket, NULL, STALE

(* What the broker answers.                                                *)
LEMMA BrokerValues ==
  /\ \A p \in BrokerState \ {"over"} :
       Script[p].reply \in Seq(Frame) /\ Script[p].then \in BrokerState
  /\ \A r \in Refusal : r \in Seq(Frame)
  /\ "CLOSE_OK" \in Frame
<1>1. {"START", "TUNE", "OPEN_OK", "CLOSE_OK", "CLOSE", "PROTOCOL_HEADER"}
        \subseteq Frame
  BY DEF Frame, Method
<1>2. \A f \in Frame : <<f>> \in Seq(Frame)
  OBVIOUS
<1>3. <<>> \in Seq(Frame)
  OBVIOUS
<1>4. ASSUME NEW p \in BrokerState \ {"over"}
      PROVE  Script[p].reply \in Seq(Frame) /\ Script[p].then \in BrokerState
  <2>1. CASE p = "header"
    BY <1>1, <1>2, <2>1 DEF Script, BrokerState
  <2>2. CASE p = "start_ok"
    BY <1>1, <1>2, <2>2 DEF Script, BrokerState
  <2>3. CASE p = "tune_ok"
    BY <1>3, <2>3 DEF Script, BrokerState
  <2>4. CASE p = "open"
    BY <1>1, <1>2, <2>4 DEF Script, BrokerState
  <2>5. CASE p = "close"
    BY <1>1, <1>2, <2>5 DEF Script, BrokerState
  <2> QED  BY <2>1, <2>2, <2>3, <2>4, <2>5 DEF BrokerState
<1>5. \A r \in Refusal : r \in Seq(Frame)
  BY <1>1, <1>2, <1>3 DEF Refusal
<1> QED
  BY <1>1, <1>4, <1>5

(* The invariant holds when fuzz is called.                                *)
LEMMA InitIInv == Init => IInv
<1> SUFFICES ASSUME Init PROVE IInv
  OBVIOUS
<1>1. MainTypeOK /\ ListenerTypeOK
  BY Values DEF Init, MainTypeOK, ListenerTypeOK
<1>2. ChannelTypeOK /\ HistoryTypeOK
  <2>1. next_state = None /\ sent_packet = NULL
    BY DEF Init
  <2>2. next_state \in State /\ sent_packet \in SentPacket
    BY <2>1, Values
  <2>3. waiting_response \in 0..1 /\ late \in Nat
    BY DEF Init
  <2>4. cpc = "none" /\ chaotic = FALSE /\ last = "none" /\ lost = {}
    BY DEF Init
  <2> QED  BY <2>2, <2>3, <2>4 DEF ChannelTypeOK, HistoryTypeOK
<1>3. SharedTypeOK
  <2>1. current_state = None /\ channel_packet = NULL
    BY DEF Init
  <2>2. current_state \in State /\ channel_packet \in Packet
    BY <2>1, Values
  <2>3. is_running \in 0..1 /\ max_created_threads \in 0..1
    BY DEF Init
  <2>4. packet_count \in Nat /\ now \in Nat
    BY DEF Init
  <2>5. channel_mutex = "free" /\ cancelled = FALSE
    BY DEF Init
  <2> QED  BY <2>2, <2>3, <2>4, <2>5 DEF SharedTypeOK
<1>4. BrokerTypeOK
  BY Values DEF Init, BrokerTypeOK, BrokerState
<1>5. /\ Phases /\ Ownership /\ ReadyToDecide /\ SomethingToSend /\ LateOnce
      /\ Joined /\ NoLostWakeup /\ CrashOnlyOnOddFrame /\ Silence
  BY DEF Init, Phases, Ownership, ReadyToDecide, SomethingToSend, LateOnce,
         Joined, NoLostWakeup, CrashOnlyOnOddFrame, Silence
<1> QED
  BY <1>1, <1>2, <1>3, <1>4, <1>5 DEF IInv, TypeOK

(* Every step of every thread, of the broker and of the clock keeps it.    *)
LEMMA NextIInv == IInv /\ [Next]_vars => IInv'
<1> SUFFICES ASSUME IInv, [Next]_vars
             PROVE  IInv'
  OBVIOUS
<1> USE SessionAssumption
        DEF IInv, TypeOK, MainTypeOK, ListenerTypeOK, ChannelTypeOK,
            SharedTypeOK, BrokerTypeOK, HistoryTypeOK, Phases, Ownership,
            ReadyToDecide, SomethingToSend, LateOnce, Joined, NoLostWakeup,
            CrashOnlyOnOddFrame, Silence, vars, main, listener, received,
            channel, decision, slot, threads, broker, globals, history
<1>1. CASE MainStartListener
  <2> USE <1>1, Values DEF MainStartListener
  <2>1. TypeOK'
    <3>1. MainTypeOK' /\ ListenerTypeOK' /\ ChannelTypeOK'
      OBVIOUS
    <3>2. SharedTypeOK'
      OBVIOUS
    <3>3. BrokerTypeOK' /\ HistoryTypeOK'
      OBVIOUS
    <3> QED  BY <3>1, <3>2, <3>3
  <2>2. /\ Phases' /\ Ownership' /\ ReadyToDecide' /\ SomethingToSend'
        /\ LateOnce' /\ Joined' /\ NoLostWakeup' /\ CrashOnlyOnOddFrame'
        /\ Silence'
    OBVIOUS
  <2> QED  BY <2>1, <2>2
<1>2. CASE MainAllocChannel
  <2> USE <1>2, Values DEF MainAllocChannel
  <2>1. TypeOK'
    <3>1. MainTypeOK' /\ ListenerTypeOK' /\ ChannelTypeOK'
      OBVIOUS
    <3>2. SharedTypeOK'
      OBVIOUS
    <3>3. BrokerTypeOK' /\ HistoryTypeOK'
      OBVIOUS
    <3> QED  BY <3>1, <3>2, <3>3
  <2>2. /\ Phases' /\ Ownership' /\ ReadyToDecide' /\ SomethingToSend'
        /\ LateOnce' /\ Joined' /\ NoLostWakeup' /\ CrashOnlyOnOddFrame'
        /\ Silence'
    OBVIOUS
  <2> QED  BY <2>1, <2>2
<1>3. CASE MainCreateChannel
  <2> USE <1>3, Values DEF MainCreateChannel
  <2>1. TypeOK'
    <3>1. MainTypeOK' /\ ListenerTypeOK' /\ ChannelTypeOK'
      OBVIOUS
    <3>2. SharedTypeOK'
      OBVIOUS
    <3>3. BrokerTypeOK' /\ HistoryTypeOK'
      OBVIOUS
    <3> QED  BY <3>1, <3>2, <3>3
  <2>2. /\ Phases' /\ Ownership' /\ ReadyToDecide' /\ SomethingToSend'
        /\ LateOnce' /\ Joined' /\ NoLostWakeup' /\ CrashOnlyOnOddFrame'
        /\ Silence'
    OBVIOUS
  <2> QED  BY <2>1, <2>2
<1>4. CASE MainPublishChannel
  BY <1>4 DEF MainPublishChannel
<1>5. CASE MainSignalChannel
  BY <1>5 DEF MainSignalChannel
<1>6. CASE MainReadCount
  <2> USE <1>6 DEF MainReadCount, Current
  <2>1. TypeOK'
    OBVIOUS
  <2>2. /\ Phases' /\ Ownership' /\ ReadyToDecide' /\ SomethingToSend'
        /\ LateOnce' /\ Joined' /\ NoLostWakeup' /\ CrashOnlyOnOddFrame'
        /\ Silence'
    OBVIOUS
  <2> QED  BY <2>1, <2>2
<1>7. CASE MainReadRunning
  BY <1>7 DEF MainReadRunning
<1>8. CASE MainJoinListener
  BY <1>8 DEF MainJoinListener
<1>9. CASE MainJoinChannel
  BY <1>9 DEF MainJoinChannel
<1>10. CASE MainCloseAgain
  BY <1>10 DEF MainCloseAgain
<1>11. CASE MainFree
  BY <1>11 DEF MainFree
<1>12. CASE Tick
  BY <1>12 DEF Tick
<1>13. CASE ListenerBorn
  BY <1>13 DEF ListenerBorn
<1>14. CASE ListenerTest
  BY <1>14 DEF ListenerTest
<1>15. CASE ListenerRecv
  <2> USE <1>15 DEF ListenerRecv
  <2>1. TypeOK'
    <3>1. MainTypeOK'
      OBVIOUS
    <3>2. ListenerTypeOK'
      BY DEF Packet
    <3>3. ChannelTypeOK'
      OBVIOUS
    <3>4. SharedTypeOK'
      OBVIOUS
    <3>5. BrokerTypeOK'
      OBVIOUS
    <3>6. HistoryTypeOK'
      OBVIOUS
    <3> QED  BY <3>1, <3>2, <3>3, <3>4, <3>5, <3>6
  <2>2. /\ Phases' /\ Ownership' /\ ReadyToDecide' /\ SomethingToSend'
        /\ LateOnce' /\ Joined' /\ NoLostWakeup' /\ CrashOnlyOnOddFrame'
        /\ Silence'
    OBVIOUS
  <2> QED  BY <2>1, <2>2
<1>16. CASE ListenerRecvFragments
  <2> USE <1>16 DEF ListenerRecvFragments
  <2>1. TypeOK'
    <3>1. MainTypeOK' /\ ChannelTypeOK' /\ SharedTypeOK'
      OBVIOUS
    <3>2. ListenerTypeOK'
      BY DEF Packet
    <3>3. BrokerTypeOK'
      OBVIOUS
    <3>4. HistoryTypeOK'
      OBVIOUS
    <3> QED  BY <3>1, <3>2, <3>3, <3>4
  <2>2. /\ Phases' /\ Ownership' /\ ReadyToDecide' /\ SomethingToSend'
        /\ LateOnce' /\ Joined' /\ NoLostWakeup' /\ CrashOnlyOnOddFrame'
        /\ Silence'
    OBVIOUS
  <2> QED  BY <2>1, <2>2
<1>17. CASE ListenerRecvEnd
  BY <1>17 DEF ListenerRecvEnd
<1>18. CASE ListenerMissedPoll
  BY <1>18 DEF ListenerMissedPoll
<1>19. CASE ListenerDeliver
  <2> USE <1>19 DEF Running, Ended, ListenerDeliver
  <2>1. TypeOK'
    OBVIOUS
  <2>2. /\ Phases' /\ Ownership' /\ ReadyToDecide' /\ SomethingToSend'
        /\ LateOnce' /\ Joined' /\ NoLostWakeup' /\ CrashOnlyOnOddFrame'
        /\ Silence'
    OBVIOUS
  <2> QED  BY <2>1, <2>2
<1>20. CASE ListenerSignal
  BY <1>20 DEF ListenerSignal
<1>21. CASE ListenerReadSize
  <2> USE <1>21, Values DEF ListenerReadSize
  <2>1. TypeOK'
    OBVIOUS
  <2>2. /\ Phases' /\ Ownership' /\ ReadyToDecide' /\ SomethingToSend'
        /\ LateOnce' /\ Joined' /\ NoLostWakeup' /\ CrashOnlyOnOddFrame'
        /\ Silence'
    OBVIOUS
  <2> QED  BY <2>1, <2>2
<1>22. CASE ListenerCancel
  BY <1>22 DEF ListenerCancel
<1>23. CASE ListenerStop
  BY <1>23 DEF ListenerStop
<1>24. CASE ChannelLock
  BY <1>24 DEF ChannelLock
<1>25. CASE ChannelSpuriousWakeup
  BY <1>25 DEF ChannelSpuriousWakeup
<1>26. CASE ChannelCancelledWaiting
  BY <1>26 DEF ChannelCancelledWaiting
<1>27. CASE ChannelDecide
  <2> USE Values
  <2> DEFINE Answers(roll) ==
        IF Chaotic(roll)
        THEN chaotic_packet_decider
        ELSE ordered_packet_decider(channel_packet, current_state,
                                    waiting_response)
      Effect(a) ==
        /\ next_state' = a.next
        /\ waiting_response' = a.resp
        /\ sent_packet' = a.sent
        /\ \/ a.sent = CRASH /\ cpc' = "crashed"
           \/ a.sent = NULL /\ cpc' = "commit"
           \/ a.sent \in ClientPacket \cup {STALE} /\ cpc' = "running"
  <2>a. PICK roll \in Roll :
          chaotic' = Chaotic(roll) /\ \E a \in Answers(roll) : Effect(a)
    BY <1>27 DEF ChannelDecide
  <2>1. PICK a \in Answers(roll) : Effect(a)
    BY <2>a
  <2>2. /\ a \in Answer
        /\ a.resp = 0 => a.next \in Proactive
        /\ a.sent = CRASH => channel_packet = "TUNE_MINUS_ONE"
        /\ a.sent = STALE => channel_packet \in {"OTHER_CLASS", "OTHER_TYPE"}
    <3>1. /\ channel_packet \in Packet /\ current_state \in State
          /\ waiting_response \in 0..1
          /\ waiting_response = 0 => current_state \in Proactive
          /\ channel_packet = NULL => waiting_response = 0
          /\ current_state # ConnectionClosed
      BY <1>27 DEF ChannelDecide
    <3>2. \/ a \in ordered_packet_decider(channel_packet, current_state,
                                          waiting_response)
          \/ a \in chaotic_packet_decider
      BY <2>1
    <3> QED  BY <3>1, <3>2, Decision
  <2>3. /\ a.next \in State /\ a.resp \in 0..1 /\ a.sent \in SentPacket
    BY <2>2 DEF Answer
  <2>4. chaotic' \in BOOLEAN
    BY <2>a DEF Chaotic
  <2>5. cpc = "decide" /\ cpc' \in {"crashed", "commit", "running"}
    BY <1>27, <2>1 DEF ChannelDecide
  <2> USE <1>27, <2>1, <2>2, <2>3, <2>4, <2>5
  <2>6. UNCHANGED <<main, listener, slot, threads, broker, globals, lost, late>>
    BY DEF ChannelDecide
  <2>7. last' = IF channel_packet = NULL THEN last ELSE channel_packet
    BY DEF ChannelDecide
  <2>8. TypeOK'
    BY <2>6, <2>7
  <2>9. Phases' /\ Ownership' /\ LateOnce' /\ Joined' /\ NoLostWakeup'
    BY <2>6
  <2>10. ReadyToDecide' /\ SomethingToSend' /\ CrashOnlyOnOddFrame'
    BY <2>6
  <2> QED  BY <2>8, <2>9, <2>10
<1>28. CASE ChannelReadRunning
  <2> USE <1>28, Values DEF ChannelReadRunning, Freed
  <2>1. TypeOK'
    OBVIOUS
  <2>2. /\ Phases' /\ Ownership' /\ ReadyToDecide' /\ SomethingToSend'
        /\ LateOnce' /\ Joined' /\ NoLostWakeup'
    OBVIOUS
  <2>3. CrashOnlyOnOddFrame'
    BY DEF ClientPacket, STALE
  <2> QED  BY <2>1, <2>2, <2>3
<1>29. CASE ChannelSend
  <2> USE <1>29, Values DEF ChannelSend, Delivered, DeliveryFailed,
                        Freed
  <2>1. TypeOK'
    <3>1. MainTypeOK'
      OBVIOUS
    <3>2. ListenerTypeOK'
      OBVIOUS
    <3>3. ChannelTypeOK'
      OBVIOUS
    <3>4. SharedTypeOK'
      OBVIOUS
    <3>5. BrokerTypeOK'
      <4>1. sent_packet # STALE => sent_packet \in ClientPacket
        OBVIOUS
      <4> QED  BY <4>1
    <3>6. HistoryTypeOK'
      BY DEF Frame
    <3> QED  BY <3>1, <3>2, <3>3, <3>4, <3>5, <3>6
  <2>2. /\ Phases' /\ Ownership' /\ ReadyToDecide' /\ SomethingToSend'
        /\ LateOnce' /\ Joined' /\ NoLostWakeup'
    OBVIOUS
  <2>3. CrashOnlyOnOddFrame'
    BY DEF ClientPacket, STALE
  <2> QED  BY <2>1, <2>2, <2>3
<1>30. CASE ChannelCommit
  <2> USE <1>30, Values DEF ChannelCommit
  <2>1. TypeOK'
    <3>1. MainTypeOK' /\ ListenerTypeOK'
      OBVIOUS
    <3>2. ChannelTypeOK'
      OBVIOUS
    <3>3. SharedTypeOK'
      OBVIOUS
    <3>4. BrokerTypeOK'
      OBVIOUS
    <3>5. HistoryTypeOK'
      OBVIOUS
    <3> QED  BY <3>1, <3>2, <3>3, <3>4, <3>5
  <2>2. /\ Phases' /\ Ownership' /\ ReadyToDecide' /\ SomethingToSend'
        /\ LateOnce' /\ Joined' /\ NoLostWakeup' /\ CrashOnlyOnOddFrame'
        /\ Silence'
    OBVIOUS
  <2> QED  BY <2>1, <2>2
<1>31. CASE ChannelTestCancel
  BY <1>31 DEF ChannelTestCancel
<1>32. CASE BrokerReceive
  <2> USE <1>32 DEF BrokerReceive
  <2>1. BrokerTypeOK'
    <3>1. PICK p \in ClientPacket : p = Head(toBroker)
      OBVIOUS
    <3>2. bstate \in BrokerState \ {"over"}
      OBVIOUS
    <3>3. wire' \in Seq(Frame)
      <4>1. Script[bstate].reply \in Seq(Frame)
        BY <3>2, BrokerValues
      <4>2. wire \in Seq(Frame)
        OBVIOUS
      <4>3. \/ wire' = wire \o Script[bstate].reply
            \/ wire' = Append(wire, "CLOSE_OK")
            \/ wire' = wire
            \/ \E r \in Refusal : wire' = wire \o r
        OBVIOUS
      <4>4. \A r \in Seq(Frame) : wire \o r \in Seq(Frame)
        BY <4>2
      <4>5. Append(wire, "CLOSE_OK") \in Seq(Frame)
        BY <4>2, BrokerValues
      <4> HIDE <1>32
      <4> QED  BY <4>1, <4>2, <4>3, <4>4, <4>5, BrokerValues
    <3>4. bstate' \in BrokerState
      BY <3>1, <3>2, BrokerValues DEF BrokerState
    <3>5. toBroker' \in Seq(ClientPacket)
      OBVIOUS
    <3> QED  BY <3>3, <3>4, <3>5
  <2>2. UNCHANGED <<main, listener, channel, slot, threads, globals, history>>
    OBVIOUS
  <2>3. /\ MainTypeOK' /\ ListenerTypeOK' /\ ChannelTypeOK' /\ SharedTypeOK'
        /\ HistoryTypeOK' /\ Phases' /\ Ownership' /\ ReadyToDecide'
        /\ SomethingToSend' /\ LateOnce' /\ Joined' /\ NoLostWakeup'
        /\ CrashOnlyOnOddFrame'
    <3> HIDE <1>32 DEF BrokerReceive
    <3> QED  BY <2>2
  <2> QED  BY <2>1, <2>3
<1>33. CASE BrokerUnsolicited
  BY <1>33 DEF BrokerUnsolicited
<1>34. CASE BrokerClose
  <2> USE <1>34 DEF BrokerClose
  <2>1. BrokerTypeOK'
    OBVIOUS
  <2>2. UNCHANGED <<main, listener, channel, slot, threads, globals, history>>
    OBVIOUS
  <2>3. /\ MainTypeOK' /\ ListenerTypeOK' /\ ChannelTypeOK' /\ SharedTypeOK'
        /\ HistoryTypeOK' /\ Phases' /\ Ownership' /\ ReadyToDecide'
        /\ SomethingToSend' /\ LateOnce' /\ Joined' /\ NoLostWakeup'
        /\ CrashOnlyOnOddFrame'
    <3> HIDE <1>34 DEF BrokerClose
    <3> QED  BY <2>2
  <2> QED  BY <2>1, <2>3
<1>35. CASE UNCHANGED vars
  BY <1>35
<1> QED
  BY <1>1, <1>2, <1>3, <1>4, <1>5, <1>6, <1>7, <1>8, <1>9, <1>10, <1>11,
     <1>12, <1>13, <1>14, <1>15, <1>16, <1>17, <1>18, <1>19, <1>20, <1>21,
     <1>22, <1>23, <1>24, <1>25, <1>26, <1>27, <1>28, <1>29, <1>30, <1>31,
     <1>32, <1>33, <1>34, <1>35
     DEF Next, Main, Listener, Channel, Broker

(* The invariant holds of every session.                                   *)
THEOREM Invariance == Spec => []IInv
BY InitIInv, NextIInv, PTL DEF Spec

-----------------------------------------------------------------------------
(* What follows from it                                                    *)

(* Every variable of the three threads keeps its C type.                   *)
THEOREM TypeCorrect == Spec => []TypeOK
<1>1. IInv => TypeOK
  BY DEF IInv
<1> QED
  BY <1>1, Invariance, PTL

(* Against a broker that does not speak first, the listener never stores a *)
(* frame before create_channel_thread has allocated the slots.             *)
THEOREM TablesAreReady == Spec => []TablesBeforeFrames
<1>1. IInv => TablesBeforeFrames
  BY DEF IInv, Silence, TablesBeforeFrames
<1> QED
  BY <1>1, Invariance, PTL

(* At every level of PACKET_CHAOS and against every broker, the decision   *)
(* functions of AMQP.c and Connection.c end the process only over a frame  *)
(* the fuzzer does not implement.                                          *)
THEOREM DecisionsAreSafe == Spec => []CrashOnlyOnOddFrame
<1>1. IInv => CrashOnlyOnOddFrame
  BY DEF IInv
<1> QED
  BY <1>1, Invariance, PTL

(* The unlock-then-signal of the listener loses no wake-up.                *)
THEOREM WakeupsAreKept == Spec => []NoLostWakeup
<1>1. IInv => NoLostWakeup
  BY DEF IInv
<1> QED
  BY <1>1, Invariance, PTL

(* is_running, read without a lock, lets one late packet through at most.  *)
THEOREM LatePacketsAreBounded == Spec => []AtMostOneLatePacket
<1>1. IInv => AtMostOneLatePacket
  BY DEF IInv, LateOnce, AtMostOneLatePacket
<1> QED
  BY <1>1, Invariance, PTL

(* With a stop criterion, close_threads has joined both threads before     *)
(* fuzz frees what they use.                                               *)
THEOREM ThreadsAreJoined ==
  ASSUME Strategy # "0"
  PROVE  Spec => []NoThreadOutlivesFuzz
<1>1. IInv => NoThreadOutlivesFuzz
  BY DEF IInv, Joined, NoThreadOutlivesFuzz
<1> QED
  BY <1>1, Invariance, PTL

(* The mutex keeps the listener from replacing a frame being answered.     *)
THEOREM FramesAreStable == Spec => FrameStableWhileAnswered
<1>1. IInv /\ [Next]_vars =>
        [(cpc \in {"decide", "running", "send"}) =>
           channel_packet' = channel_packet]_vars
  <2> SUFFICES ASSUME IInv, [Next]_vars, cpc \in {"decide", "running", "send"}
               PROVE  channel_packet' = channel_packet
    OBVIOUS
  <2>1. channel_mutex # "free" /\ mpc # "alloc"
    BY DEF IInv, Ownership, Phases
  <2> QED
    BY <2>1
       DEF Next, Main, MainStartListener, MainAllocChannel, MainCreateChannel,
           MainPublishChannel, MainSignalChannel, MainReadCount,
           MainReadRunning, MainJoinListener, MainJoinChannel, MainCloseAgain,
           MainFree, Tick, Listener, ListenerBorn, ListenerTest, ListenerRecv,
           ListenerRecvFragments, ListenerRecvEnd, ListenerMissedPoll,
           ListenerDeliver, ListenerSignal, ListenerReadSize, ListenerCancel,
           ListenerStop, Channel, ChannelLock, ChannelSpuriousWakeup,
           ChannelCancelledWaiting, ChannelDecide, ChannelReadRunning,
           ChannelSend, ChannelCommit, ChannelTestCancel, Broker,
           BrokerReceive, BrokerUnsolicited, BrokerClose, vars, slot
<1> QED
  BY <1>1, Invariance, PTL DEF Spec, FrameStableWhileAnswered
===============================================================================

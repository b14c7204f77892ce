-------------------------------- MODULE Session --------------------------------
(***************************************************************************)
(* One call of fuzz(): a TCP connection to a broker, driven by three       *)
(* threads of fuzzer/AMQP.c.                                               *)
(*                                                                         *)
(*   main      fuzz, create_channel_thread, check_strat, close_threads     *)
(*   listener  polls the socket, stores the received frame for the channel *)
(*             thread, and at its end cancels the channel thread           *)
(*   channel   AMQP_channel_thread number 0: decides and sends packets     *)
(*                                                                         *)
(* The program counters mpc, lpc and cpc name the next statement of each   *)
(* thread that touches shared state.  The broker and TCP are external.     *)
(***************************************************************************)
EXTENDS Connection, Sequences

CONSTANTS
  Strategy,        \* "n" packets, "t" seconds, "0" when neither is given
  StratVal,        \* the value of the stop criterion
  MaxMissedPolls,  \* polls without data before the listener leaves: 10
  SockBuf,         \* packets the socket holds before send blocks
  Unsolicited,     \* frames the broker may send unasked, ...
  MaxUnsolicited,  \* ... and how many of them
  BrokerMayFail,   \* may the broker close the connection at any time?
  Fragmenting,     \* may a frame arrive in two pieces?
  MaxRereads       \* how often a freed packet's size reads as negative

ASSUME SessionAssumption ==
  /\ Strategy \in {"n", "t", "0"}
  /\ StratVal \in Nat
  /\ MaxMissedPolls \in Nat \ {0}
  /\ SockBuf \in Nat \ {0}
  /\ Unsolicited \subseteq Frame
  /\ MaxUnsolicited \in Nat
  /\ BrokerMayFail \in BOOLEAN
  /\ Fragmenting \in BOOLEAN
  /\ MaxRereads \in Nat

VARIABLES
  mpc, retval, closes, args_freed,            \* main
  lpc, missed_polls, read_packet, rereads,    \* listener
  cpc, waiting_response, next_state, sent_packet, chaotic,  \* channel
  current_state, is_running, max_created_threads, packet_count,
  channel_mutex,   \* "free", "channel", or "dead": held by an ended thread
  channel_packet,  \* channel_packets[0]
  cancelled,       \* is a pthread_cancel pending on the channel thread?
  now,             \* time(NULL), counted from the start
  bstate, bopen, unsolicited,                 \* the broker
  wire, toBroker,  \* frames to the client and packets to the broker, in TCP
  last,            \* history: the latest packet sent or answered
  lost,            \* history: how received frames were dropped
  late             \* history: packets sent after is_running became 0

main     == <<mpc, retval, closes, args_freed>>
received == <<missed_polls, read_packet, rereads>>
listener == <<lpc, received>>
decision == <<waiting_response, next_state, sent_packet, chaotic>>
channel  == <<cpc, decision>>
slot     == <<channel_mutex, channel_packet>>
threads  == <<is_running, max_created_threads, cancelled>>
broker   == <<bstate, bopen, unsolicited, wire, toBroker>>
history  == <<last, lost, late>>

globals  == <<current_state, packet_count, now>>

vars == <<main, listener, channel, slot, threads, broker, globals, history>>

-----------------------------------------------------------------------------
(* A signal raised in one thread ends the process; and the model ends      *)
(* when fuzz returns.                                                      *)
Ended == mpc = "returned" \/ cpc = "crashed"

Running == ~Ended

-----------------------------------------------------------------------------
(* Main thread                                                             *)

(* What stratupdate returns: get_packet_count or get_current_time.         *)
Current == IF Strategy = "t" THEN now ELSE packet_count

(* A fuzz that creates the channel thread before its tables.               *)
MainStartListener_ChannelToo ==
  /\ Running /\ mpc = "start"
  /\ current_state' = None
  /\ max_created_threads' = 0
  /\ is_running' = 1
  /\ retval' = 0
  /\ closes' = 0
  /\ args_freed' = FALSE
  /\ lpc' = "born"
  /\ cpc' = "lock"
  /\ missed_polls' = 0
  /\ read_packet' = NULL
  /\ mpc' = "alloc"
  /\ UNCHANGED <<rereads, decision, slot, cancelled, broker, packet_count, now,
                 history>>

(* fuzz up to and including the creation of the listener thread.           *)
MainStartListener ==
  /\ Running /\ mpc = "start"
  /\ current_state' = None
  /\ max_created_threads' = 0
  /\ is_running' = 1
  /\ retval' = 0
  /\ closes' = 0
  /\ args_freed' = FALSE
  /\ lpc' = "born"
  /\ missed_polls' = 0
  /\ read_packet' = NULL
  /\ mpc' = "alloc"
  /\ UNCHANGED <<rereads, channel, slot, cancelled, broker, packet_count, now,
                 history>>

(* create_channel_thread before pthread_create.  fuzz passes reset = 1, so *)
(* the tables are always allocated afresh.                                 *)
MainAllocChannel ==
  /\ Running /\ mpc = "alloc"
  /\ channel_mutex' = "free"
  /\ channel_packet' = NULL
  /\ mpc' = "create"
  /\ UNCHANGED <<retval, closes, args_freed, listener, channel, threads,
                 broker, globals, history>>

MainCreateChannel ==
  /\ Running /\ mpc = "create"
  /\ cpc' = "lock"
  /\ waiting_response' = 0
  /\ cancelled' = FALSE
  /\ mpc' = "publish"
  /\ UNCHANGED <<retval, closes, args_freed, listener, next_state, sent_packet,
                 chaotic, slot, is_running, max_created_threads, broker,
                 globals, history>>

(* Only now does the listener's clean-up loop see the channel thread.      *)
MainPublishChannel ==
  /\ Running /\ mpc = "publish"
  /\ max_created_threads' = 1
  /\ mpc' = "signal"
  /\ UNCHANGED <<retval, closes, args_freed, listener, channel, slot,
                 is_running, cancelled, broker, globals, history>>

(* pthread_cond_signal(&channel_conds[0]), then the choice of check_strat. *)
MainSignalChannel ==
  /\ Running /\ mpc = "signal"
  /\ cpc' = IF cpc = "waiting" THEN "lock" ELSE cpc
  /\ mpc' = IF Strategy = "0" THEN "close_again" ELSE "count"
  /\ UNCHANGED <<retval, closes, args_freed, listener, decision, slot, threads,
                 broker, globals, history>>

(* The condition of check_strat's loop, one operand per step.              *)
MainReadCount ==
  /\ Running /\ mpc = "count"
  /\ retval' = Current
  /\ mpc' = IF Current < StratVal THEN "running" ELSE "join_listener"
  /\ UNCHANGED <<closes, args_freed, listener, channel, slot, threads, broker,
                 globals, history>>

MainReadRunning ==
  /\ Running /\ mpc = "running"
  /\ mpc' = IF is_running = 1 THEN "count" ELSE "join_listener"
  /\ UNCHANGED <<retval, closes, args_freed, listener, channel, slot, threads,
                 broker, globals, history>>

(* A close_threads that does not join the listener.                        *)
MainJoinListener_NoJoin ==
  /\ Running /\ mpc = "join_listener"
  /\ mpc' = "join_channel"
  /\ UNCHANGED <<retval, closes, args_freed, listener, channel, slot, threads,
                 broker, globals, history>>

(* close_threads joins the listener, then the channel thread.              *)
MainJoinListener ==
  /\ Running /\ mpc = "join_listener"
  /\ lpc = "exited"
  /\ mpc' = "join_channel"
  /\ UNCHANGED <<retval, closes, args_freed, listener, channel, slot, threads,
                 broker, globals, history>>

MainJoinChannel ==
  /\ Running /\ mpc = "join_channel"
  /\ cpc = "exited"
  /\ closes' = closes + 1
  /\ mpc' = IF closes = 0 /\ Strategy # "0" THEN "close_again" ELSE "free"
  /\ UNCHANGED <<retval, args_freed, listener, channel, slot, threads, broker,
                 globals, history>>

(* After check_strat, which has called close_threads, fuzz tests whether   *)
(* to call it.  A second pthread_join of the same thread is undefined; the *)
(* C library of the build answers ESRCH, so the joins above return.        *)
MainCloseAgain ==
  /\ Running /\ mpc = "close_again"
  /\ mpc' = IF retval > 0 \/ is_running = 0 THEN "join_listener" ELSE "free"
  /\ UNCHANGED <<retval, closes, args_freed, listener, channel, slot, threads,
                 broker, globals, history>>

(* free(listener_args); return retval                                      *)
MainFree ==
  /\ Running /\ mpc = "free"
  /\ args_freed' = TRUE
  /\ mpc' = "returned"
  /\ UNCHANGED <<retval, closes, listener, channel, slot, threads, broker,
                 globals, history>>

Main ==
  \/ MainStartListener \/ MainAllocChannel \/ MainCreateChannel
  \/ MainPublishChannel \/ MainSignalChannel \/ MainReadCount
  \/ MainReadRunning \/ MainJoinListener \/ MainJoinChannel
  \/ MainCloseAgain \/ MainFree

(* The clock, for the strategy that looks at it.                           *)
Tick ==
  /\ Running /\ Strategy = "t"
  /\ now < StratVal
  /\ now' = now + 1
  /\ UNCHANGED <<main, listener, channel, slot, threads, broker, current_state,
                 packet_count, history>>

-----------------------------------------------------------------------------
(* Listener thread                                                         *)

ListenerBorn ==
  /\ Running /\ lpc = "born"
  /\ is_running' = 1
  /\ lpc' = "test"
  /\ UNCHANGED <<main, received, channel, slot, max_created_threads, cancelled,
                 broker, globals, history>>

(* The loop condition, read without a lock.                                *)
ListenerTest ==
  /\ Running /\ lpc = "test"
  /\ lpc' = IF current_state = ConnectionClosed THEN "cancel" ELSE "poll"
  /\ UNCHANGED <<main, received, channel, slot, threads, broker, globals,
                 history>>

(* poll reports POLLIN and recv returns bytes: TCP hands over the first k  *)
(* frames in flight.  n is (recv(...) > 0), that is 1, so the loop over    *)
(* the bundle parses the first frame and stops: parsed_n is at least 7.    *)
ListenerRecv ==
  /\ Running /\ lpc = "poll"
  /\ \E k \in 1..Len(wire) :
       /\ wire' = SubSeq(wire, k + 1, Len(wire))
       /\ lost' = IF k > 1 THEN lost \cup {"bundled"} ELSE lost
  /\ read_packet' = Head(wire)
  /\ lpc' = "deliver"
  /\ UNCHANGED <<main, missed_polls, rereads, channel, slot, threads, bstate,
                 bopen, unsolicited, toBroker, globals, last, late>>

(* A frame split over two recv calls.  The listener parses each piece over *)
(* what the previous frames left in its buffer (see Wire), and so drops    *)
(* both, or takes the first for the whole frame, or finds the previous     *)
(* frame there again.                                                      *)
ListenerRecvFragments ==
  /\ Running /\ lpc = "poll"
  /\ Fragmenting
  /\ wire # <<>>
  /\ wire' = Tail(wire)
  /\ \/ /\ lpc' = "test"
        /\ lost' = lost \cup {"fragmented"}
        /\ UNCHANGED read_packet
     \/ /\ lpc' = "deliver"
        /\ read_packet' = Head(wire)
        /\ UNCHANGED lost
     \/ /\ read_packet # NULL
        /\ lpc' = "deliver"
        /\ lost' = lost \cup {"fragmented"}
        /\ UNCHANGED read_packet
  /\ UNCHANGED <<main, missed_polls, rereads, channel, slot, threads, bstate,
                 bopen, unsolicited, toBroker, globals, last, late>>

(* recv returns 0 after the broker closed, or -1 after it closed with      *)
(* unread packets (a reset, which also discards frames in flight).         *)
ListenerRecvEnd ==
  /\ Running /\ lpc = "poll"
  /\ ~bopen
  /\ wire = <<>> \/ toBroker # <<>>
  /\ lpc' = "cancel"
  /\ UNCHANGED <<main, received, channel, slot, threads, broker, globals,
                 history>>

(* poll returns after 500 ms without data.  missed_polls is never reset.   *)
ListenerMissedPoll ==
  /\ Running /\ lpc = "poll"
  /\ wire = <<>> /\ bopen
  /\ missed_polls' = missed_polls + 1
  /\ lpc' = IF missed_polls' >= MaxMissedPolls THEN "cancel" ELSE "test"
  /\ UNCHANGED <<main, read_packet, rereads, channel, slot, threads, broker,
                 globals, history>>

(* A listener that writes the slot without taking the channel's mutex.     *)
ListenerDeliver_NoLock ==
  /\ Running /\ lpc = "deliver"
  /\ channel_packet' = read_packet
  /\ lost' = IF channel_packet # NULL THEN lost \cup {"overwritten"} ELSE lost
  /\ lpc' = "signal"
  /\ UNCHANGED <<main, received, channel, channel_mutex, threads, broker,
                 globals, last, late>>

(* Store the frame under channel_mutexes[0], over whatever was there.      *)
ListenerDeliver ==
  /\ Running /\ lpc = "deliver"
  /\ channel_mutex = "free"
  /\ channel_packet' = read_packet
  /\ lost' = IF channel_packet # NULL THEN lost \cup {"overwritten"} ELSE lost
  /\ lpc' = "signal"
  /\ UNCHANGED <<main, received, channel, channel_mutex, threads, broker,
                 globals, last, late>>

(* A listener that stores the frame and signals nobody.                    *)
ListenerSignal_None ==
  /\ Running /\ lpc = "signal"
  /\ lpc' = "size"
  /\ UNCHANGED <<main, received, channel, slot, threads, broker, globals,
                 history>>

(* pthread_cond_signal: a channel thread asleep goes back for the mutex.   *)
ListenerSignal ==
  /\ Running /\ lpc = "signal"
  /\ cpc' = IF cpc = "waiting" THEN "lock" ELSE cpc
  /\ lpc' = "size"
  /\ UNCHANGED <<main, received, decision, slot, threads, broker, globals,
                 history>>

(* parsed_n = read_packet->size + 7, then the test parsed_n < n.  The slot *)
(* is empty when the channel thread has already freed the packet; the      *)
(* allocator's own data in its place may make parsed_n negative, and the   *)
(* loop then breaks the same bytes into a packet once more.  read_packet   *)
(* stays only as what the buffer holds, if that can be parsed again.       *)
ListenerReadSize ==
  /\ Running /\ lpc = "size"
  /\ \/ /\ lpc' = "test"
        /\ read_packet' = IF Fragmenting THEN read_packet ELSE NULL
        /\ UNCHANGED rereads
     \/ /\ channel_packet = NULL /\ rereads < MaxRereads
        /\ lpc' = "deliver"
        /\ rereads' = rereads + 1
        /\ UNCHANGED read_packet
  /\ UNCHANGED <<main, missed_polls, channel, slot, threads, broker, globals,
                 history>>

(* After the loop: cancel and signal every channel in the table.           *)
ListenerCancel ==
  /\ Running /\ lpc = "cancel"
  /\ cancelled' = (max_created_threads = 1)
  /\ cpc' = IF max_created_threads = 1 /\ cpc = "waiting" THEN "lock" ELSE cpc
  /\ lpc' = "stop"
  /\ UNCHANGED <<main, received, decision, slot, is_running,
                 max_created_threads, broker, globals, history>>

(* A listener that leaves is_running set.                                  *)
ListenerStop_KeepRunning ==
  /\ Running /\ lpc = "stop"
  /\ lpc' = "exited"
  /\ UNCHANGED <<main, received, channel, slot, threads, broker, globals,
                 history>>

ListenerStop ==
  /\ Running /\ lpc = "stop"
  /\ is_running' = 0
  /\ lpc' = "exited"
  /\ UNCHANGED <<main, received, channel, slot, max_created_threads, cancelled,
                 broker, globals, history>>

Listener ==
  \/ ListenerBorn \/ ListenerTest \/ ListenerRecv \/ ListenerRecvFragments
  \/ ListenerRecvEnd \/ ListenerMissedPoll \/ ListenerDeliver \/ ListenerSignal
  \/ ListenerReadSize \/ ListenerCancel \/ ListenerStop

-----------------------------------------------------------------------------
(* Channel thread                                                          *)

(* Take the mutex and test the predicate of the condition variable.        *)
ChannelLock ==
  /\ Running /\ cpc = "lock"
  /\ channel_mutex = "free"
  /\ IF channel_packet = NULL /\ waiting_response = 1
     THEN cpc' = "waiting" /\ UNCHANGED channel_mutex
     ELSE cpc' = "decide" /\ channel_mutex' = "channel"
  /\ UNCHANGED <<main, listener, decision, channel_packet, threads, broker,
                 globals, history>>

(* pthread_cond_wait may return without a signal; a pending cancel is      *)
(* acted upon instead.                                                     *)
ChannelSpuriousWakeup ==
  /\ Running /\ cpc = "waiting"
  /\ ~cancelled
  /\ cpc' = "lock"
  /\ UNCHANGED <<main, listener, decision, slot, threads, broker, globals,
                 history>>

(* A pending cancel takes effect in pthread_cond_wait, which reacquires    *)
(* the mutex first; no cleanup handler releases it.                        *)
ChannelCancelledWaiting ==
  /\ Running /\ cpc = "waiting"
  /\ cancelled
  /\ channel_mutex = "free"
  /\ channel_mutex' = "dead"
  /\ cpc' = "exited"
  /\ UNCHANGED <<main, listener, decision, channel_packet, threads, broker,
                 globals, history>>

(* packet_decider up to the test of sent_packet.  It runs with the mutex   *)
(* held and cancellation disabled.                                         *)
ChannelDecide ==
  /\ Running /\ cpc = "decide"
  /\ \E roll \in Roll :
       /\ chaotic' = Chaotic(roll)
       /\ \E a \in IF Chaotic(roll)
                   THEN chaotic_packet_decider
                   ELSE ordered_packet_decider(channel_packet, current_state,
                                               waiting_response) :
            /\ next_state' = a.next
            /\ waiting_response' = a.resp
            /\ sent_packet' = a.sent
            /\ \/ a.sent = CRASH /\ cpc' = "crashed"
               \/ a.sent = NULL /\ cpc' = "commit"
               \/ a.sent \in ClientPacket \cup {STALE} /\ cpc' = "running"
  /\ last' = IF channel_packet = NULL THEN last ELSE channel_packet
  /\ UNCHANGED <<main, listener, slot, threads, broker, globals, lost, late>>

(* What free does to sent_packet.                                          *)
Freed(p) == IF p = STALE THEN {"commit", "crashed"} ELSE {"commit"}

(* A channel thread that does not look at is_running before it sends.      *)
ChannelReadRunning_NoTest ==
  /\ Running /\ cpc = "running"
  /\ cpc' = "send"
  /\ UNCHANGED <<main, listener, decision, slot, threads, broker, globals,
                 history>>

(* if (is_running) ... else give the packet up and close.                  *)
ChannelReadRunning ==
  /\ Running /\ cpc = "running"
  /\ \/ /\ is_running = 1
        /\ cpc' = "send"
        /\ UNCHANGED <<next_state, waiting_response>>
     \/ /\ is_running = 0
        /\ cpc' \in Freed(sent_packet)
        /\ next_state' = ConnectionClosed
        /\ waiting_response' = 0
  /\ UNCHANGED <<main, listener, sent_packet, chaotic, slot, threads, broker,
                 globals, history>>

(* send_packet.  The socket takes the packet, which is counted, even when  *)
(* the broker has just closed; or it takes the zero bytes of a stale       *)
(* pointer, which are counted too.                                         *)
Delivered ==
  /\ packet_count' = packet_count + 1
  /\ \/ /\ sent_packet # STALE
        /\ Len(toBroker) < SockBuf
        /\ toBroker' = Append(toBroker, sent_packet)
        /\ last' = sent_packet
        /\ late' = IF is_running = 0 THEN late + 1 ELSE late
     \/ sent_packet = STALE /\ UNCHANGED <<toBroker, last, late>>

(* Or the broker has closed with packets unread, and reset the connection. *)
DeliveryFailed ==
  /\ ~bopen /\ toBroker # <<>>
  /\ UNCHANGED <<packet_count, toBroker, last, late>>

ChannelSend ==
  /\ Running /\ cpc = "send"
  /\ \/ Delivered /\ UNCHANGED <<next_state, waiting_response>>
     \/ /\ DeliveryFailed
        /\ next_state' = ConnectionClosed
        /\ waiting_response' = 0
  /\ cpc' \in Freed(sent_packet)
  /\ UNCHANGED <<main, listener, sent_packet, chaotic, slot, threads, bstate,
                 bopen, unsolicited, wire, current_state, now, lost>>

(* A channel thread that leaves the answered packet in its slot.           *)
ChannelCommit_KeepPacket ==
  /\ Running /\ cpc = "commit"
  /\ current_state' = next_state
  /\ channel_mutex' = "free"
  /\ next_state' = None /\ sent_packet' = NULL /\ chaotic' = FALSE
  /\ cpc' = "testcancel"
  /\ UNCHANGED <<main, listener, waiting_response, channel_packet, threads,
                 broker, packet_count, now, history>>

(* A channel thread that never unlocks.                                    *)
ChannelCommit_KeepMutex ==
  /\ Running /\ cpc = "commit"
  /\ current_state' = next_state
  /\ channel_packet' = NULL
  /\ next_state' = None /\ sent_packet' = NULL /\ chaotic' = FALSE
  /\ cpc' = "testcancel"
  /\ UNCHANGED <<main, listener, waiting_response, channel_mutex, threads,
                 broker, packet_count, now, history>>

(* The rest of the loop's body, where its locals end.                      *)
ChannelCommit ==
  /\ Running /\ cpc = "commit"
  /\ current_state' = next_state
  /\ channel_packet' = NULL
  /\ channel_mutex' = "free"
  /\ next_state' = None /\ sent_packet' = NULL /\ chaotic' = FALSE
  /\ cpc' = "testcancel"
  /\ UNCHANGED <<main, listener, waiting_response, threads, broker,
                 packet_count, now, history>>

(* pthread_testcancel, then the condition of the thread's loop.            *)
ChannelTestCancel ==
  /\ Running /\ cpc = "testcancel"
  /\ cpc' = IF cancelled \/ current_state = ConnectionClosed
            THEN "exited" ELSE "lock"
  /\ UNCHANGED <<main, listener, decision, slot, threads, broker, globals,
                 history>>

Channel ==
  \/ ChannelLock \/ ChannelCancelledWaiting \/ ChannelDecide
  \/ ChannelReadRunning \/ ChannelSend \/ ChannelCommit \/ ChannelTestCancel

-----------------------------------------------------------------------------
(* The broker and TCP (external).  bstate is the packet the broker waits   *)
(* for, or "over" when it only has the connection left to close.           *)

BrokerState == {"header", "start_ok", "tune_ok", "open", "close", "over"}

Script == [header   |-> [reply |-> <<"START">>,   then |-> "start_ok"],
           start_ok |-> [reply |-> <<"TUNE">>,    then |-> "tune_ok"],
           tune_ok  |-> [reply |-> <<>>,          then |-> "open"],
           open     |-> [reply |-> <<"OPEN_OK">>, then |-> "close"],
           close    |-> [reply |-> <<"CLOSE_OK">>, then |-> "over"]]

(* A broker refuses what it does not expect with its protocol header,      *)
(* with CLOSE, or without a word.                                          *)
Refusal == IF bstate = "header" THEN {<<>>, <<"PROTOCOL_HEADER">>}
                                ELSE {<<>>, <<"CLOSE">>}

BrokerReceive ==
  /\ Running /\ bopen /\ bstate # "over" /\ toBroker # <<>>
  /\ toBroker' = Tail(toBroker)
  /\ LET p == Head(toBroker)
     IN  \/ /\ p = bstate
            /\ wire' = wire \o Script[p].reply
            /\ bstate' = Script[p].then
         \/ /\ p # bstate /\ p \in {"close", "close_ok"} /\ bstate # "header"
            /\ wire' = IF p = "close" THEN Append(wire, "CLOSE_OK") ELSE wire
            /\ bstate' = "over"
         \/ /\ p # bstate /\ (p \in {"close", "close_ok"} => bstate = "header")
            /\ \E r \in Refusal : wire' = wire \o r
            /\ bstate' = "over"
  /\ UNCHANGED <<main, listener, channel, slot, threads, bopen, unsolicited,
                 globals, history>>

(* CLOSE, a heartbeat, or anything else of the broker's own accord, after  *)
(* it has read the protocol header.                                        *)
BrokerUnsolicited ==
  /\ Running /\ bopen /\ bstate # "header"
  /\ unsolicited < MaxUnsolicited
  /\ unsolicited' = unsolicited + 1
  /\ \E f \in Unsolicited : wire' = Append(wire, f)
  /\ UNCHANGED <<main, listener, channel, slot, threads, bstate, bopen,
                 toBroker, globals, history>>

BrokerClose ==
  /\ Running /\ bopen
  /\ bstate = "over" \/ BrokerMayFail
  /\ bopen' = FALSE
  /\ UNCHANGED <<main, listener, channel, slot, threads, bstate, unsolicited,
                 wire, toBroker, globals, history>>

Broker == BrokerReceive \/ BrokerUnsolicited \/ BrokerClose

-----------------------------------------------------------------------------
Init ==
  /\ mpc = "start" /\ retval = 0 /\ closes = 0 /\ args_freed = FALSE
  /\ lpc = "none" /\ missed_polls = 0 /\ read_packet = NULL /\ rereads = 0
  /\ cpc = "none" /\ waiting_response = 0 /\ next_state = None
  /\ sent_packet = NULL /\ chaotic = FALSE
  /\ current_state = None /\ is_running = 1 /\ max_created_threads = 0
  /\ packet_count = 0
  /\ channel_mutex = "free" /\ channel_packet = NULL /\ cancelled = FALSE
  /\ now = 0
  /\ bstate = "header" /\ bopen = TRUE /\ unsolicited = 0
  /\ wire = <<>> /\ toBroker = <<>>
  /\ last = "none" /\ lost = {} /\ late = 0

Next ==
  \/ Main \/ Tick \/ Listener \/ Channel \/ ChannelSpuriousWakeup \/ Broker
  \/ Ended /\ UNCHANGED vars

Spec == Init /\ [][Next]_vars

(* The scheduler runs every thread that can run; the broker reads what it  *)
(* is sent and closes a connection it is done with.  Nothing is assumed of *)
(* the clock, of unsolicited frames, of failures or of spurious wake-ups.  *)
Fairness ==
  /\ WF_vars(Main) /\ WF_vars(Listener) /\ WF_vars(Channel)
  /\ WF_vars(BrokerReceive)
  /\ WF_vars(bstate = "over" /\ BrokerClose)

FairSpec == Spec /\ Fairness
===============================================================================

------------------------------ MODULE Connection ------------------------------
(***************************************************************************)
(* The pure part of the fuzzer: what the client decides to send.           *)
(*                                                                         *)
(* fuzzer/Connection.c holds one constructor per client method of class    *)
(* Connection and connection_packet_decider, the switch over the methods a *)
(* broker sends.  fuzzer/AMQP.c holds the two deciders built on it:        *)
(* ordered_packet_decider follows the protocol, chaotic_packet_decider     *)
(* ignores it.  Each C function writes *next_state and *response_expected  *)
(* and returns a heap buffer; here it is the record of those three.        *)
(*                                                                         *)
(* The bytes of a packet are abstracted to its kind.                       *)
(***************************************************************************)
EXTENDS Integers

CONSTANT PACKET_CHAOS  \* the -P argument, checked by main to be 0..4

ASSUME PacketChaosAssumption == PACKET_CHAOS \in 0..4

-----------------------------------------------------------------------------
(* enum State.  NOOP (-1) is never assigned and is left out.               *)

None              == 0
ConnectionStart   == 1
ConnectionTune    == 2
ConnectionTuned   == 3
ConnectionOpen    == 4
Connected         == 5
ConnectionClose   == 6
ConnectionCloseOK == 7
ConnectionClosed  == 8

State == 0..8

(* What the client can send.                                               *)
ClientPacket == {"header", "start_ok", "tune_ok", "open", "close", "close_ok"}

(* The values of the pointer sent_packet: a packet, NULL, a stale pointer  *)
(* because nothing was assigned, or CRASH: the decision never returned     *)
(* because the process received SIGSEGV or SIGFPE.                         *)
NULL  == "NULL"
STALE == "STALE"
CRASH == "CRASH"

SentPacket == ClientPacket \cup {NULL, STALE, CRASH}

(* What a broker can send, as break_packet classifies it.  TUNE_MINUS_ONE  *)
(* is a TUNE whose channel-max or frame-max is 0xFFFF: see TuneOk.         *)
(* UNIMPLEMENTED is a Connection method outside the switch, OTHER_CLASS a  *)
(* method of another class, OTHER_TYPE a frame that is no METHOD frame     *)
(* (content header, body, or a heartbeat, whose type octet 8 is none of    *)
(* the values of frame_type).                                              *)
Method == {"START", "SECURE", "TUNE", "TUNE_MINUS_ONE", "OPEN_OK", "CLOSE",
           "CLOSE_OK", "UNIMPLEMENTED"}

Frame == Method \cup {"PROTOCOL_HEADER", "OTHER_CLASS", "OTHER_TYPE"}

Packet == Frame \cup {NULL}

Answer == [next : State, resp : 0..1, sent : SentPacket]

Reply(next, resp, sent) == [next |-> next, resp |-> resp, sent |-> sent]

-----------------------------------------------------------------------------
(* The constructors: the state they announce, whether the channel must     *)
(* then wait for the broker, and the packet.                               *)

amqp_header == Reply(ConnectionStart, 1, "header")

connection_start_ok == Reply(ConnectionStart, 1, "start_ok")

(* rand() % (received + 1), which divides by zero for a field that reads   *)
(* as -1.  With no method data nothing is divided.                         *)
connection_tune_ok(method) ==
  Reply(ConnectionTuned, 0,
        IF method = "TUNE_MINUS_ONE" THEN CRASH ELSE "tune_ok")

(* A version that forgets *response_expected = 1.                          *)
connection_open_NoWait == Reply(ConnectionOpen, 0, "open")

connection_open == Reply(ConnectionOpen, 1, "open")

(* A version that counts the states from another enum.                     *)
connection_close_OtherEnum == Reply(ConnectionClosed + 1, 1, "close")

connection_close == Reply(ConnectionCloseOK, 1, "close")

connection_close_ok == Reply(ConnectionCloseOK, 1, "close_ok")

-----------------------------------------------------------------------------
(* The switch over the received method.  SECURE has no break and shares    *)
(* the body of OPEN_OK; default does not touch *response_expected.         *)
OnMethod(resp) ==
  [START         |-> connection_start_ok,
   TUNE          |-> connection_tune_ok("TUNE"),
   TUNE_MINUS_ONE |-> connection_tune_ok("TUNE_MINUS_ONE"),
   SECURE        |-> Reply(Connected, 0, NULL),
   OPEN_OK       |-> Reply(Connected, 0, NULL),
   CLOSE         |-> connection_close_ok,
   CLOSE_OK      |-> Reply(ConnectionClosed, 0, NULL),
   UNIMPLEMENTED |-> Reply(None, resp, NULL)]

(* With no method, two states have something to send; the others fall      *)
(* through to method_data->class_id.                                       *)
connection_packet_decider(method, state, resp) ==
  IF method # NULL THEN OnMethod(resp)[method]
  ELSE IF state = ConnectionTuned THEN connection_open
  ELSE IF state = Connected THEN connection_close
  ELSE Reply(state, resp, CRASH)

(* ordered_packet_decider returns its local sent_packet; on several paths  *)
(* nothing was assigned to it.                                             *)
Uninitialized(state, resp) ==
  {Reply(state, resp, NULL), Reply(state, resp, STALE)}

(* packet is NULL when the broker has sent nothing.  Only four states then *)
(* reach an assignment of sent_packet.                                     *)
ordered_packet_decider(packet, state, resp) ==
  IF packet = "PROTOCOL_HEADER" THEN {Reply(None, 0, NULL)}
  ELSE IF state = None THEN {amqp_header}
  ELSE IF \/ packet \in Method
          \/ packet = NULL /\ state \in {ConnectionTune, ConnectionTuned,
                                        Connected, ConnectionClose}
       THEN {connection_packet_decider(packet, state, resp)}
  ELSE Uninitialized(state, resp)

(* rand() % IMPLEMENTED_MESSAGES picks a constructor whatever the state.   *)
chaotic_packet_decider ==
  {amqp_header, connection_start_ok, connection_tune_ok(NULL),
   connection_open, connection_close, connection_close_ok}

(* rand() % 4 + 1 *)
Roll == 1..4

(* The branch packet_decider takes for a roll.                             *)
Chaotic(roll) == roll < PACKET_CHAOS

===============================================================================

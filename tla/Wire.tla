---------------------------------- MODULE Wire ---------------------------------
(***************************************************************************)
(* What the listener makes of the bytes of a TCP stream (AMQP.c 119-164,   *)
(* Packet.c 184-235).  recv writes to the start of a buffer that nobody    *)
(* clears, `n = recv(...) > 0' makes n one, so that one frame is parsed    *)
(* per recv, and break_packet takes what it finds for a frame if there is  *)
(* an end octet where the size says.                                       *)
(*                                                                         *)
(* A frame is a cell for its type and channel, one for its size, the cells *)
(* of its payload, the first of which is its class and method, and one for *)
(* its end.                                                                *)
(***************************************************************************)
EXTENDS Integers, Sequences

CONSTANTS
  Frames,    \* how many frames the broker sends
  Sizes,     \* of their payloads
  MAXLINE,   \* length of the listener's buffer
  MaxSplits  \* how many recv calls may end inside a frame

ASSUME WireAssumption ==
  /\ Frames \in Nat \ {0} /\ Sizes \subseteq Nat \ {0}
  /\ MaxSplits \in Nat
  /\ MAXLINE \in Nat /\ \A s \in Sizes : s + 3 <= MAXLINE

VARIABLES
  start,     \* how many cells come before each frame, and after the last
  taken,     \* how many cells recv has returned
  splits,
  recvline,  \* the listener's buffer
  delivered  \* the packets put into channel_packets, with the first cell's
             \* place in the stream

vars == <<start, taken, splits, recvline, delivered>>

-----------------------------------------------------------------------------
TYPE       == <<"type">>
END        == <<"end">>
SIZE(n)    == <<"size", n>>
DATA(f, i) == <<"data", f, i>>
JUNK       == <<"junk">>   \* malloc does not clear the buffer
NONE       == <<"none">>   \* the type of what is no frame

Size(f) == start[f + 1] - start[f] - 3

Total == start[Frames + 1]

Boundary(place) == \E f \in 1..(Frames + 1) : place = start[f]

(* The stream, cell by cell.                                               *)
Holds(f, place) == start[f] < place /\ place <= start[f + 1]

Stream(place) ==
  LET f == CHOOSE g \in 1..Frames : Holds(g, place)
      i == place - start[f]
  IN  CASE i = 1           -> TYPE
        [] i = 2           -> SIZE(Size(f))
        [] i = Size(f) + 3 -> END
        [] OTHER           -> DATA(f, i - 2)

(* A cell that is not a size, read as one, may have any value; and so may  *)
(* every cell but a type be the end octet.                                 *)
SizesRead(cell) == IF cell[1] = "size" THEN {cell[2]} ELSE 0..(MAXLINE - 3)
EndsRead(cell)  == CASE cell = END  -> {TRUE}
                     [] cell = TYPE -> {FALSE}
                     [] OTHER       -> BOOLEAN

Parsed(buffer, method, end) ==
  LET ends(whole) == {n \in SizesRead(buffer[2]) :
                        whole \in EndsRead(buffer[n + end])}
  IN  {[type |-> buffer[1], method |-> buffer[method],
        payload |-> SubSeq(buffer, 3, n + 2)] : n \in ends(TRUE)}
        \cup {[type |-> NONE] : n \in ends(FALSE)}

(* Versions that look for the end one cell early, and for the method one   *)
(* cell late.                                                              *)
break_packet_EarlyEnd(buffer)   == Parsed(buffer, 3, 2)
break_packet_LateMethod(buffer) == Parsed(buffer, 4, 3)

(* The packets break_packet may return.                                    *)
break_packet(buffer) == Parsed(buffer, 3, 3)

-----------------------------------------------------------------------------
Init ==
  /\ start \in [1..(Frames + 1) -> 0..(Frames * MAXLINE)]
  /\ start[1] = 0 /\ \A f \in 1..Frames : Size(f) \in Sizes
  /\ taken = 0 /\ splits = 0
  /\ recvline = [i \in 1..MAXLINE |-> JUNK]
  /\ delivered = <<>>

(* The buffer after a recv of so many cells.                               *)
Received(count) ==
  [i \in 1..MAXLINE |-> IF i <= count THEN Stream(taken + i) ELSE recvline[i]]

Deliver(packet) ==
  delivered' = IF packet.type = NONE THEN delivered
               ELSE Append(delivered, [packet |-> packet, place |-> taken])

(* A version that parses what was there before the recv.                   *)
Parse_Stale(buffer) == \E packet \in break_packet(recvline) : Deliver(packet)

Parse(buffer) == \E packet \in break_packet(buffer) : Deliver(packet)

Recv ==
  \E count \in 1..MAXLINE :
    /\ taken + count <= Total
    /\ recvline' = Received(count)
    /\ splits' = IF Boundary(taken + count) THEN splits ELSE splits + 1
    /\ splits' <= MaxSplits
    /\ Parse(recvline')
    /\ taken' = taken + count
    /\ UNCHANGED start

Next == Recv \/ (taken = Total /\ UNCHANGED vars)

Spec == Init /\ [][Next]_vars

-----------------------------------------------------------------------------
Packet(f) ==
  [type |-> TYPE, method |-> DATA(f, 1),
   payload |-> [i \in 1..Size(f) |-> DATA(f, i)]]

Delivery(f) == [packet |-> Packet(f), place |-> start[f]]

(* A frame that a recv begins with is delivered if it came whole, whatever *)
(* an earlier recv has left in the buffer.                                 *)
FirstFrameIsDelivered ==
  [][\A f \in 1..Frames :
       taken = start[f] /\ taken' >= start[f + 1] =>
         delivered' = Append(delivered, Delivery(f))]_vars

(* While recv returns whole frames, what is delivered was sent, in the     *)
(* order in which it was sent, and no frame is delivered twice.            *)
DeliveredInOrder ==
  splits = 0 =>
    \E from \in [1..Len(delivered) -> 1..Frames] :
      /\ \A i \in 1..Len(delivered) :
           delivered[i].packet = Packet(from[i])
      /\ \A i, j \in 1..Len(delivered) : i < j => from[i] < from[j]

(* The first piece of a frame is dropped, or has that frame's method, or   *)
(* that of the frame that was there before: what ListenerRecvFragments of  *)
(* Session lets happen.                                                    *)
SplitOutcomes ==
  splits <= 1 =>
    \A i \in 1..Len(delivered) :
      \A f \in 1..Frames :
        delivered[i].place = start[f] =>
          delivered[i].packet.method \in
            {DATA(f, 1)}
              \cup IF i = 1 THEN {JUNK} ELSE {delivered[i - 1].packet.method}

-----------------------------------------------------------------------------
(* The inductive invariant behind the properties above                     *)

Cell ==
  {TYPE, END, JUNK} \cup {SIZE(n) : n \in Sizes}
    \cup {DATA(f, i) : f \in 1..Frames, i \in 1..MAXLINE}

Parcel == [type : Cell, method : Cell, payload : Seq(Cell)]

TypeOK ==
  /\ start \in [1..(Frames + 1) -> Nat]
  /\ taken \in 0..Total /\ splits \in 0..MaxSplits
  /\ recvline \in [1..MAXLINE -> Cell]
  /\ delivered \in Seq([packet : Parcel, place : Nat])

(* Frame after frame, nothing between them.                                *)
Layout == start[1] = 0 /\ \A f \in 1..Frames : Size(f) \in Sizes

(* As long as recv has returned whole frames, it begins with one, every    *)
(* delivery is a frame's and comes from further on than the one before,    *)
(* and the method left in the buffer is that of the latest one.            *)
WholeSoFar ==
  splits = 0 =>
    /\ Boundary(taken)
    /\ \A i \in 1..Len(delivered) :
         \E f \in 1..Frames : delivered[i] = Delivery(f) /\ start[f] < taken
    /\ \A i, j \in 1..Len(delivered) :
         i < j => delivered[i].place < delivered[j].place
    /\ recvline[3] = IF delivered = <<>> THEN JUNK
                     ELSE delivered[Len(delivered)].packet.method

IInv == TypeOK /\ Layout /\ WholeSoFar /\ SplitOutcomes
===============================================================================

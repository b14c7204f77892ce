------------------------------- MODULE WireProofs ------------------------------
(***************************************************************************)
(* Proofs about what the listener makes of the stream, for every number    *)
(* and size of frames, every buffer that holds the largest of them, and    *)
(* every way to cut the stream into recv calls.                            *)
(***************************************************************************)
EXTENDS Wire, SequenceTheorems, WellFoundedInduction, TLAPS

-----------------------------------------------------------------------------
(* The layout of the stream                                                *)

(* A nonempty set of numbers has a least one.  It replaces induction over  *)
(* the frames: the least frame of which something fails.                   *)
LEMMA LeastNumber ==
  ASSUME NEW T, T \subseteq Nat, T # {}
  PROVE  \E x \in T : \A y \in T : x <= y
<1> DEFINE R == OpToRel(<, Nat)
<1>1. IsWellFoundedOn(R, Nat)
  BY NatLessThanWellFounded
<1>2. \A x, y \in Nat : <<y, x>> \in R <=> y < x
  BY DEF OpToRel
<1> HIDE DEF R
<1>3. PICK x \in T : \A y \in T : ~ (<<y, x>> \in R)
  BY <1>1, WFMin
<1>4. \A y \in T : x <= y
  <2> SUFFICES ASSUME NEW y \in T PROVE x <= y
    OBVIOUS
  <2>1. x \in Nat /\ y \in Nat /\ ~(y < x)
    BY <1>2, <1>3
  <2> QED
    BY <2>1
<1> QED
  BY <1>4

(* What the proofs need of the types.                                      *)
Laid == start \in [1..(Frames + 1) -> Nat] /\ Layout

(* The room a frame takes.                                                 *)
LEMMA Room ==
  ASSUME Laid, NEW f \in 1..Frames
  PROVE  /\ Size(f) \in Sizes /\ Size(f) \in Nat \ {0}
         /\ start[f] \in Nat /\ start[f + 1] = start[f] + Size(f) + 3
         /\ Size(f) + 3 <= MAXLINE
<1>1. start[f] \in Nat /\ start[f + 1] \in Nat
  BY WireAssumption DEF Laid
<1>2. Size(f) \in Sizes
  BY DEF Laid, Layout
<1> QED
  BY <1>1, <1>2, WireAssumption DEF Size

(* Later frames begin later.                                               *)
LEMMA InOrder ==
  ASSUME Laid, NEW f \in 1..(Frames + 1), NEW g \in 1..(Frames + 1), f < g
  PROVE  start[f] < start[g]
<1> DEFINE T == {h \in 1..(Frames + 1) :
                   \E e \in 1..(h - 1) : ~(start[e] < start[h])}
<1> SUFFICES ASSUME ~(start[f] < start[g])
             PROVE  FALSE
  OBVIOUS
<1>1. T \subseteq Nat /\ g \in T
  BY WireAssumption
<1> HIDE DEF T
<1>2. PICK h \in T : \A y \in T : h <= y
  BY <1>1, LeastNumber
<1>3. PICK e \in 1..(h - 1) : ~(start[e] < start[h])
  BY <1>2 DEF T
<1>4. h - 1 \in 1..Frames /\ h \in 1..(Frames + 1) /\ h \in Nat
  BY <1>2, <1>3, WireAssumption DEF T
<1>5. start[h - 1] < start[h]
  BY <1>4, Room
<1>6. e # h - 1
  BY <1>3, <1>5
<1>7. h - 1 \notin T
  BY <1>2, <1>4
<1>8. start[e] < start[h - 1]
  <2>1. h - 1 \in 1..(Frames + 1) /\ e \in 1..((h - 1) - 1)
    BY <1>3, <1>4, <1>6, WireAssumption
  <2> QED
    BY <1>7, <2>1 DEF T
<1>9. /\ start[e] \in Nat /\ start[h - 1] \in Nat /\ start[h] \in Nat
  BY <1>3, <1>4, WireAssumption DEF Laid
<1> QED
  BY <1>3, <1>5, <1>8, <1>9

(* Every place before the end of the stream is in one frame, ...           *)
LEMMA SomeFrame ==
  ASSUME Laid, NEW place \in 1..Total
  PROVE  \E f \in 1..Frames : Holds(f, place)
<1> DEFINE T == {h \in 1..(Frames + 1) : place <= start[h]}
<1>1. T \subseteq Nat /\ Frames + 1 \in T
  BY WireAssumption DEF Total
<1> HIDE DEF T
<1>2. PICK h \in T : \A y \in T : h <= y
  BY <1>1, LeastNumber
<1>3. h # 1
  BY <1>2 DEF T, Laid, Layout
<1>4. h - 1 \in 1..Frames /\ h \in Nat
  BY <1>2, <1>3, WireAssumption DEF T
<1>5. h - 1 \notin T
  BY <1>2, <1>4
<1>6. start[h - 1] < place
  BY <1>4, <1>5, WireAssumption DEF T, Laid
<1>7. place <= start[(h - 1) + 1]
  BY <1>2 DEF T
<1> QED
  BY <1>4, <1>6, <1>7 DEF Holds

(* ... and in no other.                                                    *)
LEMMA OneFrame ==
  ASSUME Laid, NEW place \in Nat,
         NEW f \in 1..Frames, Holds(f, place),
         NEW g \in 1..Frames, Holds(g, place)
  PROVE  f = g
<1>1. ASSUME NEW d \in 1..Frames, NEW e \in 1..Frames, d < e
      PROVE  start[d + 1] <= start[e] /\ start[e] \in Nat
             /\ start[d + 1] \in Nat
  <2>1. d + 1 \in 1..(Frames + 1) /\ e \in 1..(Frames + 1)
    BY WireAssumption
  <2>2. start[d + 1] \in Nat /\ start[e] \in Nat
    BY <2>1 DEF Laid
  <2>3. CASE d + 1 = e
    BY <2>2, <2>3
  <2>4. CASE d + 1 < e
    BY <2>1, <2>2, <2>4, InOrder
  <2> QED
    BY <1>1, <2>2, <2>3, <2>4
<1>2. ~(f < g)
  BY <1>1 DEF Holds
<1>3. ~(g < f)
  BY <1>1 DEF Holds
<1> QED
  BY <1>2, <1>3

(* The cells of a frame.                                                   *)
LEMMA CellsOf ==
  ASSUME Laid, NEW f \in 1..Frames, NEW i \in 1..(Size(f) + 3)
  PROVE  Stream(start[f] + i) =
           CASE i = 1           -> TYPE
             [] i = 2           -> SIZE(Size(f))
             [] i = Size(f) + 3 -> END
             [] OTHER           -> DATA(f, i - 2)
<1> DEFINE place == start[f] + i
<1>1. place \in Nat /\ Holds(f, place) /\ place - start[f] = i
  BY Room DEF Holds
<1>2. \A g \in 1..Frames : Holds(g, place) => g = f
  BY <1>1, OneFrame
<1>3. f = CHOOSE g \in 1..Frames : Holds(g, place)
  BY <1>1, <1>2
<1> HIDE DEF place
<1>4. Stream(place) =
           CASE i = 1           -> TYPE
             [] i = 2           -> SIZE(Size(f))
             [] i = Size(f) + 3 -> END
             [] OTHER           -> DATA(f, i - 2)
  BY <1>1, <1>3 DEF Stream
<1> QED
  BY <1>4 DEF place

-----------------------------------------------------------------------------
(* One recv                                                                *)

(* The sizes that break_packet may find an end octet behind, or none; and  *)
(* the packet of so many cells.                                            *)
Ends(buffer, whole) ==
  {m \in SizesRead(buffer[2]) : whole \in EndsRead(buffer[m + 3])}

Found(buffer, m) ==
  [type |-> buffer[1], method |-> buffer[3],
   payload |-> SubSeq(buffer, 3, m + 2)]

LEMMA Breaks ==
  ASSUME NEW buffer
  PROVE  break_packet(buffer) = {Found(buffer, m) : m \in Ends(buffer, TRUE)}
           \cup {[type |-> NONE] : m \in Ends(buffer, FALSE)}
BY DEF break_packet, Parsed, Ends, Found

(* A buffer that begins with a whole frame is broken into its packet,      *)
(* whatever comes behind.                                                  *)
LEMMA WholeFrame ==
  ASSUME Laid, NEW f \in 1..Frames, NEW buffer,
         \A i \in 1..(Size(f) + 3) : buffer[i] = Stream(start[f] + i)
  PROVE  break_packet(buffer) = {Packet(f)}
<1> DEFINE n == Size(f)
           payload == SubSeq(buffer, 3, n + 2)
           data == [i \in 1..n |-> DATA(f, i)]
<1>1. n \in Nat \ {0}
  BY Room
<1>2. /\ buffer[1] = TYPE /\ buffer[2] = SIZE(n) /\ buffer[n + 3] = END
      /\ \A i \in 1..n : buffer[i + 2] = DATA(f, i)
  <2>1. buffer[1] = TYPE /\ buffer[2] = SIZE(n)
    BY <1>1, CellsOf
  <2>2. buffer[n + 3] = END
    BY <1>1, CellsOf
  <2>3. ASSUME NEW i \in 1..n PROVE buffer[i + 2] = DATA(f, i)
    <3>1. /\ i + 2 \in 1..(n + 3) /\ i + 2 # 1 /\ i + 2 # 2
          /\ i + 2 # n + 3 /\ (i + 2) - 2 = i
      BY <1>1
    <3> QED
      BY <3>1, CellsOf
  <2> QED
    BY <2>1, <2>2, <2>3
<1> HIDE DEF n
<1>3. payload = data
  <2> DEFINE S == {buffer[i] : i \in 3..(n + 2)}
  <2>1. \A i \in 3..(n + 2) : buffer[i] \in S
    OBVIOUS
  <2> HIDE DEF S
  <2>2. /\ payload \in Seq(S)
        /\ Len(payload) = n
        /\ \A i \in 1..n : payload[i] = buffer[i + 2]
    <3>1. 3 \in Int /\ n + 2 \in Int /\ (n + 2) - 3 + 1 = n
          /\ \A i \in 1..n : 3 + i - 1 = i + 2
      BY <1>1
    <3>2. Len(payload) = IF 3 <= n + 2 THEN (n + 2) - 3 + 1 ELSE 0
      BY <2>1, <3>1, SubSeqProperties
    <3>3. \A i \in 1..((n + 2) - 3 + 1) : payload[i] = buffer[3 + i - 1]
      BY <2>1, <3>1, SubSeqProperties
    <3>4. payload \in Seq(S)
      BY <2>1, <3>1, SubSeqProperties
    <3> QED
      BY <1>1, <3>1, <3>2, <3>3, <3>4
  <2> HIDE DEF payload
  <2>3. payload = [i \in 1..n |-> payload[i]]
    BY <2>2, LenProperties
  <2> QED
    BY <1>2, <2>2, <2>3
<1>4. SizesRead(buffer[2]) = {n}
  BY <1>2 DEF SizesRead, SIZE
<1>5. EndsRead(buffer[n + 3]) = {TRUE}
  BY <1>2 DEF EndsRead, END, TYPE
<1>6. Packet(f) = [type |-> TYPE, method |-> DATA(f, 1), payload |-> data]
  BY DEF Packet, n
<1>7. buffer[3] = DATA(f, 1)
  BY <1>1, <1>2
<1>8. Ends(buffer, TRUE) = {n} /\ Ends(buffer, FALSE) = {}
  BY <1>4, <1>5 DEF Ends
<1>9. break_packet(buffer) = {Found(buffer, n)}
  BY <1>8, Breaks
<1> QED
  BY <1>2, <1>3, <1>6, <1>7, <1>9 DEF Found

(* What a cell is read as stays within the buffer.                         *)
LEMMA SizeFits ==
  ASSUME NEW cell \in Cell, NEW m \in SizesRead(cell)
  PROVE  m \in Nat /\ m + 3 <= MAXLINE
<1>1. CASE \E n \in Sizes : cell = SIZE(n)
  <2>1. m \in Sizes
    BY <1>1 DEF SizesRead, SIZE
  <2> QED
    BY <2>1, WireAssumption
<1>2. CASE cell[1] # "size"
  <2>1. m \in 0..(MAXLINE - 3)
    BY <1>2 DEF SizesRead
  <2> QED
    BY <2>1, WireAssumption
<1> QED
  BY <1>1, <1>2 DEF Cell, TYPE, END, JUNK, DATA

(* Whatever the buffer holds, what break_packet returns is marked NONE or  *)
(* is made of cells of the buffer, the third of which is its method.       *)
LEMMA ParcelFound ==
  ASSUME NEW buffer \in [1..MAXLINE -> Cell], 3 <= MAXLINE,
         NEW packet \in break_packet(buffer), packet.type # NONE
  PROVE  packet \in Parcel /\ packet.method = buffer[3]
<1>1. PICK m \in SizesRead(buffer[2]) :
        packet = [type |-> buffer[1], method |-> buffer[3],
                  payload |-> SubSeq(buffer, 3, m + 2)]
  <2>1. packet # [type |-> NONE]
    OBVIOUS
  <2>2. PICK m \in Ends(buffer, TRUE) : packet = Found(buffer, m)
    BY <2>1, Breaks
  <2> QED
    BY <2>2 DEF Ends, Found
<1>2. buffer[1] \in Cell /\ buffer[2] \in Cell /\ buffer[3] \in Cell
  BY WireAssumption
<1>3. m \in Nat /\ m + 3 <= MAXLINE
  BY <1>2, SizeFits
<1>4. 3 \in Int /\ m + 2 \in Int /\ \A i \in 3..(m + 2) : buffer[i] \in Cell
  BY <1>3, WireAssumption
<1>5. SubSeq(buffer, 3, m + 2) \in Seq(Cell)
  BY <1>4, SubSeqProperties
<1> QED
  BY <1>1, <1>2, <1>5 DEF Parcel

(* The stream is made of cells.                                            *)
LEMMA StreamIsCells ==
  ASSUME Laid, NEW place \in 1..Total
  PROVE  Stream(place) \in Cell
<1>1. PICK f \in 1..Frames : Holds(f, place)
  BY SomeFrame
<1> DEFINE i == place - start[f]
<1>2. /\ Size(f) \in Sizes /\ Size(f) \in Nat \ {0}
      /\ start[f] \in Nat /\ start[f + 1] = start[f] + Size(f) + 3
      /\ Size(f) + 3 <= MAXLINE
  BY Room
<1>3. i \in 1..(Size(f) + 3) /\ place = start[f] + i
  BY <1>1, <1>2 DEF Holds, Total
<1> HIDE DEF i
<1>4. Stream(place) =
           CASE i = 1           -> TYPE
             [] i = 2           -> SIZE(Size(f))
             [] i = Size(f) + 3 -> END
             [] OTHER           -> DATA(f, i - 2)
  BY <1>3, CellsOf
<1>5. CASE i = 1
  BY <1>4, <1>5 DEF Cell
<1>6. CASE i = 2
  BY <1>2, <1>4, <1>6 DEF Cell
<1>7. CASE i = Size(f) + 3
  <2>1. i # 1 /\ i # 2
    BY <1>2, <1>7
  <2> QED
    BY <1>4, <1>7, <2>1 DEF Cell
<1>8. CASE i \in 3..(Size(f) + 2)
  <2>1. i # 1 /\ i # 2 /\ i # Size(f) + 3 /\ i - 2 \in 1..MAXLINE
    BY <1>2, <1>8, WireAssumption
  <2> QED
    BY <1>4, <2>1 DEF Cell
<1> QED
  BY <1>2, <1>3, <1>5, <1>6, <1>7, <1>8

(* A recv in terms of the facts above.                                     *)
LEMMA RecvIs ==
  ASSUME TypeOK, Layout, Recv
  PROVE  \E count \in 1..MAXLINE :
           /\ taken' = taken + count /\ taken' <= Total
           /\ recvline' = Received(count)
           /\ splits' = IF Boundary(taken') THEN splits ELSE splits + 1
           /\ splits' <= MaxSplits
           /\ start' = start
           /\ recvline' \in [1..MAXLINE -> Cell]
           /\ \E packet \in break_packet(recvline') :
                delivered' = IF packet.type = NONE THEN delivered
                             ELSE Append(delivered, [packet |-> packet,
                                                     place |-> taken])
<1>1. PICK count \in 1..MAXLINE :
        /\ taken + count <= Total
        /\ recvline' = Received(count)
        /\ splits' = IF Boundary(taken + count) THEN splits ELSE splits + 1
        /\ splits' <= MaxSplits
        /\ Parse(recvline')
        /\ taken' = taken + count
        /\ UNCHANGED start
  BY DEF Recv
<1>2. Total \in Nat /\ Laid
  BY WireAssumption DEF TypeOK, Total, Laid
<1>3. \A i \in 1..MAXLINE : i <= count => Stream(taken + i) \in Cell
  <2> SUFFICES ASSUME NEW i \in 1..MAXLINE, i <= count
               PROVE  Stream(taken + i) \in Cell
    OBVIOUS
  <2>1. taken + i \in 1..Total
    BY <1>1, <1>2, WireAssumption DEF TypeOK
  <2> QED
    BY <1>2, <2>1, StreamIsCells
<1>4. recvline' \in [1..MAXLINE -> Cell]
  BY <1>1, <1>3 DEF Received, TypeOK
<1>5. \E packet \in break_packet(recvline') :
        delivered' = IF packet.type = NONE THEN delivered
                     ELSE Append(delivered, [packet |-> packet,
                                             place |-> taken])
  BY <1>1 DEF Parse, Deliver
<1> QED
  BY <1>1, <1>4, <1>5

(* When recv begins with a whole frame, that frame is delivered, and its   *)
(* method stays in the buffer.                                             *)
LEMMA FirstFrame ==
  ASSUME TypeOK, Layout, Recv,
         NEW f \in 1..Frames, taken = start[f], taken' >= start[f + 1]
  PROVE  /\ delivered' = Append(delivered, Delivery(f))
         /\ recvline'[3] = DATA(f, 1)
         /\ Delivery(f) \in [packet : Parcel, place : Nat]
<1>1. Laid
  BY DEF Laid, TypeOK
<1>2. PICK count \in 1..MAXLINE :
        /\ taken' = taken + count
        /\ recvline' = Received(count)
        /\ \E packet \in break_packet(recvline') :
             delivered' = IF packet.type = NONE THEN delivered
                          ELSE Append(delivered, [packet |-> packet,
                                                  place |-> taken])
  BY RecvIs
<1>3. /\ Size(f) \in Nat \ {0}
      /\ start[f] \in Nat /\ start[f + 1] = start[f] + Size(f) + 3
      /\ Size(f) + 3 <= MAXLINE
  BY <1>1, Room
<1>4. Size(f) + 3 <= count
  BY <1>2, <1>3
<1>5. \A i \in 1..(Size(f) + 3) : recvline'[i] = Stream(start[f] + i)
  <2> SUFFICES ASSUME NEW i \in 1..(Size(f) + 3)
               PROVE  recvline'[i] = Stream(start[f] + i)
    OBVIOUS
  <2>1. i \in 1..MAXLINE /\ i <= count
    BY <1>3, <1>4, WireAssumption
  <2> QED
    BY <1>2, <2>1 DEF Received
<1>6. break_packet(recvline') = {Packet(f)}
  BY <1>1, <1>5, WholeFrame
<1>7. Packet(f).type # NONE
  BY DEF Packet, TYPE, NONE
<1>8. delivered' = Append(delivered, Delivery(f))
  BY <1>2, <1>6, <1>7 DEF Delivery
<1>9. recvline'[3] = Stream(start[f] + 3)
  BY <1>3, <1>5
<1>10. Stream(start[f] + 3) = DATA(f, 1)
  <2>1. /\ 3 \in 1..(Size(f) + 3) /\ 3 # 1 /\ 3 # 2 /\ 3 # Size(f) + 3
        /\ 3 - 2 = 1
    BY <1>3
  <2> QED
    BY <1>1, <2>1, CellsOf
<1>11. Packet(f) \in Parcel
  <2>1. recvline' \in [1..MAXLINE -> Cell]
    BY RecvIs
  <2>2. 3 <= MAXLINE
    BY <1>3, WireAssumption
  <2> QED
    BY <1>6, <1>7, <2>1, <2>2, ParcelFound
<1> QED
  BY <1>3, <1>8, <1>9, <1>10, <1>11 DEF Delivery

(* A recv that begins and ends between two frames has a whole one first.   *)
LEMMA FromBoundary ==
  ASSUME TypeOK, Layout, Recv, Boundary(taken)
  PROVE  /\ \E f \in 1..Frames : taken = start[f]
         /\ Boundary(taken') => \A f \in 1..Frames :
                                  taken = start[f] => taken' >= start[f + 1]
<1>1. Laid
  BY DEF Laid, TypeOK
<1>2. taken < taken' /\ taken' <= Total /\ taken \in Nat /\ taken' \in Nat
  BY RecvIs, WireAssumption DEF TypeOK
<1>3. \E f \in 1..Frames : taken = start[f]
  <2>1. PICK f \in 1..(Frames + 1) : taken = start[f]
    BY DEF Boundary
  <2>2. f # Frames + 1
    BY <1>2, <2>1 DEF Total
  <2>3. f \in 1..Frames
    BY <2>2, WireAssumption
  <2> QED
    BY <2>1, <2>3
<1>4. ASSUME Boundary(taken'), NEW f \in 1..Frames, taken = start[f]
      PROVE  taken' >= start[f + 1]
  <2>1. PICK g \in 1..(Frames + 1) : taken' = start[g]
    BY <1>4 DEF Boundary
  <2>2. f \in 1..(Frames + 1) /\ f + 1 \in 1..(Frames + 1)
    BY WireAssumption
  <2>3. f < g
    <3>1. f # g
      BY <1>2, <1>4, <2>1
    <3>2. ~(g < f)
      BY <1>1, <1>2, <1>4, <2>1, <2>2, InOrder
    <3> QED
      BY <3>1, <3>2
  <2>4. CASE f + 1 = g
    BY <1>2, <2>1, <2>4
  <2>5. CASE f + 1 < g
    <3>1. start[f + 1] < start[g] /\ start[f + 1] \in Nat
      BY <1>1, <2>2, <2>5, InOrder DEF Laid
    <3> QED
      BY <1>2, <2>1, <3>1
  <2> QED
    BY <2>3, <2>4, <2>5
<1> QED
  BY <1>3, <1>4

-----------------------------------------------------------------------------
(* The inductive invariant                                                 *)

(* It holds of an empty buffer before the first frame.                     *)
LEMMA WireBegins == Init => IInv
<1> SUFFICES ASSUME Init PROVE IInv
  OBVIOUS
<1>1. start \in [1..(Frames + 1) -> Nat]
  BY WireAssumption DEF Init
<1>2. Layout
  BY DEF Init, Layout
<1>3. TypeOK
  <2>1. Total \in Nat
    BY <1>1, WireAssumption DEF Total
  <2>2. recvline \in [1..MAXLINE -> Cell]
    BY DEF Init, Cell
  <2> QED
    BY <1>1, <2>1, <2>2, WireAssumption DEF Init, TypeOK
<1>4. delivered = <<>> /\ Len(delivered) = 0
  BY DEF Init
<1>5. WholeSoFar
  <2>1. Boundary(taken)
    BY WireAssumption DEF Init, Boundary
  <2>2. recvline[3] = JUNK
    <3>1. 1 \in 1..Frames /\ Laid
      BY <1>1, <1>2, WireAssumption DEF Laid
    <3>2. 3 \in 1..MAXLINE
      BY <3>1, Room, WireAssumption
    <3> QED
      BY <3>2 DEF Init
  <2> QED
    BY <1>4, <2>1, <2>2 DEF WholeSoFar
<1>6. SplitOutcomes
  BY <1>4 DEF SplitOutcomes
<1> QED
  BY <1>2, <1>3, <1>5, <1>6 DEF IInv

(* What one more delivery does to those before it.                         *)
LEMMA OneMore ==
  ASSUME NEW S, NEW s \in Seq(S), NEW x \in S
  PROVE  /\ Append(s, x) \in Seq(S) /\ Append(s, x) # <<>>
         /\ Len(Append(s, x)) = Len(s) + 1 /\ Len(s) \in Nat
         /\ \A i \in 1..Len(s) : Append(s, x)[i] = s[i]
         /\ Append(s, x)[Len(s) + 1] = x
BY AppendProperties, LenProperties

(* A recv delivers one packet from its place in the stream, or none.       *)
LEMMA DeliversOne ==
  ASSUME TypeOK, Layout, Recv
  PROVE  \/ delivered' = delivered
         \/ \E d \in [packet : Parcel, place : Nat] :
              /\ delivered' = Append(delivered, d)
              /\ d.place = taken /\ d.packet.method = recvline'[3]
<1>1. 1 \in 1..Frames /\ Laid
  BY WireAssumption DEF TypeOK, Laid
<1>2. 3 <= MAXLINE /\ taken \in Nat
  BY <1>1, Room, WireAssumption DEF TypeOK
<1>3. recvline' \in [1..MAXLINE -> Cell]
  BY RecvIs
<1>4. PICK packet \in break_packet(recvline') :
        delivered' = IF packet.type = NONE THEN delivered
                     ELSE Append(delivered, [packet |-> packet,
                                             place |-> taken])
  BY RecvIs
<1>5. packet.type # NONE => packet \in Parcel /\ packet.method = recvline'[3]
  BY <1>2, <1>3, ParcelFound
<1> QED
  BY <1>2, <1>4, <1>5

LEMMA WireTypes == TypeOK /\ Layout /\ Recv => TypeOK'
<1> SUFFICES ASSUME TypeOK, Layout, Recv PROVE TypeOK'
  OBVIOUS
<1>1. start' = start /\ recvline' \in [1..MAXLINE -> Cell]
  BY RecvIs
<1>2. taken' \in 0..Total' /\ splits' \in 0..MaxSplits
  <2>1. Total \in Nat /\ Total' = Total
    BY <1>1, WireAssumption DEF TypeOK, Total
  <2> QED
    BY <2>1, RecvIs, WireAssumption DEF TypeOK
<1>3. delivered' \in Seq([packet : Parcel, place : Nat])
  <2> DEFINE D == [packet : Parcel, place : Nat]
  <2>1. delivered \in Seq(D)
    BY DEF TypeOK
  <2>2. \/ delivered' = delivered
        \/ \E d \in D : delivered' = Append(delivered, d)
    BY DeliversOne
  <2> HIDE DEF D
  <2>3. delivered' \in Seq(D)
    BY <2>1, <2>2
  <2> QED
    BY <2>3 DEF D
<1>4. start' \in [1..(Frames + 1) -> Nat]
  BY <1>1 DEF TypeOK
<1> QED
  BY <1>1, <1>2, <1>3, <1>4 DEF TypeOK

(* Without a split, one whole frame per recv.                              *)
LEMMA StaysWhole == IInv /\ Recv => WholeSoFar'
<1> SUFFICES ASSUME IInv, Recv, splits' = 0 PROVE WholeSoFar'
  BY DEF WholeSoFar
<1>1. TypeOK /\ Layout /\ WholeSoFar
  BY DEF IInv
<1>2. start' = start /\ Boundary(taken') /\ splits = 0
      /\ taken < taken' /\ taken \in Nat /\ taken' \in Nat
  BY <1>1, RecvIs, WireAssumption DEF TypeOK
<1>3. PICK f \in 1..Frames : taken = start[f]
  BY <1>1, <1>2, FromBoundary DEF WholeSoFar
<1>4. taken' >= start[f + 1]
  BY <1>1, <1>2, <1>3, FromBoundary DEF WholeSoFar
<1> DEFINE D == [packet : Parcel, place : Nat]
           n == Len(delivered)
<1>5. /\ delivered' = Append(delivered, Delivery(f))
      /\ recvline'[3] = DATA(f, 1) /\ Delivery(f) \in D
  BY <1>1, <1>3, <1>4, FirstFrame
<1>6. delivered \in Seq(D)
  BY <1>1 DEF TypeOK
<1> HIDE DEF D
<1>7. /\ delivered' # <<>> /\ Len(delivered') = n + 1 /\ n \in Nat
      /\ \A i \in 1..n : delivered'[i] = delivered[i]
      /\ delivered'[n + 1] = Delivery(f)
  BY <1>5, <1>6, OneMore
<1> HIDE DEF n
<1>8. /\ Delivery(f).place = taken
      /\ Delivery(f).packet.method = DATA(f, 1)
      /\ \A g \in 1..Frames : Delivery(g).place = start[g]
      /\ \A g \in 1..Frames : Delivery(g)' = Delivery(g)
  BY <1>2, <1>3 DEF Delivery, Packet, Size
<1>9. \A i \in 1..n :
        \E g \in 1..Frames : delivered[i] = Delivery(g) /\ start[g] < taken
  BY <1>1, <1>2 DEF WholeSoFar, n
<1>10. Boundary(taken)'
  BY <1>2 DEF Boundary
<1>11. \A i \in 1..(n + 1) :
         \E g \in 1..Frames : delivered'[i] = Delivery(g) /\ start[g] < taken'
  <2> SUFFICES ASSUME NEW i \in 1..(n + 1)
               PROVE  \E g \in 1..Frames :
                        delivered'[i] = Delivery(g) /\ start[g] < taken'
    OBVIOUS
  <2>1. CASE i = n + 1
    BY <1>2, <1>3, <1>7, <2>1
  <2>2. CASE i \in 1..n
    <3>1. PICK g \in 1..Frames : delivered[i] = Delivery(g) /\ start[g] < taken
      BY <1>9, <2>2
    <3>2. start[g] \in Nat
      BY <1>1, WireAssumption DEF TypeOK
    <3> QED
      BY <1>2, <1>7, <2>2, <3>1, <3>2
  <2> QED
    BY <1>7, <2>1, <2>2
<1>12. \A i, j \in 1..(n + 1) :
         i < j => delivered'[i].place < delivered'[j].place
  <2> SUFFICES ASSUME NEW i \in 1..(n + 1), NEW j \in 1..(n + 1), i < j
               PROVE  delivered'[i].place < delivered'[j].place
    OBVIOUS
  <2>1. i \in 1..n /\ delivered'[i] = delivered[i]
    BY <1>7
  <2>2. CASE j = n + 1
    BY <1>7, <1>8, <1>9, <2>1, <2>2
  <2>3. CASE j \in 1..n
    <3>1. delivered[i].place < delivered[j].place
      BY <1>1, <1>2, <2>1, <2>3 DEF WholeSoFar, n
    <3> QED
      BY <1>7, <2>1, <2>3, <3>1
  <2> QED
    BY <1>7, <2>2, <2>3
<1>13. recvline'[3] = delivered'[n + 1].packet.method
  BY <1>5, <1>7, <1>8
<1> QED
  BY <1>2, <1>7, <1>8, <1>10, <1>11, <1>12, <1>13 DEF WholeSoFar

(* The first split leaves of the frame it cuts a whole method or none.     *)
LEMMA StaysSplit == IInv /\ Recv => SplitOutcomes'
<1> DEFINE D == [packet : Parcel, place : Nat]
           n == Len(delivered)
           Before(s, i) == IF i = 1 THEN {JUNK} ELSE {s[i - 1].packet.method}
<1> SUFFICES ASSUME IInv, Recv, splits' <= 1,
                    NEW i \in 1..Len(delivered'), NEW f \in 1..Frames,
                    delivered'[i].place = start'[f]
             PROVE  delivered'[i].packet.method
                      \in {DATA(f, 1)} \cup Before(delivered', i)
  BY DEF SplitOutcomes
<1>1. TypeOK /\ Layout /\ WholeSoFar /\ SplitOutcomes
  BY DEF IInv
<1>2. /\ start' = start /\ splits \in Nat
      /\ splits' = IF Boundary(taken') THEN splits ELSE splits + 1
      /\ taken \in Nat
  BY <1>1, RecvIs DEF TypeOK
<1>3. splits <= 1
  BY <1>2
<1>4. ASSUME NEW j \in 1..n, delivered[j].place = start[f]
      PROVE  delivered[j].packet.method
               \in {DATA(f, 1)} \cup Before(delivered, j)
  BY <1>1, <1>3, <1>4 DEF SplitOutcomes
<1>5. delivered \in Seq(D)
  BY <1>1 DEF TypeOK
<1>6. CASE delivered' = delivered
  BY <1>2, <1>4, <1>6
<1>7. ASSUME NEW d \in D, delivered' = Append(delivered, d),
             d.place = taken, d.packet.method = recvline'[3]
      PROVE  delivered'[i].packet.method
               \in {DATA(f, 1)} \cup Before(delivered', i)
  <2> HIDE DEF D
  <2>1. /\ Len(delivered') = n + 1 /\ n \in Nat
        /\ \A j \in 1..n : delivered'[j] = delivered[j]
        /\ delivered'[n + 1] = d
    BY <1>5, <1>7, OneMore
  <2>2. CASE i \in 1..n
    <3>1. delivered'[i] = delivered[i] /\ delivered[i].place = start[f]
      BY <1>2, <2>1, <2>2
    <3>2. Before(delivered', i) = Before(delivered, i)
      <4>1. i = 1 \/ i - 1 \in 1..n
        BY <2>1, <2>2
      <4> QED
        BY <2>1, <4>1
    <3> QED
      BY <1>4, <2>2, <3>1, <3>2
  <2>3. CASE i = n + 1
    <3>1. taken = start[f] /\ delivered'[i].packet.method = recvline'[3]
      BY <1>2, <1>7, <2>1, <2>3
    <3>2. CASE taken' >= start[f + 1]
      BY <1>1, <3>1, <3>2, FirstFrame
    <3>3. CASE ~(taken' >= start[f + 1])
      <4>1. Boundary(taken)
        BY <3>1, WireAssumption DEF Boundary
      <4>2. ~Boundary(taken')
        BY <1>1, <3>1, <3>3, <4>1, FromBoundary
      <4>3. splits = 0
        BY <1>2, <4>2
      <4>4. {recvline[3]} = Before(delivered', i)
        <5>1. recvline[3] = IF delivered = <<>> THEN JUNK
                            ELSE delivered[n].packet.method
          BY <1>1, <4>3 DEF WholeSoFar
        <5>2. delivered = <<>> <=> n = 0
          BY <1>5
        <5>3. n # 0 => delivered'[i - 1] = delivered[n] /\ i # 1
          BY <2>1, <2>3
        <5>4. n = 0 => i = 1
          BY <2>3
        <5> QED
          BY <5>1, <5>2, <5>3, <5>4
      <4>5. recvline'[3] \in {DATA(f, 1), recvline[3]}
        <5>1. Laid
          BY <1>1 DEF Laid, TypeOK
        <5>2. /\ Size(f) \in Nat \ {0} /\ Size(f) + 3 <= MAXLINE
          BY <5>1, Room
        <5>3. Stream(start[f] + 3) = DATA(f, 1)
          <6>1. /\ 3 \in 1..(Size(f) + 3) /\ 3 # 1 /\ 3 # 2
                /\ 3 # Size(f) + 3 /\ 3 - 2 = 1
            BY <5>2
          <6> QED
            BY <5>1, <6>1, CellsOf
        <5>4. PICK count \in 1..MAXLINE : recvline' = Received(count)
          BY <1>1, RecvIs
        <5>5. 3 \in 1..MAXLINE
          BY <5>2, WireAssumption
        <5> QED
          BY <3>1, <5>3, <5>4, <5>5 DEF Received
      <4> QED
        BY <3>1, <4>4, <4>5
    <3> QED
      BY <3>2, <3>3
  <2> QED
    BY <2>1, <2>2, <2>3
<1> QED
  BY <1>1, <1>6, <1>7, DeliversOne

LEMMA WireStep == IInv /\ [Next]_vars => IInv'
<1> SUFFICES ASSUME IInv, [Next]_vars PROVE IInv'
  OBVIOUS
<1>1. CASE Recv
  <2>1. TypeOK' /\ WholeSoFar' /\ SplitOutcomes'
    BY <1>1, WireTypes, StaysWhole, StaysSplit DEF IInv
  <2>2. Layout'
    <3>1. start' = start
      BY <1>1 DEF Recv
    <3> QED
      BY <3>1 DEF IInv, Layout, Size
  <2> QED
    BY <2>1, <2>2 DEF IInv
<1>2. CASE UNCHANGED vars
  BY <1>2
     DEF vars, IInv, TypeOK, Layout, WholeSoFar, SplitOutcomes, Total, Size,
         Boundary, Delivery, Packet
<1> QED
  BY <1>1, <1>2 DEF Next

(* The invariant holds of every stream and every way to cut it.            *)
THEOREM WireInvariance == Spec => []IInv
BY WireBegins, WireStep, PTL DEF Spec

-----------------------------------------------------------------------------
(* What follows from it                                                    *)

(* A whole frame at the start of a recv is put into channel_packets as it  *)
(* was sent, although break_packet reads a buffer that nobody clears.      *)
THEOREM WholeFramesArrive == Spec => FirstFrameIsDelivered
<1>1. IInv /\ [Next]_vars =>
        [\A f \in 1..Frames :
           taken = start[f] /\ taken' >= start[f + 1] =>
             delivered' = Append(delivered, Delivery(f))]_vars
  <2>1. IInv /\ Recv =>
          \A f \in 1..Frames :
            taken = start[f] /\ taken' >= start[f + 1] =>
              delivered' = Append(delivered, Delivery(f))
    BY FirstFrame DEF IInv
  <2> QED
    BY <2>1 DEF Next
<1> QED
  BY <1>1, WireInvariance, PTL DEF Spec, FirstFrameIsDelivered

(* Without a split, no frame is delivered twice, out of order or changed.  *)
THEOREM NothingIsRepeated == Spec => []DeliveredInOrder
<1>1. IInv => DeliveredInOrder
  <2> DEFINE from == [i \in 1..Len(delivered) |->
                        CHOOSE f \in 1..Frames : delivered[i] = Delivery(f)]
  <2> SUFFICES ASSUME IInv, splits = 0
               PROVE  \E which \in [1..Len(delivered) -> 1..Frames] :
                        /\ \A i \in 1..Len(delivered) :
                             delivered[i].packet = Packet(which[i])
                        /\ \A i, j \in 1..Len(delivered) :
                             i < j => which[i] < which[j]
    BY DEF DeliveredInOrder
  <2>1. ASSUME NEW i \in 1..Len(delivered)
        PROVE  from[i] \in 1..Frames /\ delivered[i] = Delivery(from[i])
    BY DEF IInv, WholeSoFar
  <2>2. from \in [1..Len(delivered) -> 1..Frames]
    BY <2>1
  <2> HIDE DEF from
  <2>3. ASSUME NEW i \in 1..Len(delivered)
        PROVE  /\ delivered[i].packet = Packet(from[i])
               /\ delivered[i].place = start[from[i]]
    <3>1. \A f : Delivery(f).packet = Packet(f) /\ Delivery(f).place = start[f]
      BY DEF Delivery
    <3> QED
      BY <2>1, <3>1
  <2>4. ASSUME NEW i \in 1..Len(delivered), NEW j \in 1..Len(delivered), i < j
        PROVE  from[i] < from[j]
    <3>1. delivered[i].place < delivered[j].place
      BY <2>4 DEF IInv, WholeSoFar
    <3>2. start[from[i]] < start[from[j]]
      BY <2>3, <3>1
    <3>3. /\ from[i] \in 1..Frames /\ from[j] \in 1..Frames
          /\ start[from[i]] \in Nat /\ start[from[j]] \in Nat
      <4>1. from[i] \in 1..Frames /\ from[j] \in 1..Frames
        BY <2>1
      <4>2. \A f \in 1..Frames : start[f] \in Nat
        BY WireAssumption DEF IInv, TypeOK
      <4> QED
        BY <4>1, <4>2
    <3>4. ~(from[j] < from[i])
      <4>1. Laid
        BY DEF IInv, TypeOK, Laid
      <4>2. from[i] \in 1..(Frames + 1) /\ from[j] \in 1..(Frames + 1)
        BY <3>3, WireAssumption
      <4>3. from[j] < from[i] => start[from[j]] < start[from[i]]
        BY <4>1, <4>2, InOrder
      <4> QED
        BY <3>2, <3>3, <4>3
    <3>5. from[i] # from[j]
      BY <3>2, <3>3
    <3> QED
      BY <3>3, <3>4, <3>5
  <2> QED
    BY <2>2, <2>3, <2>4
<1> QED
  BY <1>1, WireInvariance, PTL

(* The first piece of the first frame that is split over two recv calls is *)
(* dropped, or has that frame's method or the one before it.               *)
THEOREM SplitsAreAsModelled == Spec => []SplitOutcomes
<1>1. IInv => SplitOutcomes
  BY DEF IInv
<1> QED
  BY <1>1, WireInvariance, PTL
===============================================================================

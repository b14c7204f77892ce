----------------------------- MODULE TuneOkProofs -----------------------------
(***************************************************************************)
(* Proofs about the conversions and about connection_tune_ok, for octets   *)
(* of 256 values, every offer, every draw and every minimum.               *)
(***************************************************************************)
EXTENDS TuneOk, TLAPS

-----------------------------------------------------------------------------
(* The conversions                                                         *)

(* How many values the types have.                                         *)
LEMMA Words ==
  ASSUME Octets = 256
  PROVE  /\ Short = 65536 /\ Int32 = 4294967296
         /\ \A o : o \in Octet <=> o \in Int /\ 0 <= o /\ o <= 255
BY SMT DEF Short, Int32, Octet

(* What char_in_short makes of a word.                                     *)
Short16(w) == IF w < 32768 THEN w ELSE w - 65536

LEMMA ShortRead ==
  ASSUME Octets = 256, NEW a \in Octet, NEW b \in Octet
  PROVE  /\ Unsigned16(a, b) \in Int
         /\ 0 <= Unsigned16(a, b) /\ Unsigned16(a, b) <= 65535
         /\ char_in_short(a, b) = Short16(Unsigned16(a, b))
<1>1. a \in Int /\ 0 <= a /\ a <= 255 /\ b \in Int /\ 0 <= b /\ b <= 255
  BY SMT, Words
<1>2. PICK w \in Int : w = a * 256 + b /\ 0 <= w /\ w <= 65535
  BY SMT, <1>1
<1>3. w % 65536 = w
  BY SMT, <1>2
<1>4. Signed(65536, w) = Short16(w)
  BY SMT, <1>2, <1>3 DEF Signed, Short16
<1>5. Unsigned16(a, b) = w
  BY SMT, <1>2 DEF Unsigned16
<1>6. char_in_short(a, b) = Signed(65536, w)
  BY SMT, <1>2, Words DEF char_in_short
<1> QED
  BY SMT, <1>2, <1>4, <1>5, <1>6

(* The conversion to int, for what two shorts can add up to.               *)
LEMMA SignedInt ==
  ASSUME NEW r \in Int, -2147516416 <= r, r <= 2147483647
  PROVE  Signed(4294967296, r) = IF r >= -2147483648 THEN r
                                 ELSE r + 4294967296
<1>1. CASE r >= 0
  <2>1. r % 4294967296 = r
    BY SMT, <1>1
  <2> QED  BY SMT, <1>1, <2>1 DEF Signed
<1>2. CASE r < 0
  <2>1. r % 4294967296 = r + 4294967296
    BY SMT, <1>2
  <2> QED  BY SMT, <1>2, <2>1 DEF Signed
<1> QED
  BY SMT, <1>1, <1>2

(* What char_in_int makes of the two halves: each is read as a signed      *)
(* short, and the sum wraps.                                               *)
Halves(high, low) ==
  LET sum == Short16(high) * 65536 + Short16(low)
  IN  IF sum >= -2147483648 THEN sum ELSE sum + 4294967296

LEMMA HalvesSum ==
  ASSUME NEW high \in Int, 0 <= high, high <= 65535,
         NEW low \in Int, 0 <= low, low <= 65535
  PROVE  Signed(4294967296, Short16(high) * 65536 + Short16(low))
           = Halves(high, low)
<1>1. PICK h \in Int : h = Short16(high) /\ -32768 <= h /\ h <= 32767
  BY SMT DEF Short16
<1>2. PICK l \in Int : l = Short16(low) /\ -32768 <= l /\ l <= 32767
  BY SMT DEF Short16
<1>3. /\ h * 65536 + l \in Int
      /\ -2147516416 <= h * 65536 + l /\ h * 65536 + l <= 2147483647
  BY SMT, <1>1, <1>2
<1>4. Signed(4294967296, h * 65536 + l) = Halves(high, low)
  BY SMT, <1>1, <1>2, <1>3, SignedInt DEF Halves
<1> QED
  BY SMT, <1>1, <1>2, <1>4

LEMMA IntRead ==
  ASSUME Octets = 256, NEW a \in Octet, NEW b \in Octet,
         NEW c \in Octet, NEW d \in Octet
  PROVE  /\ Unsigned32(a, b, c, d)
              = Unsigned16(a, b) * 65536 + Unsigned16(c, d)
         /\ char_in_int(a, b, c, d)
              = Halves(Unsigned16(a, b), Unsigned16(c, d))
<1>1. PICK high \in Int :
        /\ high = Unsigned16(a, b) /\ 0 <= high /\ high <= 65535
        /\ char_in_short(a, b) = Short16(high)
  BY SMT, ShortRead
<1>2. PICK low \in Int :
        /\ low = Unsigned16(c, d) /\ 0 <= low /\ low <= 65535
        /\ char_in_short(c, d) = Short16(low)
  BY SMT, ShortRead
<1>3. Unsigned32(a, b, c, d) = high * 65536 + low
  BY SMT, <1>1, <1>2, Words DEF Unsigned32
<1>4. char_in_int(a, b, c, d) = Halves(high, low)
  BY SMT, <1>1, <1>2, Words, HalvesSum DEF char_in_int
<1> QED
  BY SMT, <1>1, <1>2, <1>3, <1>4

(* The octets of a small integer.                                          *)
LEMMA SmallDigits ==
  ASSUME NEW x \in Int, 0 <= x, x <= 32767
  PROVE  /\ (x \div 16777216) % 256 = 0 /\ (x \div 65536) % 256 = 0
         /\ (x \div 256) % 256 = x \div 256 /\ (x \div 1) % 256 = x % 256
         /\ x \div 256 \in Int /\ 0 <= x \div 256 /\ x \div 256 <= 127
         /\ x % 256 \in Int /\ 0 <= x % 256 /\ x % 256 <= 255
         /\ x = (x \div 256) * 256 + (x % 256)
BY SMT

(* int_in_char fills the four octets, and char_in_int reads an integer     *)
(* back if the top bit of its low half is clear: so it does with every     *)
(* size that fits the listener's buffer.                                   *)
THEOREM SizesReadBack ==
  ASSUME Octets = 256, NEW x \in Int, 0 <= x, x <= 32767,
         NEW dst \in [0..3 -> Octet],
         NEW out, out = int_in_char(dst, x, 0, 4)
  PROVE  char_in_int(out[0], out[1], out[2], out[3]) = x
<1>1. /\ out[0] = Digit(x, Short * Octets)
      /\ out[1] = Digit(x, Short)
      /\ out[2] = Digit(x, Octets)
      /\ out[3] = Digit(x, 1)
  BY SMT DEF int_in_char
<1>2. /\ out[0] = 0 /\ out[1] = 0
      /\ out[2] = x \div 256 /\ out[3] = x % 256
  BY SMT, <1>1, SmallDigits, Words DEF Digit
<1>3. /\ out[0] \in Octet /\ out[1] \in Octet
      /\ out[2] \in Octet /\ out[3] \in Octet
  BY SMT, <1>2, SmallDigits, Words
<1>4. Unsigned16(out[0], out[1]) = 0 /\ Unsigned16(out[2], out[3]) = x
  BY SMT, <1>2, SmallDigits DEF Unsigned16
<1>5. char_in_int(out[0], out[1], out[2], out[3]) = Halves(0, x)
  BY SMT, <1>3, <1>4, IntRead
<1> QED
  BY SMT, <1>5 DEF Halves, Short16

-----------------------------------------------------------------------------
(* The draws                                                               *)

(* A draw from rand() % (received + 1), where received reads a word.       *)
LEMMA ChannelDraws ==
  ASSUME NEW w \in Int, 0 <= w, w <= 65535,
         NEW d \in Draws(Short16(w) + 1)
  PROVE  d \in Int /\ 0 <= d /\ d <= w
<1>1. CASE w < 32768
  BY SMT, <1>1 DEF Draws, Short16
<1>2. CASE w >= 32768
  BY SMT, <1>2 DEF Draws, Short16
<1> QED
  BY SMT, <1>1, <1>2

(* The same for two words.                                                 *)
LEMMA FrameDraws ==
  ASSUME NEW high \in Int, 0 <= high, high <= 65535,
         NEW low \in Int, 0 <= low, low <= 65535,
         NEW d \in Draws(Halves(high, low) + 1)
  PROVE  d \in Int /\ 0 <= d /\ d <= high * 65536 + low
<1>1. PICK r \in Int : r = Halves(high, low)
  BY SMT DEF Halves, Short16
<1>2. d \in Int /\ 0 <= d /\ (IF r + 1 < 0 THEN d <= -r - 2 ELSE d <= r)
  BY SMT, <1>1 DEF Draws
<1>3. -2147483648 <= r /\ r <= 2147483647
  BY SMT, <1>1 DEF Halves, Short16
<1>4. CASE high >= 32768
  BY SMT, <1>2, <1>3, <1>4
<1>5. CASE high < 32768
  <2>1. r <= high * 65536 + low /\ (r < 0 => r >= -32768 /\ low >= 32768)
    BY SMT, <1>1, <1>5 DEF Halves, Short16
  <2> QED  BY SMT, <1>2, <2>1
<1> QED
  BY SMT, <1>4, <1>5

(* Only 0x0000FFFF reads as -1.                                            *)
LEMMA MinusOne ==
  ASSUME NEW high \in Int, 0 <= high, high <= 65535,
         NEW low \in Int, 0 <= low, low <= 65535,
         Halves(high, low) + 1 = 0
  PROVE  high = 0 /\ low = 65535
<1>1. PICK h \in Int : h = Short16(high) /\ -32768 <= h /\ h <= 32767
  BY SMT DEF Short16
<1>2. PICK l \in Int : l = Short16(low) /\ -32768 <= l /\ l <= 32767
  BY SMT DEF Short16
<1>3. h * 65536 + l = -1
  BY SMT, <1>1, <1>2 DEF Halves
<1>4. h = 0 /\ l = -1
  BY SMT, <1>1, <1>2, <1>3
<1> QED
  BY SMT, <1>1, <1>2, <1>4 DEF Short16

(* The octets of a word, in network order.                                 *)
LEMMA WordDigits ==
  ASSUME Octets = 256, NEW x \in Int, 0 <= x, x <= 65535
  PROVE  /\ Digit(x, Octets) \in Octet /\ Digit(x, 1) \in Octet
         /\ Unsigned16(Digit(x, Octets), Digit(x, 1)) = x
<1>1. /\ (x \div 256) % 256 = x \div 256 /\ (x \div 1) % 256 = x % 256
      /\ x \div 256 \in Int /\ 0 <= x \div 256 /\ x \div 256 <= 255
      /\ x % 256 \in Int /\ 0 <= x % 256 /\ x % 256 <= 255
      /\ x = (x \div 256) * 256 + (x % 256)
  BY SMT
<1> QED
  BY SMT, <1>1, Words DEF Digit, Unsigned16

-----------------------------------------------------------------------------
(* connection_tune_ok                                                      *)

(* What the two numbers may be at each point.  NeverAboveOffer has to hold *)
(* from the start: the write follows the last draw, not the one before.    *)
Drafts ==
  /\ pc = "channel" => channel_max = 0 /\ frame_max = -1
  /\ pc = "frame" => prompted
  /\ prompted => /\ channel_max <= OfferedChannel
                 /\ frame_max <= OfferedFrame

IInv == TypeOK /\ Drafts /\ CrashOnlyOnMinusOne /\ ChannelMaxOnWire

(* The offer, and how connection_tune_ok reads it.                         *)
LEMMA Offer ==
  ASSUME Octets = 256, arguments \in [0..5 -> Octet]
  PROVE  /\ \E w \in Int :
              /\ 0 <= w /\ w <= 65535 /\ w = OfferedChannel
              /\ char_in_short(arguments[0], arguments[1]) = Short16(w)
         /\ \E h, l \in Int :
              /\ 0 <= h /\ h <= 65535 /\ 0 <= l /\ l <= 65535
              /\ OfferedFrame = h * 65536 + l
              /\ char_in_int(arguments[2], arguments[3],
                             arguments[4], arguments[5]) = Halves(h, l)
<1>1. \A i \in 0..5 : arguments[i] \in Octet
  OBVIOUS
<1>2. /\ arguments[0] \in Octet /\ arguments[1] \in Octet
      /\ arguments[2] \in Octet /\ arguments[3] \in Octet
      /\ arguments[4] \in Octet /\ arguments[5] \in Octet
  BY SMT, <1>1
<1>3. PICK h \in Int : /\ h = Unsigned16(arguments[2], arguments[3])
                       /\ 0 <= h /\ h <= 65535
  BY SMT, <1>2, ShortRead
<1>4. PICK l \in Int : /\ l = Unsigned16(arguments[4], arguments[5])
                       /\ 0 <= l /\ l <= 65535
  BY SMT, <1>2, ShortRead
<1>5. /\ OfferedFrame = h * 65536 + l
      /\ char_in_int(arguments[2], arguments[3],
                     arguments[4], arguments[5]) = Halves(h, l)
  BY SMT, <1>2, <1>3, <1>4, IntRead DEF OfferedFrame
<1> QED
  BY SMT, <1>2, <1>3, <1>4, <1>5, ShortRead DEF OfferedChannel

LEMMA InitIInv ==
  ASSUME Octets = 256, Init
  PROVE  IInv
<1>1. arguments \in [0..5 -> Octet]
  BY SMT, OffersAssumption DEF Init
<1>2. TypeOK
  BY SMT, <1>1, Words DEF Init, TypeOK
<1>3. OfferedChannel \in Int /\ 0 <= OfferedChannel
  BY SMT, <1>1, Offer
<1>4. OfferedFrame \in Int /\ 0 <= OfferedFrame
  BY SMT, <1>1, Offer
<1>5. pc = "channel" /\ channel_max = 0 /\ frame_max = -1
  BY DEF Init
<1>6. Drafts
  BY SMT, <1>3, <1>4, <1>5 DEF Drafts
<1> QED
  BY SMT, <1>2, <1>5, <1>6 DEF IInv, CrashOnlyOnMinusOne, ChannelMaxOnWire

LEMMA NextIInv ==
  ASSUME Octets = 256, IInv, [Next]_vars
  PROVE  IInv'
<1> USE DEF IInv
<1>0. /\ arguments' = arguments /\ prompted' = prompted
      /\ OfferedChannel' = OfferedChannel /\ OfferedFrame' = OfferedFrame
  BY SMT DEF Next, Unprompted, DrawChannel, DrawFrame, Drawn, Write, vars,
             fields, OfferedChannel, OfferedFrame
<1>1. CASE Unprompted
  BY SMT, <1>0, <1>1, Words
     DEF Unprompted, fields, TypeOK, Drafts, CrashOnlyOnMinusOne,
         ChannelMaxOnWire
<1>2. CASE DrawChannel
  <2>1. PICK w \in Int :
          /\ 0 <= w /\ w <= 65535 /\ w = OfferedChannel
          /\ char_in_short(arguments[0], arguments[1]) = Short16(w)
    BY SMT, Offer DEF TypeOK
  <2>2. CASE Short16(w) + 1 = 0
    <3>1. /\ channel_max' = channel_max /\ pc' = "SIGFPE"
          /\ UNCHANGED <<frame_max, channel_max_char, frame_max_char>>
      BY SMT, <1>2, <2>1, <2>2 DEF DrawChannel, Modulus, fields
    <3>2. OfferedChannel = Short - 1
      BY SMT, <2>1, <2>2, Words DEF Short16
    <3> QED
      BY SMT, <1>0, <3>1, <3>2
         DEF TypeOK, Drafts, CrashOnlyOnMinusOne, ChannelMaxOnWire
  <2>3. CASE Short16(w) + 1 # 0
    <3>1. /\ channel_max' \in Draws(Short16(w) + 1) /\ pc' = "frame"
          /\ prompted
          /\ UNCHANGED <<frame_max, channel_max_char, frame_max_char>>
      BY SMT, <1>2, <2>1, <2>3 DEF DrawChannel, Modulus, fields
    <3>2. /\ channel_max' \in Int /\ 0 <= channel_max'
          /\ channel_max' <= w
      BY SMT, <2>1, <3>1, ChannelDraws
    <3> QED
      BY SMT, <1>0, <2>1, <3>1, <3>2, Words
         DEF TypeOK, Drafts, CrashOnlyOnMinusOne, ChannelMaxOnWire
  <2> QED  BY SMT, <2>2, <2>3
<1>3. CASE DrawFrame
  <2>1. PICK h \in Int, l \in Int :
          /\ 0 <= h /\ h <= 65535 /\ 0 <= l /\ l <= 65535
          /\ OfferedFrame = h * 65536 + l
          /\ char_in_int(arguments[2], arguments[3],
                         arguments[4], arguments[5]) = Halves(h, l)
    BY SMT, Offer DEF TypeOK
  <2>2. CASE Halves(h, l) + 1 = 0
    <3>1. /\ frame_max' = frame_max /\ pc' = "SIGFPE"
          /\ UNCHANGED <<channel_max, channel_max_char, frame_max_char>>
      BY SMT, <1>3, <2>1, <2>2 DEF DrawFrame, Modulus, fields
    <3>2. OfferedFrame = Short - 1
      BY SMT, <2>1, <2>2, MinusOne, Words
    <3> QED
      BY SMT, <1>0, <3>1, <3>2
         DEF TypeOK, Drafts, CrashOnlyOnMinusOne, ChannelMaxOnWire
  <2>3. CASE Halves(h, l) + 1 # 0
    <3>1. /\ frame_max' \in Draws(Halves(h, l) + 1) /\ pc' = "frame"
          /\ prompted \/ pc = "frame"
          /\ UNCHANGED <<channel_max, channel_max_char, frame_max_char>>
      BY SMT, <1>3, <2>1, <2>3 DEF DrawFrame, Modulus, fields
    <3>2. /\ frame_max' \in Int /\ 0 <= frame_max'
          /\ frame_max' <= h * 65536 + l
      BY SMT, <2>1, <3>1, FrameDraws
    <3>3. pc = "frame"
      BY SMT, <1>3 DEF DrawFrame
    <3> QED
      BY SMT, <1>0, <2>1, <3>1, <3>2, <3>3, Words
         DEF TypeOK, Drafts, CrashOnlyOnMinusOne, ChannelMaxOnWire
  <2> QED  BY SMT, <2>2, <2>3
<1>4. CASE Drawn
  BY SMT, <1>0, <1>4
     DEF Drawn, fields, TypeOK, Drafts, CrashOnlyOnMinusOne, ChannelMaxOnWire
<1>5. CASE Write
  <2>1. /\ pc' = "done" /\ UNCHANGED <<channel_max, frame_max>>
        /\ channel_max \in Int /\ 0 <= channel_max /\ channel_max <= 65535
    BY SMT, <1>5, Words DEF Write, TypeOK
  <2>2. /\ channel_max_char' \in [0..1 -> Octet]
        /\ channel_max_char'[0] = Digit(channel_max, Octets)
        /\ channel_max_char'[1] = Digit(channel_max, 1)
    BY SMT, <1>5, <2>1, WordDigits DEF Write, short_in_char, TypeOK
  <2>3. frame_max_char' \in [0..3 -> Octet]
    <3>1. \A weight : weight \in {1, 256, 65536, 16777216}
             => Digit(frame_max, weight) \in Octet
      <4>1. frame_max \in Int
        BY SMT, Words DEF TypeOK
      <4>2. \A x \in Int : x % 256 \in Int /\ 0 <= x % 256 /\ x % 256 <= 255
        BY SMT
      <4>3. /\ frame_max \div 1 \in Int /\ frame_max \div 256 \in Int
            /\ frame_max \div 65536 \in Int
            /\ frame_max \div 16777216 \in Int
        BY SMT, <4>1
      <4> QED  BY SMT, <4>2, <4>3, Words DEF Digit
    <3>2. Short * Octets = 16777216
      BY SMT, Words
    <3> QED
      BY SMT, <1>5, <3>1, <3>2, Words DEF Write, int_in_char, TypeOK
  <2> QED
    BY SMT, <1>0, <2>1, <2>2, <2>3, WordDigits
       DEF TypeOK, Drafts, CrashOnlyOnMinusOne, ChannelMaxOnWire
<1>6. CASE UNCHANGED vars
  BY SMT, <1>0, <1>6
     DEF vars, fields, TypeOK, Drafts, CrashOnlyOnMinusOne, ChannelMaxOnWire
<1> QED
  BY SMT, <1>1, <1>2, <1>3, <1>4, <1>5, <1>6 DEF Next

(* The invariant holds throughout every answer.                            *)
THEOREM Invariance == ASSUME Octets = 256 PROVE Spec => []IInv
<1>1. Init => IInv
  BY InitIInv
<1>2. IInv /\ [Next]_vars => IInv'
  BY NextIInv
<1> QED
  BY <1>1, <1>2, PTL DEF Spec

(* The types of every connection_tune_ok.                                  *)
THEOREM TypeCorrect == ASSUME Octets = 256 PROVE Spec => []TypeOK
<1>1. IInv => TypeOK
  BY DEF IInv
<1> QED
  BY <1>1, Invariance, PTL

(* No answer is above the broker's offer, however utils.c reads it.        *)
THEOREM AnswersAreWithinTheOffer ==
  ASSUME Octets = 256 PROVE Spec => []NeverAboveOffer
<1>1. IInv => NeverAboveOffer
  BY DEF IInv, Drafts, NeverAboveOffer
<1> QED
  BY <1>1, Invariance, PTL

(* The division by zero needs a channel-max or frame-max of 0xFFFF.        *)
THEOREM CrashesAreKnown ==
  ASSUME Octets = 256 PROVE Spec => []CrashOnlyOnMinusOne
<1>1. IInv => CrashOnlyOnMinusOne
  BY DEF IInv
<1> QED
  BY <1>1, Invariance, PTL

(* The channel-max that was drawn is the one that is sent.                 *)
THEOREM ChannelMaxArrives ==
  ASSUME Octets = 256 PROVE Spec => []ChannelMaxOnWire
<1>1. IInv => ChannelMaxOnWire
  BY DEF IInv
<1> QED
  BY <1>1, Invariance, PTL
==============================================================================

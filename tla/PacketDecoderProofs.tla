------------------------ MODULE PacketDecoderProofs ------------------------
(***************************************************************************)
(* Decoding undoes encoding: theorems about PacketDecoder for every value  *)
(* of every field, and the types of what is decoded from any bytes.        *)
(***************************************************************************)
EXTENDS PacketDecoder, SequenceTheorems, TLAPS

-----------------------------------------------------------------------------
(* Numbers of two digits *)

LEMMA TwoDigits ==
  ASSUME NEW m \in Nat \ {0}, NEW v \in 0 .. m * m - 1
  PROVE  /\ v % m \in 0 .. m - 1 /\ v \div m \in 0 .. m - 1
         /\ (v % m) + m * (v \div m) = v
BY SMTT(20)

LEMMA DigitsInRange ==
  ASSUME NEW m \in Nat \ {0}, NEW a \in 0 .. m - 1, NEW b \in 0 .. m - 1
  PROVE  a + m * b \in 0 .. m * m - 1
<1>1. m * b <= m * (m - 1)
  BY SMTT(20)
<1>2. m * (m - 1) = m * m - m /\ m * b \in Nat
  BY SMTT(20)
<1>. QED
  BY <1>1, <1>2, SMTT(20)

LEMMA TwosComplement ==
  ASSUME NEW h \in Nat \ {0}, NEW v \in -h .. h - 1
  PROVE  v % (2 * h) = IF v < 0 THEN v + 2 * h ELSE v
BY SMTT(20)

LEMMA ByteModulusType == ByteModulus \in Nat \ {0} /\ 2 < ByteModulus
BY ByteAssumption

LEMMA WordModulusType ==
  /\ WordModulus \in Nat \ {0}
  /\ WordModulus \div 2 \in Nat \ {0}
  /\ WordModulus = 2 * (WordModulus \div 2)
<1>1. CASE ByteModulus = 16
  BY <1>1, SMT DEF WordModulus
<1>2. CASE ByteModulus = 256
  BY <1>2, SMT DEF WordModulus
<1>. QED
  BY <1>1, <1>2, ByteAssumption

-----------------------------------------------------------------------------
(* One field *)

LEMMA WordBytes ==
  ASSUME NEW v \in UInt16
  PROVE  /\ Word(v) \in Seq(Byte) /\ Len(Word(v)) = 2
         /\ Word(v)[1] + ByteModulus * Word(v)[2] = v
<1>1. v % ByteModulus \in Byte /\ v \div ByteModulus \in Byte
      /\ (v % ByteModulus) + ByteModulus * (v \div ByteModulus) = v
  BY TwoDigits, ByteModulusType DEF UInt16, WordModulus, Byte
<1>. QED
  BY <1>1 DEF Word

LEMMA SignedValue ==
  ASSUME NEW v \in Int16
  PROVE  /\ v % WordModulus \in UInt16
         /\ v = IF v % WordModulus < WordModulus \div 2
                  THEN v % WordModulus ELSE (v % WordModulus) - WordModulus
<1>. DEFINE h == WordModulus \div 2
<1>1. h \in Nat \ {0} /\ WordModulus = 2 * h
  BY WordModulusType
<1>2. v \in -h .. h - 1
  BY DEF Int16
<1>. HIDE DEF h
<1>3. v % WordModulus = IF v < 0 THEN v + 2 * h ELSE v
  BY <1>1, <1>2, TwosComplement
<1>4. /\ v % WordModulus \in 0 .. WordModulus - 1
      /\ v = IF v % WordModulus < h
                  THEN v % WordModulus ELSE (v % WordModulus) - WordModulus
  BY <1>1, <1>2, <1>3, SMT
<1>. QED
  BY <1>4 DEF UInt16, h

LEMMA LongWords ==
  ASSUME NEW v \in UInt32
  PROVE  /\ v % WordModulus \in UInt16 /\ v \div WordModulus \in UInt16
         /\ (v % WordModulus) + WordModulus * (v \div WordModulus) = v
BY TwoDigits, WordModulusType DEF UInt32, LongModulus, UInt16

\* Any two bytes are a word, any two words a long one.
LEMMA ReadTypes ==
  ASSUME NEW d \in Seq(Byte), NEW k \in Nat
  PROVE  /\ k + 2 <= Len(d) => ReadUint16LE(d, k) \in UInt16
         /\ k + 2 <= Len(d) => ReadInt16LE(d, k) \in Int16
         /\ k + 4 <= Len(d) => ReadUint32LE(d, k) \in UInt32
<1>1. ASSUME NEW j \in Nat, j + 2 <= Len(d)
      PROVE  ReadUint16LE(d, j) \in UInt16
  <2>1. d[j + 1] \in Byte /\ d[j + 2] \in Byte
    BY <1>1
  <2>. QED
    BY <2>1, DigitsInRange, ByteModulusType
    DEF ReadUint16LE, UInt16, WordModulus, Byte
<1>2. ASSUME k + 2 <= Len(d)
      PROVE  ReadInt16LE(d, k) \in Int16
  <2>. DEFINE u == ReadUint16LE(d, k)
              h == WordModulus \div 2
  <2>1. u \in 0 .. WordModulus - 1
    BY <1>1, <1>2 DEF UInt16
  <2>2. h \in Nat \ {0} /\ WordModulus = 2 * h
    BY WordModulusType
  <2>3. ReadInt16LE(d, k) = IF u < h THEN u ELSE u - WordModulus
    BY DEF ReadInt16LE
  <2>4. Int16 = -h .. h - 1
    BY DEF Int16
  <2>. HIDE DEF u, h
  <2>. QED
    BY <2>1, <2>2, <2>3, <2>4, SMT
<1>3. ASSUME k + 4 <= Len(d)
      PROVE  ReadUint32LE(d, k) \in UInt32
  <2>1. ReadUint16LE(d, k) \in UInt16 /\ ReadUint16LE(d, k + 2) \in UInt16
    BY <1>1, <1>3
  <2>. QED
    BY <2>1, DigitsInRange, WordModulusType
    DEF ReadUint32LE, UInt32, LongModulus, UInt16
<1>. QED
  BY <1>1, <1>2, <1>3

-----------------------------------------------------------------------------
(* One field in a datagram *)

StartsWith(f, d) == Len(d) <= Len(f) /\ \A k \in 1 .. Len(d) : f[k] = d[k]

LEMMA Extension ==
  ASSUME NEW d \in Seq(Byte), NEW x \in Seq(Byte)
  PROVE  d \o x \in Seq(Byte) /\ Len(d \o x) = Len(d) + Len(x)
OBVIOUS

LEMMA ExtensionReads ==
  ASSUME NEW d \in Seq(Byte), NEW x \in Seq(Byte),
         NEW f \in Seq(Byte), StartsWith(f, d \o x)
  PROVE  StartsWith(f, d) /\ \A k \in 1 .. Len(x) : f[Len(d) + k] = x[k]
<1>1. /\ Len(d \o x) = Len(d) + Len(x)
      /\ Len(d) \in Nat /\ Len(x) \in Nat /\ Len(f) \in Nat
  OBVIOUS
<1>2. Len(d) + Len(x) <= Len(f) /\ \A k \in 1 .. Len(d) + Len(x) : f[k] = (d \o x)[k]
  BY <1>1 DEF StartsWith
<1>3. ASSUME NEW k \in 1 .. Len(d)
      PROVE  f[k] = d[k]
  <2>1. k \in 1 .. Len(d) + Len(x)
    BY <1>1
  <2>2. (d \o x)[k] = d[k]
    BY <1>1
  <2>. QED
    BY <1>2, <2>1, <2>2
<1>4. ASSUME NEW k \in 1 .. Len(x)
      PROVE  f[Len(d) + k] = x[k]
  <2>1. Len(d) + k \in 1 .. Len(d) + Len(x)
    BY <1>1
  <2>2. (d \o x)[Len(d) + k] = x[k]
    BY <1>1
  <2>. QED
    BY <1>2, <2>1, <2>2
<1>5. Len(d) <= Len(f)
  BY <1>1, <1>2
<1>. QED
  BY <1>3, <1>4, <1>5 DEF StartsWith

LEMMA ExtensionByWord ==
  ASSUME NEW d \in Seq(Byte), NEW v \in UInt16
  PROVE  d \o Word(v) \in Seq(Byte) /\ Len(d \o Word(v)) = Len(d) + 2
<1>1. Word(v) \in Seq(Byte) /\ Len(Word(v)) = 2
  BY WordBytes
<1>2. d \o Word(v) \in Seq(Byte) /\ Len(d \o Word(v)) = Len(d) + Len(Word(v))
  BY <1>1, Extension
<1>. QED
  BY <1>1, <1>2

LEMMA WordReads ==
  ASSUME NEW d \in Seq(Byte), NEW v \in UInt16,
         NEW f \in Seq(Byte), StartsWith(f, d \o Word(v))
  PROVE  StartsWith(f, d) /\ ReadUint16LE(f, Len(d)) = v
<1>1. Word(v) \in Seq(Byte) /\ Len(Word(v)) = 2
  BY WordBytes
<1>2. StartsWith(f, d) /\ \A k \in 1 .. Len(Word(v)) : f[Len(d) + k] = Word(v)[k]
  BY <1>1, ExtensionReads
<1>3. f[Len(d) + 1] = Word(v)[1] /\ f[Len(d) + 2] = Word(v)[2]
  BY <1>1, <1>2
<1>. QED
  BY <1>2, <1>3, WordBytes DEF ReadUint16LE

LEMMA ExtensionBySignedWord ==
  ASSUME NEW d \in Seq(Byte), NEW v \in Int16
  PROVE  d \o SignedWord(v) \in Seq(Byte) /\ Len(d \o SignedWord(v)) = Len(d) + 2
BY SignedValue, ExtensionByWord DEF SignedWord

LEMMA SignedWordReads ==
  ASSUME NEW d \in Seq(Byte), NEW v \in Int16,
         NEW f \in Seq(Byte), StartsWith(f, d \o SignedWord(v))
  PROVE  StartsWith(f, d) /\ ReadInt16LE(f, Len(d)) = v
BY SignedValue, WordReads DEF SignedWord, ReadInt16LE

LEMMA TwoExtensions ==
  ASSUME NEW d \in Seq(Byte), NEW x \in Seq(Byte), NEW y \in Seq(Byte)
  PROVE  /\ d \o (x \o y) \in Seq(Byte)
         /\ Len(d \o (x \o y)) = Len(d) + Len(x) + Len(y)
         /\ d \o (x \o y) = (d \o x) \o y
<1>1. (d \o x) \o y = d \o (x \o y)
  BY ConcatAssociative
<1>2. d \o x \in Seq(Byte) /\ Len(d \o x) = Len(d) + Len(x)
  BY Extension
<1>3. (d \o x) \o y \in Seq(Byte) /\ Len((d \o x) \o y) = Len(d \o x) + Len(y)
  BY <1>2, Extension
<1>. QED
  BY <1>1, <1>2, <1>3

LEMMA ExtensionByLong ==
  ASSUME NEW d \in Seq(Byte), NEW v \in UInt32
  PROVE  /\ d \o Long(v) \in Seq(Byte)
         /\ Len(d \o Long(v)) = Len(d) + 4
         /\ d \o Long(v) = (d \o Word(v % WordModulus)) \o Word(v \div WordModulus)
<1>. DEFINE low == Word(v % WordModulus)
            high == Word(v \div WordModulus)
<1>1. v % WordModulus \in UInt16 /\ v \div WordModulus \in UInt16
  BY LongWords
<1>2. Long(v) = low \o high
  BY DEF Long
<1>3. low \in Seq(Byte) /\ high \in Seq(Byte) /\ Len(low) = 2 /\ Len(high) = 2
  BY <1>1, WordBytes
<1>. HIDE DEF low, high
<1>4. /\ d \o (low \o high) \in Seq(Byte)
      /\ Len(d \o (low \o high)) = Len(d) + Len(low) + Len(high)
      /\ d \o (low \o high) = (d \o low) \o high
  BY <1>3, TwoExtensions
<1>5. Len(d) + Len(low) + Len(high) = Len(d) + 4
  BY <1>3
<1>. QED
  BY <1>2, <1>4, <1>5 DEF low, high

LEMMA LongReads ==
  ASSUME NEW d \in Seq(Byte), NEW v \in UInt32,
         NEW f \in Seq(Byte), StartsWith(f, d \o Long(v))
  PROVE  StartsWith(f, d) /\ ReadUint32LE(f, Len(d)) = v
<1>. DEFINE low == v % WordModulus
            high == v \div WordModulus
            e == d \o Word(low)
<1>1. low \in UInt16 /\ high \in UInt16 /\ low + WordModulus * high = v
  BY LongWords
<1>2. StartsWith(f, e \o Word(high))
  BY ExtensionByLong
<1>. HIDE DEF low, high
<1>3. e \in Seq(Byte) /\ Len(e) = Len(d) + 2
  BY <1>1, ExtensionByWord
<1>4. StartsWith(f, e) => StartsWith(f, d) /\ ReadUint16LE(f, Len(d)) = low
  BY <1>1, WordReads
<1>. HIDE DEF e
<1>5. StartsWith(f, e) /\ ReadUint16LE(f, Len(d) + 2) = high
  BY <1>1, <1>2, <1>3, WordReads
<1>. QED
  BY <1>1, <1>4, <1>5 DEF ReadUint32LE

LEMMA ExtensionByByte ==
  ASSUME NEW d \in Seq(Byte), NEW b \in Byte
  PROVE  /\ d \o <<b>> \in Seq(Byte)
         /\ Len(d \o <<b>>) = Len(d) + 1
         /\ (d \o <<b>>)[Len(d) + 1] = b
OBVIOUS

LEMMA WholeStartsWithItself ==
  ASSUME NEW d \in Seq(Byte)
  PROVE  StartsWith(d, d)
BY DEF StartsWith

LEMMA ZeroIsLong == 0 \in UInt32
<1>1. LongModulus \in Nat \ {0}
  BY WordModulusType, SMT DEF LongModulus
<1>. QED
  BY <1>1 DEF UInt32

-----------------------------------------------------------------------------
(* The header *)

LEMMA HeaderType ==
  ASSUME NEW type \in Byte
  PROVE  Header(type) \in Seq(Byte) /\ Len(Header(type)) = 4
<1>1. PROTOCOL_MAGIC \in UInt16
  BY WordModulusType, SMT DEF PROTOCOL_MAGIC, UInt16
<1>2. Word(PROTOCOL_MAGIC) \in Seq(Byte) /\ Len(Word(PROTOCOL_MAGIC)) = 2
  BY <1>1, WordBytes
<1>. DEFINE w == Word(PROTOCOL_MAGIC)
            x == <<PROTOCOL_VERSION, type>>
<1>3. x \in Seq(Byte) /\ Len(x) = 2
  BY ByteModulusType DEF PROTOCOL_VERSION, Byte
<1>4. Header(type) = w \o x
  BY DEF Header
<1>. HIDE DEF w, x
<1>5. w \o x \in Seq(Byte) /\ Len(w \o x) = Len(w) + Len(x)
  BY <1>2, <1>3, Extension DEF w
<1>. QED
  BY <1>2, <1>3, <1>4, <1>5 DEF w

LEMMA HeaderReads ==
  ASSUME NEW type \in Byte, NEW f \in Seq(Byte), StartsWith(f, Header(type))
  PROVE  HeaderValid(f) /\ f[4] = type
<1>. DEFINE w == Word(PROTOCOL_MAGIC)
            x == <<PROTOCOL_VERSION, type>>
<1>1. PROTOCOL_MAGIC \in UInt16
  BY WordModulusType, SMT DEF PROTOCOL_MAGIC, UInt16
<1>2. /\ w \in Seq(Byte) /\ Len(w) = 2
      /\ w[1] + ByteModulus * w[2] = PROTOCOL_MAGIC
  BY <1>1, WordBytes
<1>3. /\ x \in Seq(Byte) /\ Len(x) = 2
      /\ x[1] = PROTOCOL_VERSION /\ x[2] = type
  BY ByteModulusType DEF PROTOCOL_VERSION, Byte
<1>4. StartsWith(f, w \o x)
  BY DEF Header
<1>. HIDE DEF w, x
<1>5. StartsWith(f, w) /\ \A k \in 1 .. Len(x) : f[Len(w) + k] = x[k]
  BY <1>2, <1>3, <1>4, ExtensionReads
<1>6. f[1] = w[1] /\ f[2] = w[2] /\ f[3] = x[1] /\ f[4] = x[2]
  <2>1. f[1] = w[1] /\ f[2] = w[2]
    BY <1>2, <1>5 DEF StartsWith
  <2>2. f[2 + 1] = x[1] /\ f[2 + 2] = x[2]
    BY <1>2, <1>3, <1>5
  <2>. QED
    BY <2>1, <2>2
<1>. QED
  BY <1>2, <1>3, <1>6 DEF HeaderValid, ReadUint16LE

-----------------------------------------------------------------------------
(* Whole datagrams *)

\* A handshake datagram is decoded to the type and the sequence number it was
\* made with, whichever they are (decode, sendHandshakeResponse).
THEOREM HandshakeRoundTrip ==
  ASSUME NEW type \in Byte, NEW sequence \in UInt32
  PROVE  LET d == Handshake(type, sequence)
         IN d \in Seq(Byte) /\ IsHandshake(d, type)
              /\ HandshakeSequence(d) = sequence
<1>. DEFINE d1 == Header(type)
            d2 == d1 \o Long(sequence)
            d3 == d2 \o Long(0)
<1>1. d3 = Handshake(type, sequence)
  BY DEF Handshake
<1>2. d1 \in Seq(Byte) /\ Len(d1) = 4
  BY HeaderType
<1>3. d2 \in Seq(Byte) /\ Len(d2) = 8
  <2>. HIDE DEF d1
  <2>. QED
    BY <1>2, ExtensionByLong
<1>4. d3 \in Seq(Byte) /\ Len(d3) = 12
  <2>. HIDE DEF d2
  <2>1. d2 \o Long(0) \in Seq(Byte) /\ Len(d2 \o Long(0)) = Len(d2) + 4
    BY <1>3, ZeroIsLong, ExtensionByLong
  <2>. QED
    BY <1>3, <2>1
<1>5. StartsWith(d3, d2)
  <2>. HIDE DEF d2
  <2>1. StartsWith(d3, d2 \o Long(0))
    BY <1>4, WholeStartsWithItself
  <2>. QED
    BY <1>3, <1>4, <2>1, ZeroIsLong, LongReads
<1>6. StartsWith(d3, d1) /\ ReadUint32LE(d3, 4) = sequence
  <2>. HIDE DEF d1, d3
  <2>1. StartsWith(d3, d1) /\ ReadUint32LE(d3, Len(d1)) = sequence
    BY <1>2, <1>4, <1>5, LongReads
  <2>. QED
    BY <1>2, <2>1
<1>7. HeaderValid(d3) /\ d3[4] = type
  <2>. HIDE DEF d3
  <2>. QED
    BY <1>4, <1>6, HeaderReads
<1>. HIDE DEF d3
<1>8. IsHandshake(d3, type) /\ HandshakeSequence(d3) = sequence
  BY <1>4, <1>6, <1>7
  DEF IsHandshake, HANDSHAKE_PACKET_SIZE, HandshakeSequence
<1>. QED
  BY <1>1, <1>4, <1>8

LEMMA TimestampType == Timestamp \in Seq(Byte) /\ Len(Timestamp) = 8
<1>. DEFINE l == Long(0)
            low == Word(0 % WordModulus)
            high == Word(0 \div WordModulus)
<1>1. 0 % WordModulus \in UInt16 /\ 0 \div WordModulus \in UInt16
  BY ZeroIsLong, LongWords
<1>2. low \in Seq(Byte) /\ high \in Seq(Byte) /\ Len(low) = 2 /\ Len(high) = 2
  BY <1>1, WordBytes
<1>3. l = low \o high
  BY DEF Long
<1>. HIDE DEF l, low, high
<1>4. l \in Seq(Byte) /\ Len(l) = 4
  <2>1. low \o high \in Seq(Byte) /\ Len(low \o high) = Len(low) + Len(high)
    BY <1>2, Extension
  <2>. QED
    BY <1>2, <1>3, <2>1
<1>5. l \o l \in Seq(Byte) /\ Len(l \o l) = Len(l) + Len(l)
  BY <1>4, Extension
<1>6. Timestamp = l \o l
  BY DEF Timestamp, l
<1>7. Len(l) + Len(l) = 8
  BY <1>4
<1>. QED
  BY <1>5, <1>6, <1>7

\* A controller packet is decoded to the sequence number and the controls it
\* was made with, for every value of every field: offsets, byte order and
\* signs agree on both sides (decode, PacketProtocol.h).
THEOREM StateRoundTrip ==
  ASSUME NEW sequence \in UInt32, NEW input \in DecodedInputs
  PROVE  LET d == StatePacket(sequence, input)
         IN /\ d \in Seq(Byte) /\ IsState(d)
            /\ DecodedState(d) = [sequence |-> sequence, input |-> input]
<1>. DEFINE d1 == Header(PACKET_TYPE_STATE)
            d2 == d1 \o Long(sequence)
            d3 == d2 \o Timestamp
            d4 == d3 \o SignedWord(input.leftX)
            d5 == d4 \o SignedWord(input.leftY)
            d6 == d5 \o SignedWord(input.rightX)
            d7 == d6 \o SignedWord(input.rightY)
            d8 == d7 \o Word(input.leftTrigger)
            d9 == d8 \o Word(input.rightTrigger)
            d10 == d9 \o Long(input.buttons)
            d == d10 \o <<input.dpad>>
            Of(e, n) == e \in Seq(Byte) /\ Len(e) = n
<1>1. StatePacket(sequence, input) = d
  BY DEF StatePacket
<1>2. /\ input.leftX \in Int16 /\ input.leftY \in Int16
      /\ input.rightX \in Int16 /\ input.rightY \in Int16
      /\ input.leftTrigger \in UInt16 /\ input.rightTrigger \in UInt16
      /\ input.buttons \in UInt32 /\ input.dpad \in Byte
  BY DEF DecodedInputs
<1>3. PACKET_TYPE_STATE \in Byte
  BY ByteModulusType DEF PACKET_TYPE_STATE, Byte
<1>4. input = [ leftX |-> input.leftX, leftY |-> input.leftY,
                rightX |-> input.rightX, rightY |-> input.rightY,
                leftTrigger |-> input.leftTrigger,
                rightTrigger |-> input.rightTrigger,
                buttons |-> input.buttons, dpad |-> input.dpad ]
  BY DEF DecodedInputs
<1>d2. d2 = d1 \o Long(sequence)  OBVIOUS
<1>d3. d3 = d2 \o Timestamp  OBVIOUS
<1>d4. d4 = d3 \o SignedWord(input.leftX)  OBVIOUS
<1>d5. d5 = d4 \o SignedWord(input.leftY)  OBVIOUS
<1>d6. d6 = d5 \o SignedWord(input.rightX)  OBVIOUS
<1>d7. d7 = d6 \o SignedWord(input.rightY)  OBVIOUS
<1>d8. d8 = d7 \o Word(input.leftTrigger)  OBVIOUS
<1>d9. d9 = d8 \o Word(input.rightTrigger)  OBVIOUS
<1>d10. d10 = d9 \o Long(input.buttons)  OBVIOUS
<1>d. d = d10 \o <<input.dpad>>  OBVIOUS
<1>5. Of(d1, 4)
  BY <1>3, HeaderType
<1>. HIDE DEF d1, d2, d3, d4, d5, d6, d7, d8, d9, d10, d
<1>6. Of(d2, 8)
  <2>1. d2 \in Seq(Byte) /\ Len(d2) = Len(d1) + 4
    BY <1>d2, <1>5, ExtensionByLong
  <2>. QED
    BY <1>5, <2>1
<1>7. Of(d3, 16)
  <2>1. d2 \o Timestamp \in Seq(Byte)
        /\ Len(d2 \o Timestamp) = Len(d2) + Len(Timestamp)
    BY <1>6, TimestampType, Extension
  <2>. QED
    BY <1>d3, <1>6, <2>1, TimestampType
<1>8. Of(d4, 18)
  <2>1. d4 \in Seq(Byte) /\ Len(d4) = Len(d3) + 2
    BY <1>d4, <1>2, <1>7, ExtensionBySignedWord
  <2>. QED
    BY <1>7, <2>1
<1>9. Of(d5, 20)
  <2>1. d5 \in Seq(Byte) /\ Len(d5) = Len(d4) + 2
    BY <1>d5, <1>2, <1>8, ExtensionBySignedWord
  <2>. QED
    BY <1>8, <2>1
<1>10. Of(d6, 22)
  <2>1. d6 \in Seq(Byte) /\ Len(d6) = Len(d5) + 2
    BY <1>d6, <1>2, <1>9, ExtensionBySignedWord
  <2>. QED
    BY <1>9, <2>1
<1>11. Of(d7, 24)
  <2>1. d7 \in Seq(Byte) /\ Len(d7) = Len(d6) + 2
    BY <1>d7, <1>2, <1>10, ExtensionBySignedWord
  <2>. QED
    BY <1>10, <2>1
<1>12. Of(d8, 26)
  <2>1. d8 \in Seq(Byte) /\ Len(d8) = Len(d7) + 2
    BY <1>d8, <1>2, <1>11, ExtensionByWord
  <2>. QED
    BY <1>11, <2>1
<1>13. Of(d9, 28)
  <2>1. d9 \in Seq(Byte) /\ Len(d9) = Len(d8) + 2
    BY <1>d9, <1>2, <1>12, ExtensionByWord
  <2>. QED
    BY <1>12, <2>1
<1>14. Of(d10, 32)
  <2>1. d10 \in Seq(Byte) /\ Len(d10) = Len(d9) + 4
    BY <1>d10, <1>2, <1>13, ExtensionByLong
  <2>. QED
    BY <1>13, <2>1
<1>15. Of(d, 33) /\ StartsWith(d, d10) /\ d[33] = input.dpad
  <2>. DEFINE b == input.dpad
  <2>0. b \in Byte /\ d = d10 \o <<b>>
    BY <1>d, <1>2
  <2>. HIDE DEF b
  <2>a. d \in Seq(Byte) /\ Len(d) = Len(d10) + 1 /\ d[Len(d10) + 1] = b
    BY <2>0, <1>14, ExtensionByByte
  <2>1. Of(d, 33) /\ d[33] = input.dpad
    BY <1>14, <2>a DEF b
  <2>2. <<input.dpad>> \in Seq(Byte)
    BY <1>2
  <2>3. StartsWith(d, d10 \o <<input.dpad>>)
    BY <1>d, <2>1, WholeStartsWithItself
  <2>. QED
    BY <1>14, <2>1, <2>2, <2>3, ExtensionReads
<1>16. StartsWith(d, d9) /\ ReadUint32LE(d, 28) = input.buttons
  <2>1. StartsWith(d, d9 \o Long(input.buttons))
    BY <1>d10, <1>15
  <2>2. StartsWith(d, d9) /\ ReadUint32LE(d, Len(d9)) = input.buttons
    BY <1>2, <1>13, <1>15, <2>1, LongReads
  <2>. QED
    BY <1>13, <2>2
<1>17. StartsWith(d, d8) /\ ReadUint16LE(d, 26) = input.rightTrigger
  <2>1. StartsWith(d, d8 \o Word(input.rightTrigger))
    BY <1>d9, <1>15, <1>16
  <2>2. StartsWith(d, d8) /\ ReadUint16LE(d, Len(d8)) = input.rightTrigger
    BY <1>2, <1>12, <1>15, <2>1, WordReads
  <2>. QED
    BY <1>12, <2>2
<1>18. StartsWith(d, d7) /\ ReadUint16LE(d, 24) = input.leftTrigger
  <2>1. StartsWith(d, d7 \o Word(input.leftTrigger))
    BY <1>d8, <1>15, <1>17
  <2>2. StartsWith(d, d7) /\ ReadUint16LE(d, Len(d7)) = input.leftTrigger
    BY <1>2, <1>11, <1>15, <2>1, WordReads
  <2>. QED
    BY <1>11, <2>2
<1>19. StartsWith(d, d6) /\ ReadInt16LE(d, 22) = input.rightY
  <2>1. StartsWith(d, d6 \o SignedWord(input.rightY))
    BY <1>d7, <1>15, <1>18
  <2>2. StartsWith(d, d6) /\ ReadInt16LE(d, Len(d6)) = input.rightY
    BY <1>2, <1>10, <1>15, <2>1, SignedWordReads
  <2>. QED
    BY <1>10, <2>2
<1>20. StartsWith(d, d5) /\ ReadInt16LE(d, 20) = input.rightX
  <2>1. StartsWith(d, d5 \o SignedWord(input.rightX))
    BY <1>d6, <1>15, <1>19
  <2>2. StartsWith(d, d5) /\ ReadInt16LE(d, Len(d5)) = input.rightX
    BY <1>2, <1>9, <1>15, <2>1, SignedWordReads
  <2>. QED
    BY <1>9, <2>2
<1>21. StartsWith(d, d4) /\ ReadInt16LE(d, 18) = input.leftY
  <2>1. StartsWith(d, d4 \o SignedWord(input.leftY))
    BY <1>d5, <1>15, <1>20
  <2>2. StartsWith(d, d4) /\ ReadInt16LE(d, Len(d4)) = input.leftY
    BY <1>2, <1>8, <1>15, <2>1, SignedWordReads
  <2>. QED
    BY <1>8, <2>2
<1>22. StartsWith(d, d3) /\ ReadInt16LE(d, 16) = input.leftX
  <2>1. StartsWith(d, d3 \o SignedWord(input.leftX))
    BY <1>d4, <1>15, <1>21
  <2>2. StartsWith(d, d3) /\ ReadInt16LE(d, Len(d3)) = input.leftX
    BY <1>2, <1>7, <1>15, <2>1, SignedWordReads
  <2>. QED
    BY <1>7, <2>2
<1>23. StartsWith(d, d1) /\ ReadUint32LE(d, 4) = sequence
  <2>1. StartsWith(d, d2)
    BY <1>d3, <1>6, <1>15, <1>22, TimestampType, ExtensionReads
  <2>2. StartsWith(d, d1 \o Long(sequence))
    BY <1>d2, <2>1
  <2>3. StartsWith(d, d1) /\ ReadUint32LE(d, Len(d1)) = sequence
    BY <1>5, <1>15, <2>2, LongReads
  <2>. QED
    BY <1>5, <2>3
<1>24. HeaderValid(d) /\ d[4] = PACKET_TYPE_STATE
  BY <1>3, <1>15, <1>23, HeaderReads DEF d1
<1>25. IsState(d)
  BY <1>15, <1>24 DEF IsState, CONTROLLER_PACKET_SIZE
<1>26. DecodedState(d) = [sequence |-> sequence, input |-> input]
  BY <1>4, <1>15, <1>16, <1>17, <1>18, <1>19, <1>20, <1>21, <1>22,
     <1>23 DEF DecodedState
<1>. QED
  BY <1>1, <1>15, <1>25, <1>26

\* Whatever bytes a controller packet holds, the decoded fields keep the
\* types of ControllerState (decode, ControllerState.h).
THEOREM DecodedStateType ==
  ASSUME NEW d \in Seq(Byte), IsState(d)
  PROVE  DecodedState(d) \in [sequence : UInt32, input : DecodedInputs]
<1>1. Len(d) = 33 /\ d[33] \in Byte
  BY DEF IsState, CONTROLLER_PACKET_SIZE
<1>2. \A k \in {4, 28} : ReadUint32LE(d, k) \in UInt32
  <2>. SUFFICES ASSUME NEW k \in {4, 28} PROVE ReadUint32LE(d, k) \in UInt32
    OBVIOUS
  <2>1. k \in Nat /\ k + 4 <= Len(d)
    BY <1>1
  <2>. QED
    BY <2>1, ReadTypes
<1>3. \A k \in {24, 26} : ReadUint16LE(d, k) \in UInt16
  <2>. SUFFICES ASSUME NEW k \in {24, 26} PROVE ReadUint16LE(d, k) \in UInt16
    OBVIOUS
  <2>1. k \in Nat /\ k + 2 <= Len(d)
    BY <1>1
  <2>. QED
    BY <2>1, ReadTypes
<1>4. \A k \in {16, 18, 20, 22} : ReadInt16LE(d, k) \in Int16
  <2>. SUFFICES ASSUME NEW k \in {16, 18, 20, 22}
                PROVE  ReadInt16LE(d, k) \in Int16
    OBVIOUS
  <2>1. k \in Nat /\ k + 2 <= Len(d)
    BY <1>1
  <2>. QED
    BY <2>1, ReadTypes
<1>. QED
  BY <1>1, <1>2, <1>3, <1>4 DEF DecodedState, DecodedInputs
=============================================================================

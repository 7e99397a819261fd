-------------------------- MODULE InputPathProofs --------------------------
(***************************************************************************)
(* Theorems about InputPath, for the program's byte and every sequence     *)
(* number, control and timeout.                                            *)
(***************************************************************************)
EXTENDS InputPath, ControllerProcessorProofs, PacketDecoderProofs

-----------------------------------------------------------------------------
(* What arrives *)

LEMMA SequenceIsLong == Sequence = UInt32
BY InputPathAssumption DEF Sequence, UInt32

LEMMA DecodedIsControllerState ==
  ASSUME NEW d \in Seq(Byte), IsState(d)
  PROVE  DecodedState(d) \in ControllerState
BY DecodedStateType, SequenceIsLong, InputPathAssumption DEF ControllerState

LEMMA ControlsArrive ==
  ASSUME NEW s \in SentSequences, NEW c \in Controls
  PROVE  /\ StatePacket(s, PhoneInput(c)) \in Seq(Byte)
         /\ IsState(StatePacket(s, PhoneInput(c)))
         /\ DecodedState(StatePacket(s, PhoneInput(c)))
              = [sequence |-> s, input |-> PhoneInput(c)]
<1>1. s \in UInt32 /\ PhoneInput(c) \in DecodedInputs
  BY InputPathAssumption
<1>. QED
  BY <1>1, StateRoundTrip

\* The magic number has one spelling in bytes.
LEMMA MagicBytes ==
  ASSUME NEW a \in Byte, NEW b \in Byte, a + ByteModulus * b = PROTOCOL_MAGIC
  PROVE  <<a, b>> = Word(PROTOCOL_MAGIC)
<1>1. CASE ByteModulus = 16
  <2>1. a \in 0 .. 15 /\ b \in 0 .. 15 /\ a + 16 * b = 80
    BY <1>1 DEF Byte, PROTOCOL_MAGIC, WordModulus
  <2>2. a = 0 /\ b = 5
    BY <2>1
  <2>3. Word(PROTOCOL_MAGIC) = <<0, 5>>
    BY <1>1 DEF Word, PROTOCOL_MAGIC, WordModulus
  <2>. QED
    BY <2>2, <2>3
<1>2. CASE ByteModulus = 256
  <2>1. a \in 0 .. 255 /\ b \in 0 .. 255 /\ a + 256 * b = 18256
    BY <1>2 DEF Byte, PROTOCOL_MAGIC, WordModulus
  <2>2. a = 80 /\ b = 71
    BY <2>1
  <2>3. Word(PROTOCOL_MAGIC) = <<80, 71>>
    BY <1>2 DEF Word, PROTOCOL_MAGIC, WordModulus
  <2>. QED
    BY <2>2, <2>3
<1>. QED
  BY <1>1, <1>2, ByteAssumption

\* What passes the decoder's checks of the header begins with the header's
\* bytes.
LEMMA CheckedHeader ==
  ASSUME NEW d \in Seq(Byte), 4 <= Len(d), HeaderValid(d)
  PROVE  <<d[1], d[2], d[3], d[4]>> = Header(d[4])
<1>1. d[1] \in Byte /\ d[2] \in Byte
  BY SMT
<1>2. d[1] + ByteModulus * d[2] = PROTOCOL_MAGIC /\ d[3] = PROTOCOL_VERSION
  BY DEF HeaderValid, ReadUint16LE
<1>3. <<d[1], d[2]>> = Word(PROTOCOL_MAGIC)
  BY <1>1, <1>2, MagicBytes
<1>4. Header(d[4]) = <<d[1], d[2]>> \o <<PROTOCOL_VERSION, d[4]>>
  BY <1>3 DEF Header
<1>. QED
  BY <1>2, <1>4

\* A datagram whose bytes are those of no message passes none of the decoder's
\* three ways out to a message.
LEMMA ForeignIsNoMessage ==
  ASSUME NEW d \in Foreign
  PROVE  /\ ~ IsState(d)
         /\ ~ IsHandshake(d, PACKET_TYPE_HELLO)
         /\ ~ IsHandshake(d, PACKET_TYPE_HEARTBEAT)
<1>1. d \in Seq(Byte) /\ IsForeign(d)
  BY InputPathAssumption
<1>2. ASSUME 4 <= Len(d), HeaderValid(d)
      PROVE  <<d[1], d[2], d[3], d[4]>> = Header(d[4])
  BY <1>1, <1>2, CheckedHeader
<1>3. ~ IsState(d)
  BY <1>1, <1>2 DEF IsState, IsForeign, CONTROLLER_PACKET_SIZE
<1>4. /\ ~ IsHandshake(d, PACKET_TYPE_HELLO)
      /\ ~ IsHandshake(d, PACKET_TYPE_HEARTBEAT)
  BY <1>1, <1>2 DEF IsHandshake, IsForeign, HANDSHAKE_PACKET_SIZE
<1>. QED
  BY <1>3, <1>4

\* A handshake is taken for what it is, and for no state.
LEMMA HandshakesArrive ==
  ASSUME NEW s \in UInt32, NEW type \in 1 .. 4
  PROVE  /\ IsHandshake(Handshake(type, s), type)
         /\ HandshakeSequence(Handshake(type, s)) = s
         /\ ~ IsState(Handshake(type, s))
         /\ \A other : IsHandshake(Handshake(type, s), other) => other = type
<1>1. type \in Byte
  BY ByteAssumption DEF Byte
<1>2. IsHandshake(Handshake(type, s), type)
      /\ HandshakeSequence(Handshake(type, s)) = s
  BY <1>1, HandshakeRoundTrip
<1>3. ~ IsState(Handshake(type, s))
  BY <1>2 DEF IsHandshake, IsState, CONTROLLER_PACKET_SIZE, HANDSHAKE_PACKET_SIZE
<1>4. \A other : IsHandshake(Handshake(type, s), other) => other = type
  BY <1>2 DEF IsHandshake
<1>. QED
  BY <1>2, <1>3, <1>4

-----------------------------------------------------------------------------
(* The loop uses the processor as its specification says *)

LEMMA DispatchUsesProcessor ==
  ASSUME NEW d \in Seq(Byte), Dispatch(d)
  PROVE  \/ \E p \in ControllerState : ProcessPacket(p)
         \/ UNCHANGED processorVars
<1>1. CASE TakeState(d)
  BY <1>1, DecodedIsControllerState DEF TakeState
<1>2. CASE UNCHANGED processorVars
  BY <1>2
<1>. QED
  BY <1>1, <1>2 DEF Dispatch

\* Every step of the loop is a step of the processor, leaves it alone, or
\* counts an update, which the gamepad's side of the loop adds.
CountsUpdate ==
  /\ stats' = OnControllerUpdated(stats)
  /\ UNCHANGED <<hasReceivedFirstPacket, lastSequence, isFailsafeActive,
                 latestState, elapsed>>

LEMMA NextUsesProcessor ==
  ASSUME [Next]_vars
  PROVE  [ProcessorNext]_processorVars \/ CountsUpdate
<1>. DEFINE Takes == (\E p \in ControllerState : ProcessPacket(p))
                       \/ UNCHANGED processorVars
<1>1. CASE WatchdogFires
  BY <1>1 DEF WatchdogFires, ProcessorNext
<1>2. CASE WatchdogSilent \/ NothingReceived \/ UNCHANGED vars
  BY <1>2 DEF WatchdogSilent, NothingReceived, vars
<1>3. ASSUME NEW s \in SentSequences, NEW c \in Controls, ReceiveControls(s, c)
      PROVE  Takes
  BY <1>3, ControlsArrive, DispatchUsesProcessor DEF ReceiveControls
<1>4. ASSUME NEW kind \in {"hello", "heartbeat"}, NEW s \in SentSequences,
             ReceiveHandshake(kind, s)
      PROVE  Takes
  <2>. DEFINE type == IF kind = "hello" THEN PACKET_TYPE_HELLO
                                        ELSE PACKET_TYPE_HEARTBEAT
  <2>1. type \in Byte /\ s \in UInt32
    BY ByteAssumption, InputPathAssumption
    DEF PACKET_TYPE_HELLO, PACKET_TYPE_HEARTBEAT, Byte
  <2>2. Dispatch(Handshake(type, s))
    BY <1>4 DEF ReceiveHandshake
  <2>. HIDE DEF type
  <2>3. Handshake(type, s) \in Seq(Byte)
    BY <2>1, HandshakeRoundTrip
  <2>. QED
    BY <2>2, <2>3, DispatchUsesProcessor
<1>5. ASSUME NEW d \in Foreign, ReceiveForeign(d)
      PROVE  Takes
  BY <1>5, DispatchUsesProcessor, InputPathAssumption DEF ReceiveForeign
<1>6. CASE UpdateController
  BY <1>6 DEF UpdateController, CountsUpdate
<1>7. CASE Clock
  BY <1>7 DEF Clock, ProcessorNext
<1>8. Takes => [ProcessorNext]_processorVars
  BY DEF ProcessorNext
<1>. QED
  BY <1>1, <1>2, <1>3, <1>4, <1>5, <1>6, <1>7, <1>8 DEF Next

\* The processor inside the loop keeps its types, whatever datagrams arrive.
THEOREM PathTypeCorrect == Spec => []ProcessorTypeOK
<1>1. Init => ProcessorTypeOK
  BY ProcessorInitType DEF Init
<1>2. ProcessorTypeOK /\ [Next]_vars => ProcessorTypeOK'
  <2>. SUFFICES ASSUME ProcessorTypeOK, [Next]_vars PROVE ProcessorTypeOK'
    OBVIOUS
  <2>1. CASE CountsUpdate
    BY <2>1, StatisticsStepType, StateAssumption
    DEF CountsUpdate, ProcessorTypeOK
  <2>. QED
    BY <2>1, NextUsesProcessor, ProcessorStepType
<1>. QED
  BY <1>1, <1>2, PTL DEF Spec

\* Whatever arrives, the watchdog's flag goes with a neutral state.
THEOREM PathFailsafeIsNeutral == Spec => []FailsafeMeansNeutral
<1>1. Init => FailsafeMeansNeutral
  BY DEF Init, ProcessorInit, FailsafeMeansNeutral
<1>2. ProcessorTypeOK /\ FailsafeMeansNeutral /\ [Next]_vars
        => FailsafeMeansNeutral'
  <2>. SUFFICES ASSUME ProcessorTypeOK, FailsafeMeansNeutral, [Next]_vars
                PROVE  FailsafeMeansNeutral'
    OBVIOUS
  <2>1. CASE CountsUpdate
    BY <2>1 DEF CountsUpdate, FailsafeMeansNeutral
  <2>. QED
    BY <2>1, NextUsesProcessor, FailsafeStep
<1>. QED
  BY <1>1, <1>2, PathTypeCorrect, PTL DEF Spec

\* Whatever arrives, the three copies of the sequence number agree.
THEOREM PathSequenceCopiesAgree == Spec => []SequenceCopiesAgree
<1>1. Init => SequenceCopiesAgree
  BY DEF Init, ProcessorInit, SequenceCopiesAgree
<1>2. ProcessorTypeOK /\ SequenceCopiesAgree /\ [Next]_vars
        => SequenceCopiesAgree'
  <2>. SUFFICES ASSUME ProcessorTypeOK, SequenceCopiesAgree, [Next]_vars
                PROVE  SequenceCopiesAgree'
    OBVIOUS
  <2>1. CASE CountsUpdate
    BY <2>1 DEF CountsUpdate, SequenceCopiesAgree, OnControllerUpdated,
                ProcessorTypeOK, StatisticsType
  <2>. QED
    BY <2>1, NextUsesProcessor, SequenceCopiesStep
<1>. QED
  BY <1>1, <1>2, PathTypeCorrect, PTL DEF Spec

\* Whatever arrives, only a newer packet ends the failsafe.
THEOREM PathStaleNeverRevives == Spec => StalePacketNeverRevives
<1>. DEFINE Step == (hasReceivedFirstPacket /\ isFailsafeActive /\ ~ isFailsafeActive')
                      => SeqDiff(lastSequence', lastSequence) \in 1 .. HalfModulus - 1
<1>1. ProcessorTypeOK /\ [Next]_vars => [Step]_processorVars
  <2>. SUFFICES ASSUME ProcessorTypeOK, [Next]_vars, ~ UNCHANGED processorVars,
                       hasReceivedFirstPacket, isFailsafeActive, ~ isFailsafeActive'
                PROVE  SeqDiff(lastSequence', lastSequence) \in 1 .. HalfModulus - 1
    OBVIOUS
  <2>1. ~ CountsUpdate
    BY DEF CountsUpdate
  <2>. QED
    BY <2>1, NextUsesProcessor, FailsafeEndsWithNewer
<1>. QED
  BY <1>1, PathTypeCorrect, PTL DEF Spec, StalePacketNeverRevives

-----------------------------------------------------------------------------
(* From the player's hands to the report *)

LEMMA Cancel ==
  ASSUME NEW k \in Nat \ {0}, NEW x \in Int, NEW y \in Int
  PROVE  /\ x * k <= y * k => x <= y
         /\ x * k < y * k => x < y
<1>1. x > y => x * k > y * k
  BY SMTT(20)
<1>2. x >= y => x * k >= y * k
  BY SMTT(20)
<1>. QED
  BY <1>1, <1>2, SMT

LEMMA Quotient ==
  ASSUME NEW x \in Nat, NEW n \in Nat \ {0}
  PROVE  /\ x \div n \in Nat
         /\ (x \div n) * n <= x
         /\ x < (x \div n + 1) * n
BY SMTT(20)

\* The scaled trigger is the step of ByteModulus + 1 that the pull is in.
LEMMA TriggerStep ==
  ASSUME NEW t \in UInt16
  PROVE  /\ Trigger(t) \in Byte
         /\ Trigger(t) * (ByteModulus + 1) <= t
         /\ t < (Trigger(t) + 1) * (ByteModulus + 1)
<1>. DEFINE k == ByteModulus - 1
            n == ByteModulus + 1
            q == (t * k) \div (k * n)
<1>1. k \in Nat \ {0} /\ n \in Nat \ {0} /\ k * n \in Nat \ {0}
  BY ByteAssumption, SMT
<1>2. WordModulus - 1 = k * n
  BY ByteModulusType, SMT DEF WordModulus
<1>3. Trigger(t) = q
  BY <1>2 DEF Trigger
<1>4. t \in Nat /\ t <= k * n /\ t * k \in Nat
  <2>1. t \in Nat /\ t <= k * n
    BY <1>1, <1>2, WordModulusType DEF UInt16
  <2>. HIDE DEF k, n
  <2>2. t * k \in Nat
    BY <1>1, <2>1, SMT
  <2>. QED
    BY <2>1, <2>2
<1>5. q \in Nat /\ q * (k * n) <= t * k /\ t * k < (q + 1) * (k * n)
  <2>. DEFINE x == t * k
              m == k * n
  <2>1. x \in Nat /\ m \in Nat \ {0}
    BY <1>1, <1>4
  <2>. HIDE DEF x, m
  <2>2. x \div m \in Nat /\ (x \div m) * m <= x /\ x < (x \div m + 1) * m
    BY <2>1, Quotient
  <2>. QED
    BY <2>2 DEF x, m
<1>. HIDE DEF q, k, n
<1>6. q * (k * n) = (q * n) * k /\ (q + 1) * (k * n) = ((q + 1) * n) * k
      /\ q * n \in Int /\ (q + 1) * n \in Int
  BY <1>1, <1>5, SMT
<1>7. q * n <= t /\ t < (q + 1) * n
  BY <1>1, <1>4, <1>5, <1>6, Cancel
<1>8. q <= k
  <2>1. q * n <= k * n
    BY <1>1, <1>4, <1>5, <1>6, <1>7, SMT
  <2>. QED
    BY <1>1, <1>5, <2>1, Cancel
<1>9. q \in Byte
  BY <1>1, <1>5, <1>8, ByteModulusType DEF Byte, k
<1>. QED
  BY <1>3, <1>7, <1>9 DEF n

-----------------------------------------------------------------------------
(* Buttons and directions, from one set of masks to the other              *)

\* One binary digit of a number, between those below and those above it.
LEMMA Digit ==
  ASSUME NEW m \in {1, 2, 4, 8, 16, 32, 64, 128, 256, 512},
         NEW low \in Nat, low < m, NEW x \in {0, 1}, NEW high \in Nat
  PROVE  ((low + m * x + 2 * m * high) \div m) % 2 = x
<1>1. CASE x = 0
  BY <1>1, SMTT(20)
<1>2. CASE x = 1
  BY <1>2, SMTT(20)
<1>. QED
  BY <1>1, <1>2

\* Every bit of the ten is found again, whatever the bits above them are.
LEMMA ButtonDigits ==
  ASSUME NEW a \in {0, 1}, NEW b \in {0, 1}, NEW x \in {0, 1}, NEW y \in {0, 1},
         NEW l1 \in {0, 1}, NEW r1 \in {0, 1}, NEW l3 \in {0, 1},
         NEW r3 \in {0, 1}, NEW st \in {0, 1}, NEW se \in {0, 1},
         NEW n \in Nat, NEW w,
         w = a + 2 * b + 4 * x + 8 * y + 16 * l1 + 32 * r1 + 64 * l3
               + 128 * r3 + 256 * st + 512 * se + 1024 * n
  PROVE  /\ HasBit(w, 1) <=> a = 1
         /\ HasBit(w, 2) <=> b = 1
         /\ HasBit(w, 4) <=> x = 1
         /\ HasBit(w, 8) <=> y = 1
         /\ HasBit(w, 16) <=> l1 = 1
         /\ HasBit(w, 32) <=> r1 = 1
         /\ HasBit(w, 64) <=> l3 = 1
         /\ HasBit(w, 128) <=> r3 = 1
         /\ HasBit(w, 256) <=> st = 1
         /\ HasBit(w, 512) <=> se = 1
<1>1. (w \div 1) % 2 = a
  <2>. DEFINE low == 0
              high == b + 2 * x + 4 * y + 8 * l1 + 16 * r1 + 32 * l3 + 64 * r3
                        + 128 * st + 256 * se + 512 * n
  <2>1. low \in Nat /\ low < 1 /\ high \in Nat
    BY SMT
  <2>2. w = low + 1 * a + 2 * 1 * high
    BY SMT
  <2>. HIDE DEF low, high
  <2>. QED
    BY <2>1, <2>2, Digit
<1>2. (w \div 2) % 2 = b
  <2>. DEFINE low == a
              high == x + 2 * y + 4 * l1 + 8 * r1 + 16 * l3 + 32 * r3 + 64 * st
                        + 128 * se + 256 * n
  <2>1. low \in Nat /\ low < 2 /\ high \in Nat
    BY SMT
  <2>2. w = low + 2 * b + 2 * 2 * high
    BY SMT
  <2>. HIDE DEF low, high
  <2>. QED
    BY <2>1, <2>2, Digit
<1>3. (w \div 4) % 2 = x
  <2>. DEFINE low == a + 2 * b
              high == y + 2 * l1 + 4 * r1 + 8 * l3 + 16 * r3 + 32 * st + 64 * se
                        + 128 * n
  <2>1. low \in Nat /\ low < 4 /\ high \in Nat
    BY SMT
  <2>2. w = low + 4 * x + 2 * 4 * high
    BY SMT
  <2>. HIDE DEF low, high
  <2>. QED
    BY <2>1, <2>2, Digit
<1>4. (w \div 8) % 2 = y
  <2>. DEFINE low == a + 2 * b + 4 * x
              high == l1 + 2 * r1 + 4 * l3 + 8 * r3 + 16 * st + 32 * se + 64 * n
  <2>1. low \in Nat /\ low < 8 /\ high \in Nat
    BY SMT
  <2>2. w = low + 8 * y + 2 * 8 * high
    BY SMT
  <2>. HIDE DEF low, high
  <2>. QED
    BY <2>1, <2>2, Digit
<1>5. (w \div 16) % 2 = l1
  <2>. DEFINE low == a + 2 * b + 4 * x + 8 * y
              high == r1 + 2 * l3 + 4 * r3 + 8 * st + 16 * se + 32 * n
  <2>1. low \in Nat /\ low < 16 /\ high \in Nat
    BY SMT
  <2>2. w = low + 16 * l1 + 2 * 16 * high
    BY SMT
  <2>. HIDE DEF low, high
  <2>. QED
    BY <2>1, <2>2, Digit
<1>6. (w \div 32) % 2 = r1
  <2>. DEFINE low == a + 2 * b + 4 * x + 8 * y + 16 * l1
              high == l3 + 2 * r3 + 4 * st + 8 * se + 16 * n
  <2>1. low \in Nat /\ low < 32 /\ high \in Nat
    BY SMT
  <2>2. w = low + 32 * r1 + 2 * 32 * high
    BY SMT
  <2>. HIDE DEF low, high
  <2>. QED
    BY <2>1, <2>2, Digit
<1>7. (w \div 64) % 2 = l3
  <2>. DEFINE low == a + 2 * b + 4 * x + 8 * y + 16 * l1 + 32 * r1
              high == r3 + 2 * st + 4 * se + 8 * n
  <2>1. low \in Nat /\ low < 64 /\ high \in Nat
    BY SMT
  <2>2. w = low + 64 * l3 + 2 * 64 * high
    BY SMT
  <2>. HIDE DEF low, high
  <2>. QED
    BY <2>1, <2>2, Digit
<1>8. (w \div 128) % 2 = r3
  <2>. DEFINE low == a + 2 * b + 4 * x + 8 * y + 16 * l1 + 32 * r1 + 64 * l3
              high == st + 2 * se + 4 * n
  <2>1. low \in Nat /\ low < 128 /\ high \in Nat
    BY SMT
  <2>2. w = low + 128 * r3 + 2 * 128 * high
    BY SMT
  <2>. HIDE DEF low, high
  <2>. QED
    BY <2>1, <2>2, Digit
<1>9. (w \div 256) % 2 = st
  <2>. DEFINE low == a + 2 * b + 4 * x + 8 * y + 16 * l1 + 32 * r1 + 64 * l3
                     + 128 * r3
              high == se + 2 * n
  <2>1. low \in Nat /\ low < 256 /\ high \in Nat
    BY SMT
  <2>2. w = low + 256 * st + 2 * 256 * high
    BY SMT
  <2>. HIDE DEF low, high
  <2>. QED
    BY <2>1, <2>2, Digit
<1>10. (w \div 512) % 2 = se
  <2>. DEFINE low == a + 2 * b + 4 * x + 8 * y + 16 * l1 + 32 * r1 + 64 * l3
                     + 128 * r3 + 256 * st
              high == n
  <2>1. low \in Nat /\ low < 512 /\ high \in Nat
    BY SMT
  <2>2. w = low + 512 * se + 2 * 512 * high
    BY SMT
  <2>. HIDE DEF low, high
  <2>. QED
    BY <2>1, <2>2, Digit
<1>. QED
  BY <1>1, <1>2, <1>3, <1>4, <1>5, <1>6, <1>7, <1>8, <1>9, <1>10 DEF HasBit

\* What the phone packs for the held buttons is what the program finds pressed.
LEMMA ButtonsArrive ==
  ASSUME NEW c \in Controls
  PROVE  /\ Pressed(PhoneInput(c)) = c.held \cap DOMAIN ButtonMask
         /\ DpadHeld(PhoneInput(c)) = c.held \cap DOMAIN DpadMask
<1>. DEFINE H(n) == IF n \in c.held THEN 1 ELSE 0
            w == PhoneInput(c).buttons
            v == PhoneInput(c).dpad
            rest == c.otherButtons \div 1024
<1>1. rest \in Nat /\ c.otherButtons = 1024 * rest
  <2>1. c.otherButtons \in Nat /\ c.otherButtons % 1024 = 0
    BY InputPathAssumption
  <2>. QED
    BY <2>1, SMT
<1>2. w = H("A") + 2 * H("B") + 4 * H("X") + 8 * H("Y") + 16 * H("L1")
            + 32 * H("R1") + 64 * H("L3") + 128 * H("R3") + 256 * H("START")
            + 512 * H("SELECT") + 1024 * rest
  BY <1>1 DEF PhoneInput, ButtonMask
<1>3. v = H("UP") + 2 * H("DOWN") + 4 * H("LEFT") + 8 * H("RIGHT")
            + 16 * 0 + 32 * 0 + 64 * 0 + 128 * 0 + 256 * 0 + 512 * 0 + 1024 * 0
  BY DEF PhoneInput, DpadMask
<1>4. \A n : H(n) \in {0, 1} /\ (H(n) = 1 <=> n \in c.held)
  OBVIOUS
<1>. HIDE DEF H, w, v, rest
<1>5. /\ HasBit(w, 1) <=> "A" \in c.held
      /\ HasBit(w, 2) <=> "B" \in c.held
      /\ HasBit(w, 4) <=> "X" \in c.held
      /\ HasBit(w, 8) <=> "Y" \in c.held
      /\ HasBit(w, 16) <=> "L1" \in c.held
      /\ HasBit(w, 32) <=> "R1" \in c.held
      /\ HasBit(w, 64) <=> "L3" \in c.held
      /\ HasBit(w, 128) <=> "R3" \in c.held
      /\ HasBit(w, 256) <=> "START" \in c.held
      /\ HasBit(w, 512) <=> "SELECT" \in c.held
  BY <1>1, <1>2, <1>4, ButtonDigits
<1>6. /\ HasBit(v, 1) <=> "UP" \in c.held
      /\ HasBit(v, 2) <=> "DOWN" \in c.held
      /\ HasBit(v, 4) <=> "LEFT" \in c.held
      /\ HasBit(v, 8) <=> "RIGHT" \in c.held
  BY <1>3, <1>4, ButtonDigits
<1>7. Pressed(PhoneInput(c)) = c.held \cap DOMAIN ButtonMask
  BY <1>5 DEF Pressed, ButtonMask, w
<1>8. DpadHeld(PhoneInput(c)) = c.held \cap DOMAIN DpadMask
  BY <1>6 DEF DpadHeld, DpadMask, v
<1>. QED
  BY <1>7, <1>8

\* The report shows every name the player holds by its own mask, and no other.
LEMMA ReportOfControls ==
  ASSUME NEW c \in Controls
  PROVE  LET r == MapToXInput(PhoneInput(c))
         IN  /\ r.wButtons = {XInputMask[n] : n \in c.held}
             /\ r.sThumbLX = c.leftX /\ r.sThumbLY = c.leftY
             /\ r.sThumbRX = c.rightX /\ r.sThumbRY = c.rightY
<1>1. c.held \subseteq DOMAIN XInputMask
  BY InputPathAssumption
<1>2. DOMAIN XInputMask = DOMAIN ButtonMask \cup DOMAIN DpadMask
  BY DEF XInputMask, ButtonMask, DpadMask
<1>3. Pressed(PhoneInput(c)) \cup DpadHeld(PhoneInput(c)) = c.held
  BY <1>1, <1>2, ButtonsArrive
<1>4. MapToXInput(PhoneInput(c)).wButtons = {XInputMask[n] : n \in c.held}
  BY <1>3 DEF MapToXInput
<1>5. /\ PhoneInput(c).leftX = c.leftX /\ PhoneInput(c).leftY = c.leftY
      /\ PhoneInput(c).rightX = c.rightX /\ PhoneInput(c).rightY = c.rightY
  BY DEF PhoneInput
<1>. QED
  BY <1>4, <1>5 DEF MapToXInput

-----------------------------------------------------------------------------
(* What is on show                                                         *)

\* What the player meant is what was accepted, and on show except between
\* acceptance and update.
ReportInv ==
  /\ meant \in Controls
  /\ latestState.input = PhoneInput(meant)
  /\ ReportIsDue => report = MapToXInput(PhoneInput(meant))

LEMMA ReportInvInit == Init => ReportInv
BY InputPathAssumption DEF Init, ProcessorInit, ReportInv

LEMMA ReportInvStep ==
  ASSUME ProcessorTypeOK, ReportInv, [Next]_vars
  PROVE  ReportInv'
<1>1. CASE WatchdogFires
  <2>1. latestState'.input = Neutral
    BY <1>1 DEF WatchdogFires, CheckFailsafe, ReleaseInput, Neutralised,
                ProcessorTypeOK, ControllerState
  <2>. QED
    BY <1>1, <2>1, InputPathAssumption DEF WatchdogFires, ReportInv
<1>2. CASE WatchdogSilent
  BY <1>2 DEF WatchdogSilent, PhaseGoto, ReportInv, ReportIsDue, processorVars
<1>3. CASE NothingReceived
  BY <1>3 DEF NothingReceived, PhaseGoto, ReportInv, ReportIsDue, processorVars
<1>4. ASSUME NEW s \in SentSequences, NEW c \in Controls, ReceiveControls(s, c)
      PROVE  ReportInv'
  <2>. DEFINE d == StatePacket(s, PhoneInput(c))
              p == [sequence |-> s, input |-> PhoneInput(c)]
  <2>1. IsState(d) /\ DecodedState(d) = p
    BY ControlsArrive
  <2>2. ~ IsHandshake(d, PACKET_TYPE_HELLO) /\ ~ IsHandshake(d, PACKET_TYPE_HEARTBEAT)
    BY <2>1 DEF IsState, IsHandshake, CONTROLLER_PACKET_SIZE, HANDSHAKE_PACKET_SIZE
  <2>3. Dispatch(d)
    BY <1>4 DEF ReceiveControls
  <2>. HIDE DEF d
  <2>4. TakeState(d)
    BY <2>1, <2>2, <2>3 DEF Dispatch, AnswerHello, AnswerHeartbeat, Ignore
  <2>5. /\ phase = "dispatch"
        /\ phase' = IF Accepts(p) THEN "update" ELSE "watchdog"
        /\ ProcessPacket(p) /\ UNCHANGED report
    BY <2>1, <2>4 DEF TakeState, PhaseGoto
  <2>6. Accepts(p) <=> Accepts([sequence |-> s])
    BY DEF Accepts, IsNewer
  <2>7. CASE Accepts(p)
    BY <1>4, <2>5, <2>6, <2>7
    DEF ReceiveControls, ReportInv, ReportIsDue, ProcessPacket, AcceptFirst,
        AcceptNewer, DropStale, Store, Accepts
  <2>8. CASE ~ Accepts(p)
    BY <1>4, <2>5, <2>6, <2>8
    DEF ReceiveControls, ReportInv, ReportIsDue, ProcessPacket, AcceptFirst,
        AcceptNewer, DropStale, Accepts
  <2>. QED
    BY <2>7, <2>8
<1>5. ASSUME NEW d, ~ IsState(d), Dispatch(d), UNCHANGED meant
      PROVE  ReportInv'
  BY <1>5 DEF Dispatch, TakeState, PhaseGoto, ReportInv, ReportIsDue, processorVars
<1>6. ASSUME NEW kind \in {"hello", "heartbeat"}, NEW s \in SentSequences,
             ReceiveHandshake(kind, s)
      PROVE  ReportInv'
  <2>. DEFINE type == IF kind = "hello" THEN PACKET_TYPE_HELLO
                                        ELSE PACKET_TYPE_HEARTBEAT
  <2>1. type \in 1 .. 4 /\ s \in UInt32
    BY InputPathAssumption DEF PACKET_TYPE_HELLO, PACKET_TYPE_HEARTBEAT
  <2>2. Dispatch(Handshake(type, s)) /\ UNCHANGED meant
    BY <1>6 DEF ReceiveHandshake
  <2>. HIDE DEF type
  <2>3. ~ IsState(Handshake(type, s))
    BY <2>1, HandshakesArrive
  <2>. QED
    BY <1>5, <2>2, <2>3
<1>7. ASSUME NEW d \in Foreign, ReceiveForeign(d)
      PROVE  ReportInv'
  BY <1>5, <1>7, ForeignIsNoMessage DEF ReceiveForeign
<1>8. CASE UpdateController
  BY <1>8 DEF UpdateController, PhaseGoto, ReportInv, ReportIsDue
<1>9. CASE Clock \/ UNCHANGED vars
  BY <1>9 DEF Clock, Tick, vars, processorVars, ReportInv, ReportIsDue
<1>. QED
  BY <1>1, <1>2, <1>3, <1>4, <1>6, <1>7, <1>8, <1>9 DEF Next

LEMMA ReportInvHolds ==
  Spec => []ReportInv
<1>1. ProcessorTypeOK /\ ReportInv /\ [Next]_vars => ReportInv'
  BY ReportInvStep
<1>. QED
  BY <1>1, ReportInvInit, PathTypeCorrect, PTL DEF Spec

\* For every combination of held buttons and directions and every position of
\* the sticks: the game sees these, under XInput's masks, and nothing else.
THEOREM ReportIsWhatIsHeld ==
  Spec => []ReportShowsControls
<1>1. ReportInv => ReportShowsControls
  BY ReportOfControls DEF ReportInv, ReportShowsControls
<1>. QED
  BY <1>1, ReportInvHolds, PTL

\* On the whole way from the player's finger to the report, through packet,
\* decoder, processor and mapper, a trigger keeps its travel, for every pull
\* of all 2^16 and whatever else is held.
THEOREM TriggersKeepTravel ==
  Spec => []TriggersKeepTheirTravel
<1>1. ReportInv => TriggersKeepTheirTravel
  <2>. SUFFICES ASSUME ReportInv, ReportIsDue
                PROVE  /\ report.bLeftTrigger \in Byte
                       /\ report.bLeftTrigger * (ByteModulus + 1) <= meant.leftTrigger
                       /\ meant.leftTrigger < (report.bLeftTrigger + 1) * (ByteModulus + 1)
                       /\ report.bRightTrigger \in Byte
                       /\ report.bRightTrigger * (ByteModulus + 1) <= meant.rightTrigger
                       /\ meant.rightTrigger < (report.bRightTrigger + 1) * (ByteModulus + 1)
    BY DEF TriggersKeepTheirTravel
  <2>1. /\ report.bLeftTrigger = Trigger(meant.leftTrigger)
        /\ report.bRightTrigger = Trigger(meant.rightTrigger)
    <3>1. /\ report.bLeftTrigger = Trigger(PhoneInput(meant).leftTrigger)
          /\ report.bRightTrigger = Trigger(PhoneInput(meant).rightTrigger)
      BY DEF ReportInv, MapToXInput
    <3>2. /\ PhoneInput(meant).leftTrigger = meant.leftTrigger
          /\ PhoneInput(meant).rightTrigger = meant.rightTrigger
      BY DEF PhoneInput
    <3>. QED
      BY <3>1, <3>2
  <2>2. meant.leftTrigger \in UInt16 /\ meant.rightTrigger \in UInt16
    <3>1. PhoneInput(meant) \in DecodedInputs
      BY InputPathAssumption DEF ReportInv
    <3>2. /\ PhoneInput(meant).leftTrigger = meant.leftTrigger
          /\ PhoneInput(meant).rightTrigger = meant.rightTrigger
      BY DEF PhoneInput
    <3>. QED
      BY <3>1, <3>2 DEF DecodedInputs
  <2>. QED
    BY <2>1, <2>2, TriggerStep
<1>. QED
  BY <1>1, ReportInvHolds, PTL

-----------------------------------------------------------------------------
(* Requests and responses *)

ResponseInv ==
  /\ ResponseAnswersRequest
  /\ phase = "dispatch" => response = NoResponse

LEMMA ResponseInvStep ==
  ASSUME ResponseInv, [Next]_vars
  PROVE  ResponseInv'
<1>1. CASE WatchdogFires \/ WatchdogSilent
  BY <1>1 DEF WatchdogFires, WatchdogSilent, PhaseGoto, ResponseInv,
              ResponseAnswersRequest, Nothing
<1>2. CASE NothingReceived \/ UpdateController
  BY <1>2 DEF NothingReceived, UpdateController, PhaseGoto, ResponseInv,
              ResponseAnswersRequest
<1>3. ASSUME NEW s \in SentSequences, NEW c \in Controls, ReceiveControls(s, c)
      PROVE  ResponseInv'
  <2>. DEFINE d == StatePacket(s, PhoneInput(c))
  <2>1. IsState(d)
    BY ControlsArrive
  <2>2. ~ IsHandshake(d, PACKET_TYPE_HELLO) /\ ~ IsHandshake(d, PACKET_TYPE_HEARTBEAT)
    BY <2>1 DEF IsState, IsHandshake, CONTROLLER_PACKET_SIZE, HANDSHAKE_PACKET_SIZE
  <2>3. Dispatch(d) /\ heard'.kind = "controls"
    BY <1>3 DEF ReceiveControls
  <2>. HIDE DEF d
  <2>4. phase = "dispatch" /\ phase' # "dispatch" /\ UNCHANGED response
    BY <2>1, <2>2, <2>3
    DEF Dispatch, TakeState, PhaseGoto, AnswerHello, AnswerHeartbeat, Ignore
  <2>. QED
    BY <2>3, <2>4 DEF ResponseInv, ResponseAnswersRequest
<1>4. ASSUME NEW s \in SentSequences, ReceiveHandshake("hello", s)
      PROVE  ResponseInv'
  <2>. DEFINE d == Handshake(PACKET_TYPE_HELLO, s)
  <2>1. s \in UInt32 /\ PACKET_TYPE_HELLO \in 1 .. 4 /\ PACKET_TYPE_ACK \in 1 .. 4
        /\ PACKET_TYPE_HELLO # PACKET_TYPE_HEARTBEAT
    BY InputPathAssumption
    DEF PACKET_TYPE_HELLO, PACKET_TYPE_ACK, PACKET_TYPE_HEARTBEAT
  <2>2. /\ IsHandshake(d, PACKET_TYPE_HELLO) /\ HandshakeSequence(d) = s
        /\ ~ IsState(d) /\ ~ IsHandshake(d, PACKET_TYPE_HEARTBEAT)
    BY <2>1, HandshakesArrive
  <2>3. Dispatch(d) /\ heard' = [kind |-> "hello", sequence |-> s]
    BY <1>4 DEF ReceiveHandshake
  <2>. HIDE DEF d
  <2>4. phase' = "watchdog" /\ response' = Handshake(PACKET_TYPE_ACK, s)
    BY <2>2, <2>3
    DEF Dispatch, TakeState, PhaseGoto, AnswerHello, AnswerHeartbeat, Ignore, Respond
  <2>5. /\ IsHandshake(response', PACKET_TYPE_ACK)
        /\ HandshakeSequence(response') = s
    BY <2>1, <2>4, HandshakesArrive
  <2>6. heard'.kind = "hello" /\ heard'.sequence = s
    BY <2>3
  <2>. QED
    BY <2>4, <2>5, <2>6 DEF ResponseInv, ResponseAnswersRequest
<1>5. ASSUME NEW s \in SentSequences, ReceiveHandshake("heartbeat", s)
      PROVE  ResponseInv'
  <2>. DEFINE d == Handshake(PACKET_TYPE_HEARTBEAT, s)
  <2>1. s \in UInt32 /\ PACKET_TYPE_HEARTBEAT \in 1 .. 4
        /\ PACKET_TYPE_HELLO # PACKET_TYPE_HEARTBEAT
    BY InputPathAssumption DEF PACKET_TYPE_HELLO, PACKET_TYPE_HEARTBEAT
  <2>2. /\ IsHandshake(d, PACKET_TYPE_HEARTBEAT) /\ HandshakeSequence(d) = s
        /\ ~ IsState(d) /\ ~ IsHandshake(d, PACKET_TYPE_HELLO)
    BY <2>1, HandshakesArrive
  <2>3. Dispatch(d) /\ heard' = [kind |-> "heartbeat", sequence |-> s]
    BY <1>5 DEF ReceiveHandshake
  <2>. HIDE DEF d
  <2>4. phase' = "watchdog" /\ response' = Handshake(PACKET_TYPE_HEARTBEAT, s)
    BY <2>2, <2>3
    DEF Dispatch, TakeState, PhaseGoto, AnswerHello, AnswerHeartbeat, Ignore, Respond
  <2>5. /\ IsHandshake(response', PACKET_TYPE_HEARTBEAT)
        /\ HandshakeSequence(response') = s
    BY <2>1, <2>4, HandshakesArrive
  <2>6. heard'.kind = "heartbeat" /\ heard'.sequence = s
    BY <2>3
  <2>. QED
    BY <2>4, <2>5, <2>6 DEF ResponseInv, ResponseAnswersRequest
<1>6. ASSUME NEW d \in Foreign, ReceiveForeign(d)
      PROVE  ResponseInv'
  <2>1. phase = "dispatch" /\ phase' = "watchdog" /\ UNCHANGED response
    BY <1>6, ForeignIsNoMessage
    DEF ReceiveForeign, Dispatch, TakeState, PhaseGoto, AnswerHello,
        AnswerHeartbeat, Ignore
  <2>2. heard'.kind = "foreign"
    BY <1>6 DEF ReceiveForeign
  <2>. QED
    BY <2>1, <2>2 DEF ResponseInv, ResponseAnswersRequest
<1>7. CASE Clock \/ UNCHANGED vars
  BY <1>7 DEF Clock, vars, ResponseInv, ResponseAnswersRequest
<1>. QED
  BY <1>1, <1>2, <1>3, <1>4, <1>5, <1>6, <1>7 DEF Next

\* Every request is answered with its own sequence number and nothing else
\* is answered, for every sequence number of 32 bits.
THEOREM RequestsAreAnswered ==
  Spec => []ResponseAnswersRequest
<1>1. Init => ResponseInv
  BY DEF Init, Nothing, ResponseInv, ResponseAnswersRequest
<1>2. ResponseInv /\ [Next]_vars => ResponseInv'
  BY ResponseInvStep
<1>3. ResponseInv => ResponseAnswersRequest
  BY DEF ResponseInv
<1>. QED
  BY <1>1, <1>2, <1>3, PTL DEF Spec

\* Whatever datagrams without the bytes of a message arrive among the phone's:
\* the decoder's checks keep every one of them from the processor, the report
\* and the peer.
THEOREM ForeignChangesNothing ==
  Spec => ForeignIsIgnored
<1>. DEFINE Ignored == UNCHANGED <<processorVars, report, response>>
<1>1. ASSUME NEW d \in Foreign, ReceiveForeign(d)
      PROVE  Ignored
  BY <1>1, ForeignIsNoMessage
  DEF ReceiveForeign, Dispatch, TakeState, AnswerHello, AnswerHeartbeat, Ignore
<1>2. ASSUME Next, heard' # heard, heard'.kind = "foreign"
      PROVE  Ignored
  <2>1. CASE WatchdogFires \/ WatchdogSilent
    BY <1>2, <2>1 DEF WatchdogFires, WatchdogSilent, Nothing
  <2>2. ASSUME NEW s \in SentSequences, NEW c \in Controls, ReceiveControls(s, c)
        PROVE  FALSE
    BY <1>2, <2>2 DEF ReceiveControls
  <2>3. ASSUME NEW kind \in {"hello", "heartbeat"}, NEW s \in SentSequences,
               ReceiveHandshake(kind, s)
        PROVE  FALSE
    BY <1>2, <2>3 DEF ReceiveHandshake
  <2>4. CASE NothingReceived \/ UpdateController \/ Clock
    BY <1>2, <2>4 DEF NothingReceived, UpdateController, Clock
  <2>. QED
    BY <1>1, <1>2, <2>1, <2>2, <2>3, <2>4 DEF Next
<1>. HIDE DEF Ignored
<1>3. [Next]_vars => [heard' # heard /\ heard'.kind = "foreign" => Ignored]_vars
  BY <1>2
<1>. QED
  BY <1>3, PTL DEF Spec, ForeignIsIgnored, Ignored
=============================================================================

---------------------------- MODULE PacketDecoder ----------------------------
(***************************************************************************)
(* The datagrams of the protocol and class PacketDecoder that takes them   *)
(* apart.  A datagram is the sequence of its bytes; byte k of the code is  *)
(* element k + 1 here.  A byte is a number below ByteModulus, which stands *)
(* for 2^8: the widths of all fields follow from it.  The timestamp (bytes *)
(* 8 to 15) is never read and left out of the decoded state.               *)
(***************************************************************************)
EXTENDS Integers, Sequences

CONSTANT ByteModulus

\* 256 is the program's; with 16 whole fields fit into a run.
ASSUME ByteAssumption == ByteModulus \in {16, 256}

Byte == 0 .. ByteModulus - 1
WordModulus == ByteModulus * ByteModulus           \* 2^16
LongModulus == WordModulus * WordModulus           \* 2^32
UInt16 == 0 .. WordModulus - 1
Int16 == - (WordModulus \div 2) .. WordModulus \div 2 - 1
UInt32 == 0 .. LongModulus - 1

PROTOCOL_MAGIC == 18256 % WordModulus              \* 0x4750
PROTOCOL_VERSION == 1
PACKET_TYPE_STATE == 1
PACKET_TYPE_HELLO == 2
PACKET_TYPE_ACK == 3
PACKET_TYPE_HEARTBEAT == 4
CONTROLLER_PACKET_SIZE == 33
HANDSHAKE_PACKET_SIZE == 12

-----------------------------------------------------------------------------
(* Little-endian fields, as the peers write and the program reads them *)

Word(v) == <<v % ByteModulus, v \div ByteModulus>>
SignedWord(v) == Word(v % WordModulus)
Long(v) == Word(v % WordModulus) \o Word(v \div WordModulus)

ReadUint16LE(d, k) == d[k + 1] + ByteModulus * d[k + 2]

ReadInt16LE(d, k) ==
  LET u == ReadUint16LE(d, k)
  IN IF u < WordModulus \div 2 THEN u ELSE u - WordModulus

ReadUint32LE(d, k) == ReadUint16LE(d, k) + WordModulus * ReadUint16LE(d, k + 2)

-----------------------------------------------------------------------------
(* decode() *)

HeaderValid(d) ==
  ReadUint16LE(d, 0) = PROTOCOL_MAGIC /\ d[3] = PROTOCOL_VERSION

IsState(d) ==
  /\ Len(d) = CONTROLLER_PACKET_SIZE
  /\ HeaderValid(d)
  /\ d[4] = PACKET_TYPE_STATE

\* A mutant: the version is not looked at.
IsHandshakeOfAnyVersion(d, type) ==
  /\ Len(d) = HANDSHAKE_PACKET_SIZE
  /\ ReadUint16LE(d, 0) = PROTOCOL_MAGIC
  /\ d[4] = type
IsHandshake(d, type) ==
  /\ Len(d) = HANDSHAKE_PACKET_SIZE
  /\ HeaderValid(d)
  /\ d[4] = type

\* The fields of ControllerState as decode() can set them.
DecodedInputs ==
  [ leftX : Int16, leftY : Int16, rightX : Int16, rightY : Int16,
    leftTrigger : UInt16, rightTrigger : UInt16, buttons : UInt32, dpad : Byte ]

\* ValidControllerState.
DecodedState(d) ==
  [ sequence |-> ReadUint32LE(d, 4),
    input |-> [ leftX |-> ReadInt16LE(d, 16), leftY |-> ReadInt16LE(d, 18),
                rightX |-> ReadInt16LE(d, 20), rightY |-> ReadInt16LE(d, 22),
                leftTrigger |-> ReadUint16LE(d, 24),
                rightTrigger |-> ReadUint16LE(d, 26),
                buttons |-> ReadUint32LE(d, 28),
                dpad |-> d[33] ] ]

\* ValidHandshakeHello, ValidHandshakeAck and ValidHeartbeat.
HandshakeSequence(d) == ReadUint32LE(d, 4)

-----------------------------------------------------------------------------
(* What the peers send *)

Header(type) ==
  Word(PROTOCOL_MAGIC) \o <<PROTOCOL_VERSION, type>>

\* A mutant: magic and version only.
HandshakeWithoutSequence(type, sequence) == Header(type) \o Long(0) \o Long(0)
\* sendHandshakeResponse, and the HELLO of a sender.
Handshake(type, sequence) == Header(type) \o Long(sequence) \o Long(0)

Timestamp == Long(0) \o Long(0)

StatePacket(sequence, input) ==
  Header(PACKET_TYPE_STATE) \o Long(sequence) \o Timestamp
    \o SignedWord(input.leftX) \o SignedWord(input.leftY)
    \o SignedWord(input.rightX) \o SignedWord(input.rightY)
    \o Word(input.leftTrigger) \o Word(input.rightTrigger)
    \o Long(input.buttons) \o <<input.dpad>>
=============================================================================

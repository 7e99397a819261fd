---------------------------- MODULE InputPathMC ----------------------------
(***************************************************************************)
(* InputPath with controls and sequence numbers chosen for their bytes:    *)
(* each button and direction alone and all of them, each axis at its ends  *)
(* and around zero, and triggers at the ends of an eight-bit step.         *)
(***************************************************************************)
EXTENDS InputPath

MCInputs == DecodedInputs
MCNeutral == PhoneInput(AtRest)

Buttons == DOMAIN XInputMask
LowestInt16 == - (WordModulus \div 2)
HighestInt16 == WordModulus \div 2 - 1
HighestUInt16 == WordModulus - 1

MCControls ==
  {[AtRest EXCEPT !.held = {b}] : b \in Buttons}
    \cup {[AtRest EXCEPT !.leftX = v] : v \in {LowestInt16, -1, HighestInt16}}
    \cup {[AtRest EXCEPT !.leftTrigger = t] :
            t \in {1, ByteModulus, ByteModulus + 1, HighestUInt16 - 1}}
    \cup {AtRest,
          [AtRest EXCEPT !.otherButtons = 1024 + 32768],
          [ leftX |-> 1, leftY |-> LowestInt16, rightX |-> -2,
            rightY |-> HighestInt16, leftTrigger |-> HighestUInt16,
            rightTrigger |-> 2 * ByteModulus + 2, held |-> Buttons,
            otherButtons |-> 0 ]}

\* Datagrams of other programs, of other versions of the protocol, and of
\* types that a receiver is not sent.
MCForeign ==
  LET Spoilt(d) ==
        {Tail(d), Append(d, 0), SubSeq(d, 1, 1)}
          \cup {[d EXCEPT ![k] = (@ + 1) % ByteModulus] : k \in 1 .. 3}
          \cup {[d EXCEPT ![4] = 0], [d EXCEPT ![4] = PACKET_TYPE_ACK]}
      state == StatePacket(1, PhoneInput([AtRest EXCEPT !.held = {"A"}]))
  IN UNION {Spoilt(state), Spoilt(Handshake(PACKET_TYPE_HELLO, 1)),
            Spoilt(Handshake(PACKET_TYPE_HEARTBEAT, 1)),
            {[state EXCEPT ![4] = PACKET_TYPE_HELLO],
             Handshake(PACKET_TYPE_STATE, 1)}}

MCSentSequences ==
  {0, 1, ByteModulus, HalfModulus - 1, HalfModulus, SeqModulus - 1}
=============================================================================

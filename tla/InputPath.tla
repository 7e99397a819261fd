----------------------------- MODULE InputPath -----------------------------
(***************************************************************************)
(* The way of an input from the phone to the game, byte by byte: the phone *)
(* packs its controls into a datagram, the receiver's loop decodes it, the *)
(* ControllerProcessor accepts it or not, and the gamepad maps what was    *)
(* accepted to the report that games read.  HELLO and heartbeat datagrams  *)
(* are answered, and every other datagram is ignored.                      *)
(*                                                                         *)
(* Here the receiver runs and its driver takes every report; starting,     *)
(* stopping and failing are the subject of UdpReceiver, ConnectionManager  *)
(* and ViGEmGamepad.                                                       *)
(***************************************************************************)
EXTENDS ControllerProcessor, GamepadMapper

CONSTANTS
  Controls,         \* what the phone's player may hold at a time
  SentSequences,    \* bound: the sequence numbers that are sent
  Foreign           \* datagrams of other programs and other versions

\* The controls of the pad at rest.
AtRest ==
  [ leftX |-> 0, leftY |-> 0, rightX |-> 0, rightY |-> 0,
    leftTrigger |-> 0, rightTrigger |-> 0, held |-> {}, otherButtons |-> 0 ]

\* The fields of the packet: one bit for each button the player holds, those
\* that have no name here as a number.
PhoneInput(c) ==
  LET Bit(masks, n) == IF n \in c.held THEN masks[n] ELSE 0
      Button(n) == Bit(ButtonMask, n)
      Direction(n) == Bit(DpadMask, n)
  IN [ leftX |-> c.leftX, leftY |-> c.leftY,
       rightX |-> c.rightX, rightY |-> c.rightY,
       leftTrigger |-> c.leftTrigger, rightTrigger |-> c.rightTrigger,
       buttons |-> Button("A") + Button("B") + Button("X") + Button("Y")
                     + Button("L1") + Button("R1") + Button("L3") + Button("R3")
                     + Button("START") + Button("SELECT") + c.otherButtons,
       dpad |-> Direction("UP") + Direction("DOWN")
                  + Direction("LEFT") + Direction("RIGHT") ]

\* A datagram that is no message to a receiver: by its bytes, as the protocol
\* lays out its messages, and not by what the decoder looks at.
IsForeign(d) ==
  LET Begins(type) == <<d[1], d[2], d[3], d[4]>> = Header(type)
  IN /\ Len(d) = CONTROLLER_PACKET_SIZE => ~ Begins(PACKET_TYPE_STATE)
     /\ Len(d) = HANDSHAKE_PACKET_SIZE =>
          ~ Begins(PACKET_TYPE_HELLO) /\ ~ Begins(PACKET_TYPE_HEARTBEAT)

ASSUME InputPathAssumption ==
  /\ SeqModulus = LongModulus
  /\ Inputs = DecodedInputs
  /\ Neutral = PhoneInput(AtRest)
  /\ AtRest \in Controls
  /\ \A c \in Controls :
       /\ c.held \subseteq DOMAIN XInputMask
       /\ c.otherButtons \in Nat /\ c.otherButtons % 1024 = 0
       /\ PhoneInput(c) \in DecodedInputs
  /\ \A d \in Foreign : d \in Seq(Byte) /\ IsForeign(d)
  /\ SentSequences \subseteq UInt32

VARIABLES
  phase,     \* the part of the loop that runs next
  report,    \* what the virtual controller shows
  response,  \* the datagram sent in this round of the loop
  meant,     \* history: the controls that the accepted packet was made of
  heard      \* history: the datagram of this round, as its sender meant it

vars == <<processorVars, phase, report, response, meant, heard>>

NoResponse == <<>>
Nothing == [kind |-> "nothing"]

Init ==
  /\ ProcessorInit
  /\ phase = "watchdog"
  /\ report = MapToXInput(Neutral)
  /\ response = NoResponse
  /\ meant = AtRest
  /\ heard = Nothing

PhaseGoto(here, there) == phase = here /\ phase' = there

\* recvfrom has returned; checkFailsafe and the gamepad's reset come first.
WatchdogFires ==
  /\ PhaseGoto("watchdog", "dispatch")
  /\ CheckFailsafe
  /\ report' = MapToXInput(Neutral)
  /\ meant' = AtRest
  /\ response' = NoResponse
  /\ heard' = Nothing

WatchdogSilent ==
  /\ PhaseGoto("watchdog", "dispatch")
  /\ ~ FailsafeDue
  /\ response' = NoResponse
  /\ heard' = Nothing
  /\ UNCHANGED <<processorVars, report, meant>>

\* The cases of the switch for the datagram d.
TakeState(d) ==
  LET p == DecodedState(d)
  IN /\ IsState(d)
     /\ PhaseGoto("dispatch", IF Accepts(p) THEN "update" ELSE "watchdog")
     /\ ProcessPacket(p)
     /\ UNCHANGED <<report, response>>

Respond(type, d) == response' = Handshake(type, HandshakeSequence(d))

AnswerHello(d) ==
  /\ IsHandshake(d, PACKET_TYPE_HELLO)
  /\ Respond(PACKET_TYPE_ACK, d)
AnswerHeartbeat(d) ==
  /\ IsHandshake(d, PACKET_TYPE_HEARTBEAT)
  /\ Respond(PACKET_TYPE_HEARTBEAT, d)
Ignore(d) ==
  /\ ~ IsState(d)
  /\ ~ IsHandshake(d, PACKET_TYPE_HELLO)
  /\ ~ IsHandshake(d, PACKET_TYPE_HEARTBEAT)
  /\ UNCHANGED response

Dispatch(d) ==
  \/ TakeState(d)
  \/ /\ PhaseGoto("dispatch", "watchdog")
     /\ AnswerHello(d) \/ AnswerHeartbeat(d) \/ Ignore(d)
     /\ UNCHANGED <<processorVars, report>>

\* recvfrom has received nothing.
NothingReceived ==
  /\ PhaseGoto("dispatch", "watchdog")
  /\ UNCHANGED <<processorVars, report, response, meant, heard>>

\* The state that was decoded is the one that was accepted last.
UpdateController ==
  /\ PhaseGoto("update", "watchdog")
  /\ report' = MapToXInput(latestState.input)
  /\ stats' = OnControllerUpdated(stats)
  /\ UNCHANGED <<hasReceivedFirstPacket, lastSequence, isFailsafeActive,
                 latestState, elapsed, response, meant, heard>>

-----------------------------------------------------------------------------
(* What arrives *)

ReceiveControls(s, c) ==
  /\ Dispatch(StatePacket(s, PhoneInput(c)))
  /\ meant' = IF Accepts([sequence |-> s]) THEN c ELSE meant
  /\ heard' = [kind |-> "controls", sequence |-> s]

ReceiveHandshake(kind, s) ==
  /\ Dispatch(Handshake(IF kind = "hello" THEN PACKET_TYPE_HELLO
                                          ELSE PACKET_TYPE_HEARTBEAT, s))
  /\ heard' = [kind |-> kind, sequence |-> s]
  /\ UNCHANGED meant

ReceiveForeign(d) ==
  /\ Dispatch(d)
  /\ heard' = [kind |-> "foreign"]
  /\ UNCHANGED meant

Clock == Tick /\ UNCHANGED <<phase, report, response, meant, heard>>

Next ==
  \/ WatchdogFires \/ WatchdogSilent
  \/ \E s \in SentSequences, c \in Controls : ReceiveControls(s, c)
  \/ \E kind \in {"hello", "heartbeat"}, s \in SentSequences :
       ReceiveHandshake(kind, s)
  \/ \E d \in Foreign : ReceiveForeign(d)
  \/ NothingReceived \/ UpdateController \/ Clock

Spec == Init /\ [][Next]_vars

-----------------------------------------------------------------------------
\* Between the datagram that is taken and the gamepad's update the report is
\* that of the round before.
ReportIsDue == phase # "update"

\* Games see the sticks where the player holds them and exactly the buttons
\* the player holds, by their names: through the packet's byte order, the
\* signs of the sticks, and the two sets of button masks (PacketProtocol.h and
\* GamepadMapper.cpp), whatever was lost or late, and nothing after the watchdog.
ReportShowsControls ==
  ReportIsDue =>
    /\ report.wButtons = {XInputMask[n] : n \in meant.held}
    /\ <<report.sThumbLX, report.sThumbLY>> = <<meant.leftX, meant.leftY>>
    /\ <<report.sThumbRX, report.sThumbRY>> = <<meant.rightX, meant.rightY>>

\* The 16-bit triggers keep their travel in 8 bits: the report is r exactly
\* if the trigger is pulled by between r and r + 1 of the 257 sixteen-bit
\* steps that make one eight-bit step, so that rest is 0, a full pull is 255
\* and no two pulls change places (GamepadMapper.cpp:32-33).
TriggersKeepTheirTravel ==
  LET Step == ByteModulus + 1
      Shows(r, t) == r \in Byte /\ r * Step <= t /\ t < (r + 1) * Step
  IN ReportIsDue =>
       /\ Shows(report.bLeftTrigger, meant.leftTrigger)
       /\ Shows(report.bRightTrigger, meant.rightTrigger)

\* Every HELLO is acknowledged and every heartbeat returned, with the sequence
\* number its sender gave it, in a datagram that a peer using the same decoder
\* takes for what it is; nothing else is answered (sendHandshakeResponse).
ResponseAnswersRequest ==
  LET Answers(type) == IsHandshake(response, type)
                         /\ HandshakeSequence(response) = heard.sequence
  IN CASE heard.kind = "hello" -> Answers(PACKET_TYPE_ACK)
       [] heard.kind = "heartbeat" -> Answers(PACKET_TYPE_HEARTBEAT)
       [] OTHER -> response = NoResponse

\* A datagram of another size, magic, version or type is neither an input nor
\* a sign of life: state, watchdog, report and peer do not notice it.
ForeignIsIgnored ==
  [][ heard' # heard /\ heard'.kind = "foreign"
        => UNCHANGED <<processorVars, report, response>> ]_vars
=============================================================================

---------------------------- MODULE GamepadMapper ----------------------------
(***************************************************************************)
(* The controller state as XInput knows it: GamepadMapper::mapToXInput and *)
(* the bit masks on both sides of it (PacketProtocol.h, GamepadMapper.cpp).*)
(* Every mask has one bit, and a word of XInput's flags is the set of its  *)
(* masks.                                                                  *)
(***************************************************************************)
EXTENDS PacketDecoder

\* enum ButtonMask and enum DpadMask
ButtonMask ==
  [ A |-> 1, B |-> 2, X |-> 4, Y |-> 8, L1 |-> 16, R1 |-> 32, L3 |-> 64,
    R3 |-> 128, START |-> 256, SELECT |-> 512 ]
DpadMask == [ UP |-> 1, DOWN |-> 2, LEFT |-> 4, RIGHT |-> 8 ]

\* XINPUT_BTN_..., by the names of the protocol
XInputMask ==
  [ UP |-> 1, DOWN |-> 2, LEFT |-> 4, RIGHT |-> 8, START |-> 16, SELECT |-> 32,
    L3 |-> 64, R3 |-> 128, L1 |-> 256, R1 |-> 512, A |-> 4096, B |-> 8192,
    X |-> 16384, Y |-> 32768 ]

\* (word & mask) != 0
HasBit(word, mask) == (word \div mask) % 2 = 1

\* A mutant: the shoulder buttons change places.
PressedShouldersSwapped(input) ==
  {b \in DOMAIN ButtonMask :
     HasBit(input.buttons, ButtonMask[CASE b = "L1" -> "R1" [] b = "R1" -> "L1"
                                       [] OTHER -> b])}
\* isButtonPressed and isDpad
Pressed(input) ==
  {b \in DOMAIN ButtonMask : HasBit(input.buttons, ButtonMask[b])}
DpadHeld(input) == {d \in DOMAIN DpadMask : HasBit(input.dpad, DpadMask[d])}

\* A mutant: the quotient is that of the moduli, not of the largest values.
TriggerShifted(t) == (t * ByteModulus) \div WordModulus
\* 0..65535 to 0..255
Trigger(t) == (t * (ByteModulus - 1)) \div (WordModulus - 1)

\* mapToXInput; no call of the program inverts the vertical axes.
MapToXInput(input) ==
  [ wButtons |-> {XInputMask[b] : b \in Pressed(input) \cup DpadHeld(input)},
    bLeftTrigger |-> Trigger(input.leftTrigger),
    bRightTrigger |-> Trigger(input.rightTrigger),
    sThumbLX |-> input.leftX, sThumbLY |-> input.leftY,
    sThumbRX |-> input.rightX, sThumbRY |-> input.rightY ]
=============================================================================

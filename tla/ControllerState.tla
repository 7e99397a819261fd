--------------------------- MODULE ControllerState ---------------------------
(***************************************************************************)
(* The decoded state of the controller (struct ControllerState).  Sticks,  *)
(* triggers, buttons and d-pad are one value `input'; the timestamp is     *)
(* never read and left out.                                                *)
(***************************************************************************)
EXTENDS Integers

CONSTANTS
  HalfModulus,      \* 2^31: sequence numbers are counted modulo twice this
  Inputs,           \* values of the sticks, triggers, buttons and d-pad
  Neutral           \* the one isNeutral() accepts

ASSUME StateAssumption ==
  /\ HalfModulus \in Nat \ {0}
  /\ Neutral \in Inputs

SeqModulus == 2 * HalfModulus
Sequence == 0 .. SeqModulus - 1

ControllerState == [sequence : Sequence, input : Inputs]

\* ControllerState::resetToNeutral keeps the sequence number.
Neutralised(s) == [s EXCEPT !.input = Neutral]
=============================================================================

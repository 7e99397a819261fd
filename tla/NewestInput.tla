---------------------------- MODULE NewestInput ----------------------------
(***************************************************************************)
(* What the receiver promises about the state a game may see: it is the    *)
(* input of the newest packet that has arrived, by the order in which      *)
(* packets were sent, or it is neutral because the watchdog released it.   *)
(* Packets are numbered 1, 2, 3, ... here, without any wrap-around.        *)
(***************************************************************************)
EXTENDS Naturals

CONSTANTS Inputs, Neutral

VARIABLES
  newest,   \* number of the newest packet that has arrived, 0 for none
  content,  \* the input it carries
  input     \* the state on show

vars == <<newest, content, input>>

Init == newest = 0 /\ content = Neutral /\ input = Neutral

\* A packet newer than all before it is shown at once.  An older one changes
\* nothing, not even after a release.
Supersede ==
  /\ newest' \in Nat
  /\ newest' > newest
  /\ content' \in Inputs
  /\ input' = content'

\* The watchdog releases the controls.
Release ==
  /\ input' = Neutral
  /\ UNCHANGED <<newest, content>>

Next == Supersede \/ Release

Spec == Init /\ [][Next]_vars
=============================================================================

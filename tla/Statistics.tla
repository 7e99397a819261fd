----------------------------- MODULE Statistics -----------------------------
(***************************************************************************)
(* The diagnostic counters of class Statistics, as operators from one      *)
(* value of the counters to the next.  A handler that calls several of     *)
(* them composes them, in the order of the calls.                          *)
(*                                                                         *)
(* Every counter is an atomic integer that fetch_add wraps at its width;   *)
(* CounterModulus stands for 2^64 (the totals) and for 2^32 (the rate).    *)
(* The program only adds to counters and prints them, so nothing but the   *)
(* counters depends on it.  The two time points and the round-trip time    *)
(* (onRttMeasured has no caller) are display only and left out.            *)
(***************************************************************************)
EXTENDS Integers

CONSTANT CounterModulus

ASSUME CounterModulusAssumption == CounterModulus \in Nat \ {0}

Counter == 0 .. CounterModulus - 1

\* A mutant: the counter grows beyond its width.
CountUpUnbounded(c, n) == c + n
\* fetch_add on an unsigned atomic.
CountUp(c, n) == (c + n) % CounterModulus

StatisticsInit ==
  [ packetsReceived |-> 0, packetsLost |-> 0, packetsOutOfOrder |-> 0,
    packetsPerSec |-> 0, secCounter |-> 0, lastSequence |-> 0,
    controllerUpdates |-> 0, gamepadErrors |-> 0 ]

OnPacketReceived(s, sequence) ==
  [ s EXCEPT !.packetsReceived = CountUp(@, 1),
             !.secCounter = CountUp(@, 1),
             !.lastSequence = sequence ]

OnPacketDropped(s, count) == [ s EXCEPT !.packetsLost = CountUp(@, count) ]

OnPacketOutOfOrder(s) == [ s EXCEPT !.packetsOutOfOrder = CountUp(@, 1) ]

OnControllerUpdated(s) == [ s EXCEPT !.controllerUpdates = CountUp(@, 1) ]

OnGamepadError(s) == [ s EXCEPT !.gamepadErrors = CountUp(@, 1) ]

\* The packets counted since the last call become the displayed rate.
TickOneSecond(s) == [ s EXCEPT !.packetsPerSec = s.secCounter, !.secCounter = 0 ]
=============================================================================

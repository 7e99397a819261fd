---------------------------- MODULE PacketStream ----------------------------
(***************************************************************************)
(* A sender streaming controller states to a ControllerProcessor over UDP. *)
(* The network loses, duplicates, delays and reorders packets.  The sender *)
(* counts its packets in 32 bits, starting anywhere; the variable index    *)
(* counts them without wrap-around and is what the packets are judged by.  *)
(***************************************************************************)
EXTENDS ControllerProcessor

CONSTANT MaxPackets   \* bound: packets sent

ASSUME StreamAssumption == MaxPackets \in Nat

VARIABLES
  index,   \* number of packets sent so far
  seq,     \* the sender's 32-bit sequence counter
  net,     \* packets in flight
  newest,  \* history: number of the newest packet delivered, 0 for none
  content, \* history: the input in that packet
  first    \* history: number of the first packet delivered, 0 for none

streamVars == <<index, seq, net, newest, content, first>>
vars == <<processorVars, streamVars>>

\* The ControllerState that PacketDecoder::decode extracts.
Decoded(p) == [sequence |-> p.sequence, input |-> p.input]

Init ==
  /\ ProcessorInit
  /\ index = 0
  /\ seq \in Sequence
  /\ net = {}
  /\ newest = 0 /\ content = Neutral
  /\ first = 0

\* The n-th packet is sent only while fewer than 2^31 packets separate it
\* from everything in flight and from what the receiver last took: at 120
\* packets a second the network forgets a packet long before (207 days).
Window(n) ==
  /\ \A p \in net : n - p.index < HalfModulus
  /\ newest # 0 => n - newest < HalfModulus

Send(i) ==
  /\ index < MaxPackets
  /\ Window(index + 1)
  /\ index' = index + 1
  /\ seq' = (seq + 1) % SeqModulus
  /\ net' = net \cup {[index |-> index', sequence |-> seq', input |-> i]}
  /\ UNCHANGED <<processorVars, newest, content, first>>

\* The receiver gets a packet; the network may keep a copy to deliver again.
\* Which packet is the newest is told by index, whatever the processor does.
Deliver(p) ==
  /\ ProcessPacket(Decoded(p))
  /\ newest' = IF p.index > newest THEN p.index ELSE newest
  /\ content' = IF p.index > newest THEN p.input ELSE content
  /\ first' = IF first = 0 THEN p.index ELSE first
  /\ net' \in {net, net \ {p}}
  /\ UNCHANGED <<index, seq>>

Lose(p) ==
  /\ net' = net \ {p}
  /\ UNCHANGED <<processorVars, index, seq, newest, content, first>>

Watchdog == CheckFailsafe /\ UNCHANGED streamVars

Clock == Tick /\ UNCHANGED streamVars

Next ==
  \/ \E i \in Inputs : Send(i)
  \/ \E p \in net : Deliver(p) \/ Lose(p)
  \/ Watchdog
  \/ Clock

Spec == Init /\ [][Next]_vars

\* The sending application may also be closed and opened again.  Its counter
\* is a local variable and starts from 0 (TestSender.cpp:60).
Restart ==
  /\ seq' = 0
  /\ UNCHANGED <<processorVars, index, net, newest, content, first>>

RestartSpec == Init /\ seq = 0 /\ [][Next \/ Restart]_vars

-----------------------------------------------------------------------------
\* The variables of this module have the types of what they stand for.
TypeOK ==
  /\ ProcessorTypeOK
  /\ index \in 0 .. MaxPackets
  /\ seq \in Sequence
  /\ net \subseteq [index : 1 .. index, sequence : Sequence, input : Inputs]
  /\ newest \in 0 .. index /\ content \in Inputs
  /\ first \in 0 .. index

Shown == INSTANCE NewestInput WITH input <- latestState.input

\* Newest state wins (README.md:39).  However packets are lost, duplicated
\* or reordered, and wherever the 32-bit counter wraps, a packet newer than
\* all delivered before it becomes the latest state in the step that delivers
\* it, an older one never does, and else only the watchdog changes the input.
NewestStateWins == Shown!Spec

\* Every sequence number from the first packet delivered to the newest one is
\* counted exactly once, as received or as lost (ControllerProcessor.cpp:39-41).
EverySequenceNumberCounted ==
  newest # 0 =>
    CountUp(stats.packetsReceived, stats.packetsLost)
      = (newest - first + 1) % CounterModulus

\* "Newest-state wins" (README.md:39) for a sender that was opened again: the
\* arrival of a packet sent later than every packet seen so far is accepted.
NewestArrivalAccepted ==
  [][ newest' # newest => stats'.packetsReceived # stats.packetsReceived ]_vars
=============================================================================

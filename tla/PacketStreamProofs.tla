------------------------- MODULE PacketStreamProofs -------------------------
(***************************************************************************)
(* PacketStream implements NewestInput, and counts every sequence number,  *)
(* for every width of the sequence numbers and counters.                   *)
(***************************************************************************)
EXTENDS PacketStream, ControllerProcessorProofs

\* A packet numbered n with sequence number s was sent by this sender, fewer
\* than 2^31 packets ago: the two ways of counting back to it agree.
Recent(n, s) ==
  /\ index - n \in 0 .. HalfModulus - 1
  /\ index - n = (seq - s) % SeqModulus

StreamInv ==
  /\ TypeOK
  /\ \A p \in net : Recent(p.index, p.sequence)
  /\ newest # 0 <=> hasReceivedFirstPacket
  /\ newest # 0 => Recent(newest, lastSequence)

-----------------------------------------------------------------------------
(* Arithmetic.                                                             *)

\* Between two packets that are both recent, the signed difference of their
\* sequence numbers is the number of packets between them.
LEMMA SeqDiffIsDistance ==
  ASSUME index \in Nat, seq \in Sequence,
         NEW m \in Nat, NEW s \in Sequence, Recent(m, s),
         NEW n \in Nat, NEW t \in Sequence, Recent(n, t)
  PROVE  SeqDiff(s, t) = m - n
BY StateAssumption DEF Recent, SeqDiff, Sequence, SeqModulus

\* A packet just sent is recent, and another stays recent while the next one
\* is sent if that is not too far away.
LEMMA SentIsRecent ==
  ASSUME index \in Nat, seq \in Sequence, index' = index + 1,
         seq' = (seq + 1) % SeqModulus
  PROVE  /\ seq' \in Sequence
         /\ \A n, s : n = index' /\ s = seq' => Recent(n, s)'
         /\ \A n \in Nat, s \in Sequence :
              Recent(n, s) /\ index + 1 - n < HalfModulus => Recent(n, s)'
<1>1. seq' \in Sequence
  BY StateAssumption DEF Sequence, SeqModulus
<1>2. ASSUME NEW n, NEW s, n = index', s = seq'
      PROVE  Recent(n, s)'
  BY <1>1, <1>2, StateAssumption DEF Recent, Sequence, SeqModulus
<1>3. ASSUME NEW n \in Nat, NEW s \in Sequence, Recent(n, s),
             index + 1 - n < HalfModulus
      PROVE  Recent(n, s)'
  <2>0. SeqModulus \in Nat \ {0} /\ HalfModulus < SeqModulus /\ HalfModulus \in Nat
    BY StateAssumption DEF SeqModulus
  <2>1. seq' = IF seq + 1 < SeqModulus THEN seq + 1 ELSE 0
    BY <2>0 DEF Sequence
  <2>2. (seq - s) % SeqModulus = IF seq >= s THEN seq - s ELSE seq - s + SeqModulus
    BY <2>0 DEF Sequence
  <2>3. (seq' - s) % SeqModulus = IF seq' >= s THEN seq' - s ELSE seq' - s + SeqModulus
    BY <1>1, <2>0 DEF Sequence
  <2>4. (seq' - s) % SeqModulus = ((seq - s) % SeqModulus) + 1
    BY <1>1, <1>3, <2>0, <2>1, <2>2, <2>3 DEF Recent, Sequence
  <2>. QED
    BY <1>3, <2>0, <2>4 DEF Recent
<1>. QED
  BY <1>1, <1>2, <1>3

\* The fields of a packet in flight.
LEMMA PacketFields ==
  ASSUME TypeOK, NEW p \in net
  PROVE  /\ p.index \in 1 .. index
         /\ p.sequence \in Sequence
         /\ Decoded(p) \in ControllerState
BY DEF TypeOK, Decoded, ControllerState

-----------------------------------------------------------------------------
(* The invariant.                                                          *)

LEMMA StreamInit == Init => StreamInv
<1> SUFFICES ASSUME Init PROVE StreamInv
  OBVIOUS
<1>1. ProcessorTypeOK
  BY ProcessorInitType DEF Init
<1>2. TypeOK
  BY <1>1, StreamAssumption, StateAssumption DEF Init, TypeOK
<1>. QED
  BY <1>2 DEF Init, ProcessorInit, StreamInv

LEMMA StreamSend ==
  ASSUME StreamInv, NEW i \in Inputs, Send(i)
  PROVE  StreamInv'
<1> DEFINE new == [index |-> index', sequence |-> seq', input |-> i]
<1>0. /\ index \in Nat /\ seq \in Sequence
      /\ index' = index + 1 /\ seq' = (seq + 1) % SeqModulus
      /\ net' = net \cup {new}
      /\ UNCHANGED <<processorVars, newest, content, first>>
  BY DEF StreamInv, TypeOK, Send
<1>1. /\ seq' \in Sequence
      /\ \A n, s : n = index' /\ s = seq' => Recent(n, s)'
      /\ \A n \in Nat, s \in Sequence :
           Recent(n, s) /\ index + 1 - n < HalfModulus => Recent(n, s)'
  BY <1>0, SentIsRecent
<1>2. TypeOK'
  <2>1. ProcessorTypeOK'
    BY <1>0 DEF StreamInv, TypeOK, ProcessorTypeOK, processorVars
  <2>2. new \in [index : 1 .. index', sequence : Sequence, input : Inputs]
    BY <1>0, <1>1
  <2>3. net \subseteq [index : 1 .. index', sequence : Sequence, input : Inputs]
    BY <1>0 DEF StreamInv, TypeOK
  <2>4. index' \in 0 .. MaxPackets
    BY <1>0, StreamAssumption DEF Send
  <2>. QED
    BY <1>0, <1>1, <2>1, <2>2, <2>3, <2>4 DEF StreamInv, TypeOK
<1>3. \A p \in net' : Recent(p.index, p.sequence)'
  <2>1. ASSUME NEW p \in net
        PROVE  Recent(p.index, p.sequence)'
    <3>1. /\ p.index \in Nat /\ p.sequence \in Sequence
          /\ Recent(p.index, p.sequence)
      BY <1>0 DEF StreamInv, TypeOK, Decoded, ControllerState
    <3>2. index + 1 - p.index < HalfModulus
      BY <1>0, <3>1, StateAssumption DEF Send, Window
    <3>. QED
      BY <1>1, <3>1, <3>2 DEF Recent
  <2>. QED
    BY <1>0, <1>1, <2>1 DEF Recent, new
<1>4. newest' # 0 => Recent(newest, lastSequence)'
  <2>1. newest # 0 => index + 1 - newest < HalfModulus
    BY <1>0, StateAssumption DEF Send, Window, StreamInv, TypeOK
  <2>. QED
    BY <1>0, <1>1, <2>1 DEF StreamInv, TypeOK, ProcessorTypeOK, processorVars, Recent
<1>5. newest' # 0 <=> hasReceivedFirstPacket'
  BY <1>0 DEF StreamInv, processorVars
<1>. QED
  BY <1>2, <1>3, <1>4, <1>5 DEF StreamInv

\* A delivered packet is accepted exactly if it is newer than every packet
\* delivered before, and its input is then that of the newest packet.
LEMMA AcceptedIsNewer ==
  ASSUME StreamInv, NEW p \in net, Deliver(p)
  PROVE  \/ /\ AcceptFirst(Decoded(p))
            /\ newest = 0 /\ newest' = p.index /\ content' = p.input
         \/ /\ AcceptNewer(Decoded(p))
            /\ newest # 0 /\ newest' = p.index /\ p.index > newest
            /\ content' = p.input
            /\ Gap(Decoded(p)) = p.index - newest - 1
         \/ /\ DropStale(Decoded(p))
            /\ newest # 0 /\ UNCHANGED <<newest, content>>
<1>1. /\ index \in Nat /\ seq \in Sequence /\ lastSequence \in Sequence
      /\ p.index \in Nat \ {0} /\ newest \in Nat
      /\ p.sequence \in Sequence
      /\ Recent(p.index, p.sequence)
  BY PacketFields DEF StreamInv, TypeOK, ProcessorTypeOK
<1>2. newest # 0 => SeqDiff(p.sequence, lastSequence) = p.index - newest
  BY <1>1, SeqDiffIsDistance DEF StreamInv
<1>3. /\ newest' = IF p.index > newest THEN p.index ELSE newest
      /\ content' = IF p.index > newest THEN p.input ELSE content
  BY DEF Deliver
<1>4. CASE AcceptFirst(Decoded(p))
  BY <1>1, <1>3, <1>4 DEF AcceptFirst, StreamInv
<1>5. CASE AcceptNewer(Decoded(p))
  BY <1>1, <1>2, <1>3, <1>5 DEF AcceptNewer, IsNewer, Gap, Decoded, StreamInv
<1>6. CASE DropStale(Decoded(p))
  BY <1>1, <1>2, <1>3, <1>6 DEF DropStale, IsNewer, Decoded, StreamInv
<1>. QED
  BY <1>4, <1>5, <1>6 DEF Deliver, ProcessPacket

LEMMA StreamDeliver ==
  ASSUME StreamInv, NEW p \in net, Deliver(p)
  PROVE  StreamInv'
<1>0. /\ UNCHANGED <<index, seq>>
      /\ net' \subseteq net
      /\ Decoded(p) \in ControllerState
      /\ p.index \in 1 .. index
  BY PacketFields DEF Deliver, StreamInv
<1>1. ProcessorTypeOK'
  BY <1>0, ProcessPacketType DEF Deliver, StreamInv, TypeOK
<1>2. TypeOK'
  BY <1>0, <1>1 DEF Deliver, StreamInv, TypeOK
<1>3. \A q \in net' : Recent(q.index, q.sequence)'
  BY <1>0 DEF StreamInv, Recent
<1>4. /\ newest' # 0 <=> hasReceivedFirstPacket'
      /\ newest' # 0 => Recent(newest, lastSequence)'
  <2>1. CASE /\ AcceptFirst(Decoded(p)) \/ AcceptNewer(Decoded(p))
             /\ newest' = p.index
    <3>1. lastSequence' = p.sequence /\ hasReceivedFirstPacket' = TRUE
      BY <2>1 DEF AcceptFirst, AcceptNewer, Store, Decoded, StreamInv, TypeOK,
                  ProcessorTypeOK
    <3>. QED
      BY <1>0, <2>1, <3>1 DEF StreamInv, Recent
  <2>2. CASE DropStale(Decoded(p)) /\ newest' = newest
    BY <1>0, <2>2 DEF DropStale, StreamInv, Recent
  <2>. QED
    BY <2>1, <2>2, AcceptedIsNewer
<1>. QED
  BY <1>2, <1>3, <1>4 DEF StreamInv

LEMMA StreamOther ==
  ASSUME StreamInv,
         (\E p \in net : Lose(p)) \/ Watchdog \/ Clock \/ UNCHANGED vars
  PROVE  StreamInv'
<1> USE DEF StreamInv, TypeOK, Recent, Decoded
<1>1. CASE \E p \in net : Lose(p)
  BY <1>1 DEF Lose, processorVars, ProcessorTypeOK
<1>2. CASE Watchdog
  <2>1. ProcessorTypeOK'
    BY <1>2, ReleaseInputType DEF Watchdog, CheckFailsafe, ProcessorTypeOK
  <2>. QED
    BY <1>2, <2>1 DEF Watchdog, CheckFailsafe, streamVars
<1>3. CASE Clock
  <2>1. ProcessorTypeOK'
    BY <1>3, TimePassesType DEF Clock, Tick, ProcessorTypeOK
  <2>. QED
    BY <1>3, <2>1 DEF Clock, Tick, streamVars
<1>4. CASE UNCHANGED vars
  BY <1>4 DEF vars, processorVars, streamVars, ProcessorTypeOK
<1>. QED
  BY <1>1, <1>2, <1>3, <1>4

THEOREM StreamInvHolds == Spec => []StreamInv
<1>1. StreamInv /\ [Next]_vars => StreamInv'
  BY StreamSend, StreamDeliver, StreamOther DEF Next
<1>. QED
  BY <1>1, StreamInit, PTL DEF Spec

-----------------------------------------------------------------------------
(* The refinement.                                                         *)

\* Newest state wins, for every width of the counter and every number of
\* packets, however they are lost, duplicated, delayed or reordered within
\* the window.
THEOREM ImplementsNewestInput == Spec => NewestStateWins
<1>1. Init => Shown!Init
  BY DEF Init, ProcessorInit, Shown!Init
<1>2. StreamInv /\ [Next]_vars => [Shown!Next]_<<newest, content, latestState.input>>
  <2> SUFFICES ASSUME StreamInv, [Next]_vars
               PROVE  Shown!Next \/ UNCHANGED <<newest, content, latestState.input>>
    OBVIOUS
  <2>1. ASSUME NEW p \in net, Deliver(p)
        PROVE  Shown!Next \/ UNCHANGED <<newest, content, latestState.input>>
    <3>0. /\ p.index \in Nat /\ newest \in Nat
          /\ Decoded(p).input = p.input /\ p.input \in Inputs
      BY PacketFields DEF StreamInv, TypeOK, ControllerState, Decoded
    <3>1. CASE /\ AcceptFirst(Decoded(p)) \/ AcceptNewer(Decoded(p))
               /\ newest' = p.index /\ p.index > newest /\ content' = p.input
      BY <3>0, <3>1 DEF AcceptFirst, AcceptNewer, Store, Shown!Next, Shown!Supersede
    <3>2. CASE DropStale(Decoded(p)) /\ UNCHANGED <<newest, content>>
      BY <3>2 DEF DropStale
    <3>3. newest = 0 => p.index > newest
      BY DEF StreamInv, TypeOK
    <3>. QED
      BY <2>1, <3>1, <3>2, <3>3, AcceptedIsNewer
  <2>2. CASE Watchdog
    BY <2>2 DEF Watchdog, streamVars, CheckFailsafe, ReleaseInput, Neutralised,
       Shown!Next, Shown!Release, StreamInv, TypeOK, ProcessorTypeOK,
       ControllerState
  <2>3. CASE \/ \E i \in Inputs : Send(i)
             \/ \E p \in net : Lose(p)
             \/ Clock
             \/ UNCHANGED vars
    BY <2>3 DEF Send, Lose, Clock, Tick, vars, streamVars, processorVars
  <2>. QED
    BY <2>1, <2>2, <2>3 DEF Next
<1>. QED
  BY <1>1, <1>2, StreamInvHolds, PTL DEF Spec, NewestStateWins, Shown!Spec, Shown!vars

-----------------------------------------------------------------------------
(* The statistics of the stream.                                           *)

CountInv ==
  /\ newest = 0 => /\ first = 0
                   /\ stats.packetsReceived = 0
                   /\ stats.packetsLost = 0
  /\ newest # 0 => first # 0
  /\ EverySequenceNumberCounted

\* Remainders.  The solver does not reason about products of unknowns unaided.
LEMMA MultipleAtLeast ==
  ASSUME NEW k \in Int, k >= 1
  PROVE  CounterModulus * k >= CounterModulus
BY CounterModulusAssumption

\* A remainder is the only one.
LEMMA RemainderUnique ==
  ASSUME NEW x \in Int, NEW m \in Int, NEW r \in 0 .. CounterModulus - 1,
         x = CounterModulus * m + r
  PROVE  x % CounterModulus = r
<1> DEFINE n == x \div CounterModulus
           s == x % CounterModulus
<1>1. n \in Int /\ s \in 0 .. CounterModulus - 1 /\ x = CounterModulus * n + s
  BY CounterModulusAssumption
<1> HIDE DEF n, s
<1>2. CounterModulus * (m - n) = s - r /\ CounterModulus * (n - m) = r - s
  BY <1>1, CounterModulusAssumption
<1>3. ~ (m - n >= 1)
  BY <1>1, <1>2, MultipleAtLeast, CounterModulusAssumption
<1>4. ~ (n - m >= 1)
  BY <1>1, <1>2, MultipleAtLeast, CounterModulusAssumption
<1>5. m = n
  BY <1>1, <1>3, <1>4
<1>6. s = r
  BY <1>1, <1>5, CounterModulusAssumption
<1>. QED
  BY <1>6 DEF s

\* Counting modulo CounterModulus along the way or at the end is the same.
LEMMA ModAdd ==
  ASSUME NEW a \in Int, NEW b \in Int
  PROVE  ((a % CounterModulus) + b) % CounterModulus = (a + b) % CounterModulus
<1> DEFINE n == a \div CounterModulus
           s == a % CounterModulus
           m == (s + b) \div CounterModulus
           r == (s + b) % CounterModulus
<1>1. n \in Int /\ s \in Int /\ a = CounterModulus * n + s
  BY CounterModulusAssumption
<1> HIDE DEF n, s
<1>2. m \in Int /\ r \in 0 .. CounterModulus - 1 /\ s + b = CounterModulus * m + r
  BY <1>1, CounterModulusAssumption
<1> HIDE DEF m, r
<1>3. a + b = CounterModulus * (m + n) + r
  BY <1>1, <1>2, CounterModulusAssumption
<1>4. (a + b) % CounterModulus = r
  BY <1>1, <1>2, <1>3, RemainderUnique
<1>. QED
  BY <1>4 DEF r, s
\* Counting up twice is counting up by the sum.
LEMMA CountUpTwice ==
  ASSUME NEW a \in Int, NEW b \in Int, NEW c \in Int
  PROVE  CountUp(CountUp(a, b), c) = CountUp(a, b + c)
<1>1. (((a + b) % CounterModulus) + c) % CounterModulus
        = ((a + b) + c) % CounterModulus
  BY ModAdd, a + b \in Int, Zenon
<1>2. (a + b) + c = a + (b + c)
  OBVIOUS
<1>. QED
  BY <1>1, <1>2 DEF CountUp

\* One packet received and a gap of g counted as lost move the sum on by g + 1.
LEMMA CountUpSum ==
  ASSUME NEW r \in Counter, NEW l \in Counter, NEW g \in Int, NEW d \in Int,
         CountUp(r, l) = d % CounterModulus
  PROVE  CountUp(CountUp(r, 1), CountUp(l, g)) = (d + g + 1) % CounterModulus
<1>0. r \in Int /\ l \in Int /\ CountUp(l, g) \in Int
  BY CountUpType, CounterModulusAssumption DEF Counter
<1>1. CountUp(CountUp(r, 1), CountUp(l, g)) = CountUp(r, 1 + CountUp(l, g))
  BY <1>0, CountUpTwice
<1>2. CountUp(r, 1 + CountUp(l, g)) = CountUp(CountUp(l, g), r + 1)
  BY <1>0, r + (1 + CountUp(l, g)) = CountUp(l, g) + (r + 1) DEF CountUp
<1>3. CountUp(CountUp(l, g), r + 1) = CountUp(l, g + (r + 1))
  BY <1>0, CountUpTwice
<1>4. CountUp(l, g + (r + 1)) = CountUp(r, l + (g + 1))
  BY <1>0, l + (g + (r + 1)) = r + (l + (g + 1)) DEF CountUp
<1>5. CountUp(CountUp(r, l), g + 1) = CountUp(r, l + (g + 1))
  BY <1>0, CountUpTwice
<1>6. CountUp(r, l) = CountUp(d, 0)
  BY DEF CountUp
<1>7. CountUp(CountUp(d, 0), g + 1) = CountUp(d, 0 + (g + 1))
  BY CountUpTwice
<1>8. CountUp(d, 0 + (g + 1)) = (d + g + 1) % CounterModulus
  BY d + (0 + (g + 1)) = d + g + 1 DEF CountUp
<1>. QED
  BY <1>1, <1>2, <1>3, <1>4, <1>5, <1>6, <1>7, <1>8

LEMMA CountDeliver ==
  ASSUME StreamInv, CountInv, NEW p \in net, Deliver(p)
  PROVE  CountInv'
<1>0. /\ stats \in StatisticsType
      /\ stats.packetsReceived \in Counter
      /\ stats.packetsLost \in Counter
      /\ newest \in Int /\ first \in Int
      /\ p.index \in Nat \ {0}
      /\ first' = IF first = 0 THEN p.index ELSE first
  BY PacketFields
  DEF StreamInv, TypeOK, ProcessorTypeOK, StatisticsType, Deliver
<1>1. CASE /\ AcceptFirst(Decoded(p))
           /\ newest = 0 /\ newest' = p.index
  <2>1. /\ stats'.packetsReceived = CountUp(stats.packetsReceived, 1)
        /\ stats'.packetsLost = stats.packetsLost
    BY <1>0, <1>1 DEF AcceptFirst, OnPacketReceived, StatisticsType
  <2>. QED
    BY <1>0, <1>1, <2>1, CounterModulusAssumption
    DEF CountInv, EverySequenceNumberCounted, CountUp
<1>2. CASE /\ AcceptNewer(Decoded(p))
           /\ newest # 0 /\ newest' = p.index /\ p.index > newest
           /\ Gap(Decoded(p)) = p.index - newest - 1
  <2>1. /\ stats'.packetsReceived = CountUp(stats.packetsReceived, 1)
        /\ stats'.packetsLost = CountUp(stats.packetsLost, p.index - newest - 1)
    BY <1>0, <1>2 DEF AcceptNewer, OnPacketReceived, OnPacketDropped, StatisticsType
  <2>2. CountUp(stats.packetsReceived, stats.packetsLost)
          = (newest - first + 1) % CounterModulus
    BY <1>2 DEF CountInv, EverySequenceNumberCounted
  <2>3. CountUp(stats'.packetsReceived, stats'.packetsLost)
          = (newest - first + 1 + (p.index - newest - 1) + 1) % CounterModulus
    BY <1>0, <2>1, <2>2, CountUpSum
  <2>4. newest - first + 1 + (p.index - newest - 1) + 1 = p.index - first + 1
    BY <1>0
  <2>. QED
    BY <1>0, <1>2, <2>3, <2>4 DEF CountInv, EverySequenceNumberCounted
<1>3. CASE /\ DropStale(Decoded(p))
           /\ newest # 0 /\ newest' = newest
  <2>1. /\ stats'.packetsReceived = stats.packetsReceived
        /\ stats'.packetsLost = stats.packetsLost
    BY <1>0, <1>3 DEF DropStale, OnPacketOutOfOrder, StatisticsType
  <2>. QED
    BY <1>0, <1>3, <2>1 DEF CountInv, EverySequenceNumberCounted
<1>. QED
  BY <1>1, <1>2, <1>3, AcceptedIsNewer

\* Received and lost packets add up to the packets sent since the first one
\* that arrived.
THEOREM SequenceNumbersCounted == Spec => []EverySequenceNumberCounted
<1>1. Init => CountInv
  BY DEF Init, ProcessorInit, StatisticsInit, CountInv, EverySequenceNumberCounted
<1>2. StreamInv /\ CountInv /\ [Next]_vars => CountInv'
  <2> SUFFICES ASSUME StreamInv, CountInv, [Next]_vars
               PROVE  CountInv'
    OBVIOUS
  <2>1. ASSUME NEW p \in net, Deliver(p)
        PROVE  CountInv'
    BY <2>1, CountDeliver
  <2>2. ASSUME UNCHANGED <<newest, first, stats>>
        PROVE  CountInv'
    BY <2>2 DEF CountInv, EverySequenceNumberCounted
  <2>3. CASE \/ \E i \in Inputs : Send(i)
             \/ \E p \in net : Lose(p)
             \/ Watchdog
             \/ Clock
             \/ UNCHANGED vars
    BY <2>2, <2>3 DEF Send, Lose, Watchdog, CheckFailsafe, Clock, Tick, vars,
       streamVars, processorVars
  <2>. QED
    BY <2>1, <2>3 DEF Next
<1>3. CountInv => EverySequenceNumberCounted
  BY DEF CountInv
<1>. QED
  BY <1>1, <1>2, <1>3, StreamInvHolds, PTL DEF Spec

\* The types of the stream's variables.
THEOREM StreamTypeCorrect == Spec => []TypeOK
<1>1. StreamInv => TypeOK
  BY DEF StreamInv
<1>. QED
  BY <1>1, StreamInvHolds, PTL
=============================================================================

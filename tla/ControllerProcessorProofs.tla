---------------------- MODULE ControllerProcessorProofs ----------------------
(***************************************************************************)
(* Theorems about ControllerProcessor, for every width of the sequence     *)
(* numbers and counters, every set of inputs and every timeout.            *)
(***************************************************************************)
EXTENDS ControllerProcessor, TLAPS

-----------------------------------------------------------------------------
(* The arithmetic of sequence numbers and counters.                        *)

\* A counter stays within its width.
LEMMA CountUpType ==
  ASSUME NEW c \in Int, NEW n \in Int
  PROVE  CountUp(c, n) \in Counter
BY CounterModulusAssumption DEF CountUp, Counter

\* The difference of two sequence numbers is a signed number of the same
\* width, and congruent to it.
LEMMA SeqDiffType ==
  ASSUME NEW a \in Sequence, NEW b \in Sequence
  PROVE  /\ SeqDiff(a, b) \in -HalfModulus .. HalfModulus - 1
         /\ SeqDiff(a, b) > 0 =>
              /\ SeqDiff(a, b) \in 1 .. HalfModulus - 1
              /\ SeqDiff(a, b) = (a - b) % SeqModulus
BY StateAssumption DEF SeqDiff, Sequence, SeqModulus

-----------------------------------------------------------------------------
(* What a call does to the statistics.                                     *)

LEMMA StatisticsInitType == StatisticsInit \in StatisticsType
BY CounterModulusAssumption, StateAssumption
DEF StatisticsInit, StatisticsType, Counter, Sequence, SeqModulus

LEMMA DroppedType ==
  ASSUME NEW s \in StatisticsType, NEW n \in Int
  PROVE  OnPacketDropped(s, n) \in StatisticsType
<1>1. \A c \in Counter : CountUp(c, n) \in Counter
  BY CountUpType, CounterModulusAssumption DEF Counter
<1>. QED
  BY <1>1 DEF StatisticsType, OnPacketDropped

LEMMA StatisticsStepType ==
  ASSUME NEW s \in StatisticsType, NEW q \in Sequence
  PROVE  /\ OnPacketReceived(s, q) \in StatisticsType
         /\ OnPacketReceived(s, q).lastSequence = q
         /\ OnPacketOutOfOrder(s) \in StatisticsType
         /\ OnPacketOutOfOrder(s).lastSequence = s.lastSequence
         /\ OnControllerUpdated(s) \in StatisticsType
         /\ OnGamepadError(s) \in StatisticsType
         /\ TickOneSecond(s) \in StatisticsType
<1>1. Counter \subseteq Int /\ 0 \in Counter
  BY CounterModulusAssumption DEF Counter
<1>2. \A c \in Counter : CountUp(c, 1) \in Counter
  BY <1>1, CountUpType
<1>3. /\ OnPacketReceived(s, q) \in StatisticsType
      /\ OnPacketReceived(s, q).lastSequence = q
  BY <1>2 DEF StatisticsType, OnPacketReceived
<1>4. /\ OnPacketOutOfOrder(s) \in StatisticsType
      /\ OnPacketOutOfOrder(s).lastSequence = s.lastSequence
  BY <1>2 DEF StatisticsType, OnPacketOutOfOrder
<1>5. OnControllerUpdated(s) \in StatisticsType
  BY <1>2 DEF StatisticsType, OnControllerUpdated
<1>6. OnGamepadError(s) \in StatisticsType
  BY <1>2 DEF StatisticsType, OnGamepadError
<1>7. TickOneSecond(s) \in StatisticsType
  BY <1>1 DEF StatisticsType, TickOneSecond
<1>. QED
  BY <1>3, <1>4, <1>5, <1>6, <1>7

-----------------------------------------------------------------------------
LEMMA ProcessorInitType == ProcessorInit => ProcessorTypeOK
<1>1. 0 \in Sequence /\ 0 \in 0 .. MaxElapsed
  BY StateAssumption, ProcessorAssumption DEF Sequence, SeqModulus
<1>2. [sequence |-> 0, input |-> Neutral] \in ControllerState
  BY <1>1, StateAssumption DEF ControllerState
<1>. QED
  BY <1>1, <1>2, StatisticsInitType DEF ProcessorInit, ProcessorTypeOK

\* Every operation keeps the types of the fields.
LEMMA ProcessPacketType ==
  ASSUME ProcessorTypeOK, NEW p \in ControllerState, ProcessPacket(p)
  PROVE  ProcessorTypeOK'
<1>0. p.sequence \in Sequence /\ 0 \in 0 .. MaxElapsed
  BY ProcessorAssumption DEF ControllerState
<1>1. CASE AcceptFirst(p)
  <2>1. stats' \in StatisticsType
    BY <1>0, <1>1, StatisticsStepType DEF ProcessorTypeOK, AcceptFirst
  <2>. QED
    BY <1>0, <1>1, <2>1 DEF ProcessorTypeOK, AcceptFirst, Store
<1>2. CASE AcceptNewer(p)
  <2>1. Gap(p) \in Int
    BY <1>0, SeqDiffType, StateAssumption DEF Gap, ProcessorTypeOK
  <2>2. stats' \in StatisticsType
    BY <1>0, <1>2, <2>1, DroppedType, StatisticsStepType
    DEF ProcessorTypeOK, AcceptNewer
  <2>. QED
    BY <1>0, <1>2, <2>2 DEF ProcessorTypeOK, AcceptNewer, Store
<1>3. CASE DropStale(p)
  BY <1>0, <1>3, StatisticsStepType DEF ProcessorTypeOK, DropStale
<1>. QED
  BY <1>1, <1>2, <1>3 DEF ProcessPacket

LEMMA ReleaseInputType ==
  ASSUME ProcessorTypeOK, ReleaseInput
  PROVE  latestState' \in ControllerState /\ isFailsafeActive' \in BOOLEAN
BY StateAssumption DEF ProcessorTypeOK, ReleaseInput, Neutralised, ControllerState

LEMMA TimePassesType ==
  ASSUME ProcessorTypeOK, TimePasses
  PROVE  elapsed' \in 0 .. MaxElapsed
BY ProcessorAssumption DEF ProcessorTypeOK, TimePasses

\* No step of the processor breaks the types.
LEMMA ProcessorStepType ==
  ASSUME ProcessorTypeOK, [ProcessorNext]_processorVars
  PROVE  ProcessorTypeOK'
<1>1. ASSUME NEW p \in ControllerState, ProcessPacket(p)
      PROVE  ProcessorTypeOK'
  BY <1>1, ProcessPacketType
<1>2. CASE CheckFailsafe
  BY <1>2, ReleaseInputType DEF CheckFailsafe, ProcessorTypeOK
<1>3. CASE ResetToNeutral
  BY <1>3, ReleaseInputType DEF ResetToNeutral, ProcessorTypeOK
<1>4. CASE Tick
  BY <1>4, TimePassesType DEF Tick, ProcessorTypeOK
<1>5. CASE UNCHANGED processorVars
  BY <1>5 DEF processorVars, ProcessorTypeOK
<1>. QED
  BY <1>1, <1>2, <1>3, <1>4, <1>5 DEF ProcessorNext

\* The fields have their types in every reachable state.
THEOREM ProcessorTypeCorrect == ProcessorSpec => []ProcessorTypeOK
<1>1. ProcessorInit => ProcessorTypeOK
  BY ProcessorInitType
<1>2. ProcessorTypeOK /\ [ProcessorNext]_processorVars => ProcessorTypeOK'
  BY ProcessorStepType
<1>. QED
  BY <1>1, <1>2, PTL DEF ProcessorSpec

-----------------------------------------------------------------------------
LEMMA FailsafeStep ==
  ASSUME ProcessorTypeOK, FailsafeMeansNeutral, [ProcessorNext]_processorVars
  PROVE  FailsafeMeansNeutral'
<1>1. ASSUME NEW p \in ControllerState, ProcessPacket(p)
      PROVE  FailsafeMeansNeutral'
  BY <1>1 DEF ProcessPacket, AcceptFirst, AcceptNewer, DropStale, Store,
              FailsafeMeansNeutral
<1>2. CASE ReleaseInput
  BY <1>2 DEF ReleaseInput, Neutralised, FailsafeMeansNeutral,
              ProcessorTypeOK, ControllerState
<1>3. CASE Tick \/ UNCHANGED processorVars
  BY <1>3 DEF Tick, processorVars, FailsafeMeansNeutral
<1>. QED
  BY <1>1, <1>2, <1>3 DEF ProcessorNext, CheckFailsafe, ResetToNeutral

\* The watchdog is silent while its flag is set, and rightly so: the latest
\* state is neutral then.
THEOREM FailsafeIsNeutral == ProcessorSpec => []FailsafeMeansNeutral
<1>1. ProcessorInit => FailsafeMeansNeutral
  BY DEF ProcessorInit, FailsafeMeansNeutral
<1>2. /\ ProcessorTypeOK
      /\ FailsafeMeansNeutral
      /\ [ProcessorNext]_processorVars
      => FailsafeMeansNeutral'
  BY FailsafeStep
<1>. QED
  BY <1>1, <1>2, ProcessorTypeCorrect, PTL DEF ProcessorSpec

LEMMA SequenceCopiesStep ==
  ASSUME ProcessorTypeOK, SequenceCopiesAgree, [ProcessorNext]_processorVars
  PROVE  SequenceCopiesAgree'
<1>1. ASSUME NEW p \in ControllerState, ProcessPacket(p)
      PROVE  SequenceCopiesAgree'
  <2>0. p.sequence \in Sequence
    BY DEF ControllerState
  <2>1. CASE AcceptFirst(p)
    BY <2>0, <2>1, StatisticsStepType
    DEF AcceptFirst, Store, SequenceCopiesAgree, ProcessorTypeOK
  <2>2. CASE AcceptNewer(p)
    <3>1. Gap(p) \in Int
      BY <2>0, SeqDiffType, StateAssumption DEF Gap, ProcessorTypeOK
    <3>2. stats'.lastSequence = p.sequence
      BY <2>0, <2>2, <3>1, DroppedType, StatisticsStepType
      DEF AcceptNewer, ProcessorTypeOK
    <3>. QED
      BY <2>2, <3>2 DEF AcceptNewer, Store, SequenceCopiesAgree
  <2>3. CASE DropStale(p)
    BY <2>0, <2>3, StatisticsStepType
    DEF DropStale, SequenceCopiesAgree, ProcessorTypeOK
  <2>. QED
    BY <1>1, <2>1, <2>2, <2>3 DEF ProcessPacket
<1>2. CASE CheckFailsafe \/ ResetToNeutral
  BY <1>2 DEF CheckFailsafe, ResetToNeutral, ReleaseInput, Neutralised,
              SequenceCopiesAgree, ProcessorTypeOK, ControllerState
<1>3. CASE Tick \/ UNCHANGED processorVars
  BY <1>3 DEF Tick, processorVars, SequenceCopiesAgree
<1>. QED
  BY <1>1, <1>2, <1>3 DEF ProcessorNext

\* The three copies of the sequence number are never told apart.
THEOREM SequenceCopiesStayEqual == ProcessorSpec => []SequenceCopiesAgree
<1>1. ProcessorInit => SequenceCopiesAgree
  BY DEF ProcessorInit, SequenceCopiesAgree
<1>2. /\ ProcessorTypeOK
      /\ SequenceCopiesAgree
      /\ [ProcessorNext]_processorVars
      => SequenceCopiesAgree'
  BY SequenceCopiesStep
<1>. QED
  BY <1>1, <1>2, ProcessorTypeCorrect, PTL DEF ProcessorSpec

LEMMA FailsafeEndsWithNewer ==
  ASSUME ProcessorTypeOK, ProcessorNext,
         hasReceivedFirstPacket, isFailsafeActive, ~ isFailsafeActive'
  PROVE  SeqDiff(lastSequence', lastSequence) \in 1 .. HalfModulus - 1
<1>1. PICK p \in ControllerState : ProcessPacket(p)
  BY DEF ProcessorNext, CheckFailsafe, ResetToNeutral, ReleaseInput, Tick
<1>2. IsNewer(p) /\ lastSequence' = p.sequence
  BY <1>1 DEF ProcessPacket, AcceptFirst, AcceptNewer, DropStale, Store
<1>. QED
  BY <1>2, SeqDiffType DEF IsNewer, ProcessorTypeOK, ControllerState

\* A stale packet never ends the failsafe.
THEOREM StalePacketsStayDropped == ProcessorSpec => StalePacketNeverRevives
<1> DEFINE Step == (hasReceivedFirstPacket /\ isFailsafeActive /\ ~ isFailsafeActive')
                     => SeqDiff(lastSequence', lastSequence) \in 1 .. HalfModulus - 1
<1>1. ProcessorTypeOK /\ [ProcessorNext]_processorVars => [Step]_processorVars
  BY FailsafeEndsWithNewer
<1>. QED
  BY <1>1, ProcessorTypeCorrect, PTL DEF ProcessorSpec, StalePacketNeverRevives
=============================================================================

------------------------ MODULE ControllerProcessor ------------------------
(***************************************************************************)
(* Class ControllerProcessor: accepts a decoded controller state only if   *)
(* its 32-bit sequence number is newer than the last accepted one, keeps   *)
(* the latest accepted state, and resets it to neutral once no state has   *)
(* been accepted for longer than the failsafe timeout.                     *)
(*                                                                         *)
(* m_lastValidTime is kept as the ticks that passed since it was set, up   *)
(* to MaxElapsed: the code only compares them with the timeout.  All calls *)
(* but getLatestState are made by the receiver thread, and getLatestState  *)
(* takes m_stateMutex, so each call is one step.                           *)
(***************************************************************************)
EXTENDS Statistics, ControllerState

CONSTANTS
  FailsafeTimeout,  \* timeoutMs of checkFailsafe, in ticks
  MaxElapsed        \* bound: longer silences are not told apart

ASSUME ProcessorAssumption ==
  /\ FailsafeTimeout \in Nat
  /\ MaxElapsed \in Nat
  /\ MaxElapsed > FailsafeTimeout

VARIABLES
  hasReceivedFirstPacket,
  lastSequence,
  isFailsafeActive,
  latestState,
  elapsed,          \* ticks since m_lastValidTime
  stats

processorVars == <<hasReceivedFirstPacket, lastSequence, isFailsafeActive,
                   latestState, elapsed, stats>>

ProcessorInit ==
  /\ hasReceivedFirstPacket = FALSE
  /\ lastSequence = 0
  /\ isFailsafeActive = FALSE
  /\ latestState = [sequence |-> 0, input |-> Neutral]
  /\ elapsed = 0
  /\ stats = StatisticsInit

\* A mutant: the difference is not reinterpreted as a signed number.
SeqDiffUnsigned(a, b) == (a - b) % SeqModulus
\* static_cast<int32_t>(a - b) for 32-bit unsigned a and b.
SeqDiff(a, b) ==
  LET d == (a - b) % SeqModulus IN IF d < HalfModulus THEN d ELSE d - SeqModulus

\* A mutant: a duplicate counts as newer.
IsNewerOrSame(p) == SeqDiff(p.sequence, lastSequence) >= 0
IsNewer(p) == SeqDiff(p.sequence, lastSequence) > 0

Accepts(p) == ~ hasReceivedFirstPacket \/ IsNewer(p)

\* A mutant: an accepted packet does not re-arm the watchdog.
StoreKeepingFailsafe(p) ==
  /\ lastSequence' = p.sequence
  /\ latestState' = p
  /\ elapsed' = 0
  /\ UNCHANGED isFailsafeActive
\* A mutant: the accepted state is kept but its sequence number is not.
StoreForgettingSequence(p) ==
  /\ isFailsafeActive' = FALSE
  /\ latestState' = p
  /\ elapsed' = 0
  /\ UNCHANGED lastSequence
\* What both accepting paths of processPacket write.
Store(p) ==
  /\ lastSequence' = p.sequence
  /\ isFailsafeActive' = FALSE
  /\ latestState' = p
  /\ elapsed' = 0

AcceptFirst(p) ==
  /\ ~ hasReceivedFirstPacket
  /\ hasReceivedFirstPacket' = TRUE
  /\ Store(p)
  /\ stats' = OnPacketReceived(stats, p.sequence)

\* A mutant: the accepted packet is itself counted as lost.
GapIncludingSelf(p) == SeqDiff(p.sequence, lastSequence)
\* The sequence numbers skipped by an accepted packet.
Gap(p) == SeqDiff(p.sequence, lastSequence) - 1

\* onPacketDropped is called only for a gap; adding none is the same.
AcceptNewer(p) ==
  /\ hasReceivedFirstPacket
  /\ IsNewer(p)
  /\ Store(p)
  /\ stats' = OnPacketReceived(OnPacketDropped(stats, Gap(p)), p.sequence)
  /\ UNCHANGED hasReceivedFirstPacket

DropStale(p) ==
  /\ hasReceivedFirstPacket
  /\ ~ IsNewer(p)
  /\ stats' = OnPacketOutOfOrder(stats)
  /\ UNCHANGED <<hasReceivedFirstPacket, lastSequence, isFailsafeActive,
                 latestState, elapsed>>

ProcessPacket(p) == AcceptFirst(p) \/ AcceptNewer(p) \/ DropStale(p)

\* When checkFailsafe returns true; otherwise it changes nothing.
FailsafeDue ==
  /\ hasReceivedFirstPacket
  /\ elapsed > FailsafeTimeout
  /\ ~ isFailsafeActive

ReleaseInput ==
  /\ latestState' = Neutralised(latestState)
  /\ isFailsafeActive' = TRUE

CheckFailsafe ==
  /\ FailsafeDue
  /\ ReleaseInput
  /\ UNCHANGED <<hasReceivedFirstPacket, lastSequence, elapsed, stats>>

\* Public, but no code calls it: a part of the class's own specification only.
ResetToNeutral ==
  /\ ReleaseInput
  /\ UNCHANGED <<hasReceivedFirstPacket, lastSequence, elapsed, stats>>

\* The steady clock moves on.
TimePasses == elapsed' = IF elapsed < MaxElapsed THEN elapsed + 1 ELSE elapsed

Tick ==
  /\ TimePasses
  /\ UNCHANGED <<hasReceivedFirstPacket, lastSequence, isFailsafeActive,
                 latestState, stats>>

ProcessorNext ==
  \/ \E p \in ControllerState : ProcessPacket(p)
  \/ CheckFailsafe
  \/ ResetToNeutral
  \/ Tick

ProcessorSpec == ProcessorInit /\ [][ProcessorNext]_processorVars

-----------------------------------------------------------------------------
StatisticsType ==
  [ packetsReceived : Counter, packetsLost : Counter,
    packetsOutOfOrder : Counter, packetsPerSec : Counter,
    secCounter : Counter, lastSequence : Sequence,
    controllerUpdates : Counter, gamepadErrors : Counter ]

\* The types of the fields of ControllerProcessor and Statistics.
ProcessorTypeOK ==
  /\ hasReceivedFirstPacket \in BOOLEAN
  /\ lastSequence \in Sequence
  /\ isFailsafeActive \in BOOLEAN
  /\ latestState \in ControllerState
  /\ elapsed \in 0 .. MaxElapsed
  /\ stats \in StatisticsType

\* While the failsafe flag is set the latest state is neutral.  The watchdog
\* is silent as long as the flag is set, so a held input under a set flag
\* would never be released (checkFailsafe and the two accepting paths of
\* processPacket write the flag and the state apart).
FailsafeMeansNeutral == isFailsafeActive => latestState.input = Neutral

\* The sequence number is stored three times, by three statements on each of
\* two paths: for the next comparison, in the latest state and for display.
\* The three copies agree after every call.
SequenceCopiesAgree ==
  hasReceivedFirstPacket =>
    /\ latestState.sequence = lastSequence
    /\ stats.lastSequence = lastSequence

\* Once the watchdog released an input, only a packet newer than the last
\* accepted one ends the failsafe: a late or duplicated packet of the silent
\* client never brings the held input back.
StalePacketNeverRevives ==
  [][ (hasReceivedFirstPacket /\ isFailsafeActive /\ ~ isFailsafeActive')
        => SeqDiff(lastSequence', lastSequence) \in 1 .. HalfModulus - 1 ]_processorVars
=============================================================================

---------------------- MODULE ConnectionManagerProofs ----------------------
(***************************************************************************)
(* Theorems about the receiver thread, for every timeout, width and set of *)
(* inputs and clients.  First UdpReceiver on its own, where start() and    *)
(* stop() may be called in any order, start() on a receiver that runs      *)
(* included; then ConnectionManager, which adds the steps of the class     *)
(* around it to the lemmas about the receiver's own actions.               *)
(***************************************************************************)
EXTENDS ConnectionManager, ControllerProcessorProofs

USE DEF ThreadGoto, OwnerGoto, receiverVars, threadVars, ownerVars

-----------------------------------------------------------------------------
(* Types.                                                                  *)

\* The types of what the thread handles.  Only a controller state is processed.
Typed ==
  /\ ProcessorTypeOK
  /\ pad \in PadType
  /\ clientIp \in Clients \cup {NoIp}
  /\ datagram \in Datagrams \cup {Nothing}
  /\ thread \in {"process", "update"} =>
       datagram.type = "state" /\ datagram.content \in ControllerState
  /\ waited \in 0 .. RecvTimeout

LEMMA TypedInit == Init => Typed
<1>1. 0 \in 0 .. RecvTimeout
  BY ReceiverAssumption
<1>2. [plugged |-> TRUE, report |-> Neutral, refused |-> {}] \in PadType
  BY StateAssumption DEF PadType
<1>. QED
  BY <1>1, <1>2, ProcessorInitType DEF Init, ReceiverInit, PadInit, Typed

\* The gamepad after a report that is either taken or turned down.
LEMMA PadSendType ==
  ASSUME pad \in PadType, NEW call \in {"update", "reset"}, NEW i \in Inputs,
         NEW ok, PadSend(call, i, ok)
  PROVE  pad' \in PadType /\ pad'.plugged = pad.plugged
<1>1. CASE ok
  BY <1>1 DEF PadSend, PadType
<1>2. CASE ~ ok
  BY <1>2 DEF PadSend, PadType
<1>. QED
  BY <1>1, <1>2

LEMMA PadUpdateType ==
  ASSUME pad \in PadType, NEW i \in Inputs, NEW ok, PadUpdate(i, ok)
  PROVE  pad' \in PadType /\ pad'.plugged = pad.plugged
BY PadSendType DEF PadUpdate

LEMMA PadResetType ==
  ASSUME pad \in PadType, PadReset
  PROVE  pad' \in PadType /\ pad'.plugged = pad.plugged
BY PadSendType, StateAssumption DEF PadReset

\* What an unplugged gamepad shows is what it showed, or nothing held.
LEMMA PadDisconnectType ==
  ASSUME pad \in PadType, PadDisconnect
  PROVE  /\ pad' \in PadType
         /\ pad'.report \in {pad.report, Neutral} /\ pad'.refused = pad.refused
BY StateAssumption DEF PadDisconnect, PadType

LEMMA DatagramContent ==
  ASSUME NEW d \in Datagrams \cup {Nothing}, d.type = "state"
  PROVE  d.from \in Clients /\ d.content \in ControllerState
BY DEF Datagrams, Nothing

LEMMA DatagramSender ==
  ASSUME NEW d \in Datagrams \cup {Nothing}, d.type = "hello"
  PROVE  d.from \in Clients
BY DEF Datagrams, Nothing

LEMMA StatsChangeType ==
  ASSUME ProcessorTypeOK, stats' \in StatisticsType,
         UNCHANGED <<hasReceivedFirstPacket, lastSequence, isFailsafeActive,
                     latestState, elapsed>>
  PROVE  ProcessorTypeOK'
BY DEF ProcessorTypeOK

LEMMA TypedThread ==
  ASSUME Typed, ThreadNext
  PROVE  Typed'
<1>0. /\ stats \in StatisticsType
      /\ TickOneSecond(stats) \in StatisticsType
      /\ OnControllerUpdated(stats) \in StatisticsType
      /\ OnGamepadError(stats) \in StatisticsType
  BY StatisticsStepType DEF Typed, ProcessorTypeOK
<1>1. CASE CheckRunning
  BY <1>1, ReceiverAssumption DEF CheckRunning, Typed, ProcessorTypeOK, processorVars
<1>2. CASE Receive
  BY <1>2 DEF Receive, Typed, ProcessorTypeOK, processorVars
<1>3. CASE WatchdogFires
  <2>1. stats' \in StatisticsType
    BY <1>0, <1>3 DEF WatchdogFires
  <2>2. latestState' \in ControllerState /\ isFailsafeActive' \in BOOLEAN
    BY <1>3, ReleaseInputType DEF WatchdogFires, Typed
  <2>3. ProcessorTypeOK'
    BY <1>3, <2>1, <2>2 DEF WatchdogFires, Typed, ProcessorTypeOK
  <2>. QED
    BY <1>3, <2>3 DEF WatchdogFires, Typed
<1>4. CASE WatchdogSilent
  <2>1. ProcessorTypeOK'
    BY <1>0, <1>4, StatsChangeType DEF WatchdogSilent, Typed
  <2>. QED
    BY <1>4, <2>1 DEF WatchdogSilent, Typed
<1>5. CASE ReleasePad
  BY <1>5, PadResetType DEF ReleasePad, Typed, ProcessorTypeOK, processorVars
<1>6. CASE ListenAgain
  BY <1>6 DEF ListenAgain, Typed, ProcessorTypeOK, processorVars
<1>7. CASE NothingToDo
  BY <1>7 DEF NothingToDo, Typed, ProcessorTypeOK, processorVars
<1>8. CASE NoteClient
  BY <1>8, DatagramContent, DatagramSender
  DEF NoteClient, Typed, ProcessorTypeOK, processorVars
<1>9. CASE Connect
  BY <1>9, DatagramContent DEF Connect, Typed, ProcessorTypeOK, processorVars
<1>10. CASE Process
  <2>1. ProcessorTypeOK'
    BY <1>10, ProcessPacketType DEF Process, Typed
  <2>. QED
    BY <1>10, <2>1 DEF Process, Typed
<1>11. CASE UpdatePad
  <2>1. ProcessorTypeOK'
    BY <1>0, <1>11, StatsChangeType DEF UpdatePad, Typed
  <2>2. datagram.content.input \in Inputs
    BY <1>11 DEF UpdatePad, Typed, ControllerState
  <2>3. pad' \in PadType
    BY <1>11, <2>2, PadUpdateType DEF UpdatePad, Typed
  <2>. QED
    BY <1>11, <2>1, <2>3 DEF UpdatePad, Typed
<1>. QED
  BY <1>1, <1>2, <1>3, <1>4, <1>5, <1>6, <1>7, <1>8, <1>9, <1>10, <1>11
  DEF ThreadNext

LEMMA TypedOwner ==
  ASSUME Typed, ReceiverOwnerNext \/ Sleep
  PROVE  Typed'
<1> USE DEF Typed, ProcessorTypeOK, processorVars
<1>1. CASE ReceiverOwnerNext
  BY <1>1 DEF ReceiverOwnerNext, Exchange, CloseSocket, Join, Cleanup,
              Opens, OpenFails, Startup, CreateSocket, Bind, StartupFails,
              CreateSocketFails, BindFails
<1>2. CASE Sleep
  <2>1. elapsed' \in 0 .. MaxElapsed
    BY <1>2, TimePassesType DEF Sleep
  <2>2. waited' \in 0 .. RecvTimeout
    BY <1>2, ReceiverAssumption DEF Sleep, ThreadSleeps
  <2>. QED
    BY <1>2, <2>1, <2>2 DEF Sleep
<1>. QED
  BY <1>1, <1>2

\* Every behaviour of the receiver, without the fairness of its threads.
LEMMA SpecIsSafe == Spec => Init /\ [][Next]_vars
BY PTL DEF Spec

THEOREM TypedAlways == Spec => []Typed
<1>1. Typed /\ [Next]_vars => Typed'
  <2> SUFFICES ASSUME Typed, [Next]_vars PROVE Typed'
    OBVIOUS
  <2>1. CASE Call \/ Return \/ UNCHANGED vars
    BY <2>1 DEF Call, Return, vars, Typed, ProcessorTypeOK, processorVars
  <2>. QED
    BY <2>1, TypedThread, TypedOwner DEF Next
<1>. QED
  BY <1>1, TypedInit, SpecIsSafe, PTL

-----------------------------------------------------------------------------
(* The protocol between the owner and the receiver thread.                 *)

\* The owner is inside the part of stop() that ends a running receiver.
Stopping == owner \in {"close", "join", "cleanup"}

\* The owner is in start(), and WSAStartup has succeeded.
Opening == owner \in {"socket", "bind"}

\* Who has what, by where the owner and the thread are: RunsAllOrNothing for
\* every point of a call, and between the threads that a thread which left its
\* loop was told to by stop().
Shared ==
  /\ thread \in ThreadPoints
  /\ request \in {"start", "stop"}
  /\ running \in BOOLEAN
  /\ socketOpen \in BOOLEAN
  /\ Opening => request = "start"
  /\ running => ~ Stopping /\ ~ Opening /\ owner # "stopped"
  /\ state \in {"Stopped", "Listening", "Connected", "Error"}
  /\ state \in {"Listening", "Connected"} <=> (running \/ Stopping)
  /\ wsaRefs = IF running \/ Stopping \/ Opening THEN 1 ELSE 0
  /\ socketOpen <=> (running \/ owner \in {"close", "bind"})
  /\ thread # "none" <=> (running \/ owner \in {"close", "join"})
  /\ thread = "exited" => ~ running

LEMMA SharedInit == Init => Shared
BY DEF Init, ReceiverInit, Shared, Stopping, Opening, ThreadPoints

\* The thread never changes who has what; of the state it only tells
\* connected from listening.
LEMMA ThreadKeeps ==
  ASSUME ThreadNext
  PROVE  /\ UNCHANGED <<running, socketOpen, wsaRefs, owner, request>>
         /\ thread # "none" /\ thread' \in ThreadPoints \ {"none"}
         /\ thread' = "exited" => ~ running
BY DEF ThreadNext, ThreadPoints, CheckRunning, Receive, WatchdogFires,
       WatchdogSilent, ReleasePad, ListenAgain, NothingToDo, NoteClient, Connect,
       Process, UpdatePad

LEMMA ThreadWrites ==
  ASSUME ThreadNext
  PROVE  \/ UNCHANGED state
         \/ state = "Connected" /\ state' = "Listening"
         \/ state' = "Connected"
BY DEF ThreadNext, CheckRunning, Receive, WatchdogFires, WatchdogSilent,
       ReleasePad, ListenAgain, NothingToDo, NoteClient, Connect, Process, UpdatePad

LEMMA SharedThread ==
  ASSUME Shared, ThreadNext
  PROVE  Shared'
BY ThreadKeeps, ThreadWrites DEF Shared, Stopping, Opening

LEMMA SharedOwner ==
  ASSUME Shared, ReceiverOwnerNext \/ Sleep
  PROVE  Shared'
<1> USE DEF Shared, Stopping, Opening, ThreadPoints
<1>1. CASE Exchange
  BY <1>1 DEF Exchange
<1>2. CASE CloseSocket
  BY <1>2 DEF CloseSocket
<1>3. CASE Join
  BY <1>3 DEF Join
<1>4. CASE Cleanup
  BY <1>4 DEF Cleanup
<1>5. CASE Opens
  <2>1. CASE Startup
    BY <2>1 DEF Startup
  <2>2. CASE CreateSocket
    BY <2>2 DEF CreateSocket
  <2>3. CASE Bind
    BY <2>3 DEF Bind
  <2>. QED
    BY <1>5, <2>1, <2>2, <2>3 DEF Opens
<1>6. CASE OpenFails
  <2>1. CASE StartupFails
    BY <2>1 DEF StartupFails
  <2>2. CASE CreateSocketFails
    BY <2>2 DEF CreateSocketFails
  <2>3. CASE BindFails
    <3>1. owner = "bind" /\ ~ running /\ wsaRefs = 1 /\ thread = "none"
      BY <2>3 DEF BindFails
    <3>. QED
      BY <2>3, <3>1, 1 - 1 = 0 DEF BindFails
  <2>. QED
    BY <1>6, <2>1, <2>2, <2>3 DEF OpenFails
<1>7. CASE Sleep
  BY <1>7 DEF Sleep
<1>. QED
  BY <1>1, <1>2, <1>3, <1>4, <1>5, <1>6, <1>7 DEF ReceiverOwnerNext

THEOREM SharedAlways == Spec => []Shared
<1>1. Shared /\ [Next]_vars => Shared'
  <2> SUFFICES ASSUME Shared, [Next]_vars PROVE Shared'
    OBVIOUS
  <2>1. CASE Call \/ Return \/ UNCHANGED vars
    BY <2>1 DEF Call, Return, vars, Shared, Stopping, Opening, ThreadPoints
  <2>. QED
    BY <2>1, SharedThread, SharedOwner DEF Next
<1>. QED
  BY <1>1, SharedInit, SpecIsSafe, PTL

\* Types of everything the two threads share, and no WSAStartup is matched
\* twice.
THEOREM ReceiverTypeCorrect == Spec => []ReceiverTypeOK
<1>1. Typed /\ Shared => ReceiverTypeOK
  BY DEF Typed, Shared, ReceiverTypeOK
<1>. QED
  BY <1>1, TypedAlways, SharedAlways, PTL

\* Whatever was called before, on a running, stopped or failed receiver: when
\* a call has returned the receiver runs entirely or not at all.
THEOREM StartAndStopAreComplete == Spec => []RunsAllOrNothing
<1>1. Shared => RunsAllOrNothing
  BY DEF Shared, Stopping, Opening, RunsAllOrNothing
<1>. QED
  BY <1>1, SharedAlways, PTL

-----------------------------------------------------------------------------
(* Refinement of ReceiverStates.  The thread only writes m_state while it  *)
(* lives, and Shared says that then the receiver runs or its stop() is     *)
(* under way, so that its writes are Traffic; Cleanup is Close, and start()*)
(* ends in Open from a receiver that does not run.                         *)

LEMMA StatesOfThread ==
  ASSUME Shared, ThreadNext
  PROVE  States!Traffic \/ UNCHANGED state
BY ThreadKeeps, ThreadWrites DEF Shared, Stopping, Opening, States!Traffic, States!Running

LEMMA StatesOfOwner ==
  ASSUME Shared, ReceiverOwnerNext \/ Sleep
  PROVE  States!Open \/ States!Close \/ UNCHANGED state
<1>1. CASE Cleanup
  BY <1>1 DEF Cleanup, Shared, Stopping, Opening, States!Close, States!Running
<1>2. CASE Bind \/ OpenFails
  BY <1>2 DEF Bind, OpenFails, StartupFails, CreateSocketFails, BindFails, Shared,
              Stopping, Opening, States!Open, States!Opened, States!Running
<1>3. CASE ~ Cleanup /\ ~ Bind /\ ~ OpenFails
  BY <1>3 DEF ReceiverOwnerNext, Exchange, CloseSocket, Join, Opens, Startup,
              CreateSocket, Sleep
<1>. QED
  BY <1>1, <1>2, <1>3

\* The receiver on its own implements ReceiverStates, also when start() is
\* called while it runs.
THEOREM ReceiverImplementsStates == Spec => StatesInOrder
<1>1. Init => States!Init
  BY DEF Init, ReceiverInit, States!Init
<1>2. Shared /\ [Next]_vars => [States!Next]_state
  <2> SUFFICES ASSUME Shared, [Next]_vars PROVE [States!Next]_state
    OBVIOUS
  <2>1. CASE Call \/ Return \/ UNCHANGED vars
    BY <2>1 DEF Call, Return, vars
  <2>. QED
    BY <2>1, StatesOfThread, StatesOfOwner DEF Next, States!Next
<1>. QED
  BY <1>1, <1>2, SharedAlways, SpecIsSafe, PTL DEF StatesInOrder, States!Spec

-----------------------------------------------------------------------------
(* The processor behind two threads.  All that is called of it are its own *)
(* steps; the receiver adds writes to the counters that it shares with it. *)

\* What FailsafeMeansNeutral, SequenceCopiesAgree and the failsafe's end see.
processorView == <<hasReceivedFirstPacket, lastSequence, isFailsafeActive,
                   latestState, stats.lastSequence>>

LEMMA CountingKeepsSequence ==
  ASSUME NEW s \in StatisticsType
  PROVE  /\ TickOneSecond(s).lastSequence = s.lastSequence
         /\ OnControllerUpdated(s).lastSequence = s.lastSequence
         /\ OnGamepadError(s).lastSequence = s.lastSequence
BY DEF TickOneSecond, OnControllerUpdated, OnGamepadError, StatisticsType

\* A step of the receiver is a call of the processor, at most with a tick of
\* the rate counter, or none of its business.
LEMMA ProcessorCalls ==
  ASSUME Typed, ThreadNext \/ ReceiverOwnerNext \/ Sleep
  PROVE  \/ \E p \in ControllerState : ProcessPacket(p)
         \/ /\ FailsafeDue /\ ReleaseInput
            /\ UNCHANGED <<hasReceivedFirstPacket, lastSequence, stats.lastSequence>>
         \/ UNCHANGED processorView
<1> USE DEF processorView
<1>0. stats \in StatisticsType
  BY DEF Typed, ProcessorTypeOK
<1>1. CASE Process
  BY <1>1 DEF Process, Typed
<1>2. CASE WatchdogFires
  BY <1>0, <1>2, CountingKeepsSequence DEF WatchdogFires, FailsafeFires
<1>3. CASE WatchdogSilent \/ UpdatePad
  BY <1>0, <1>3, CountingKeepsSequence DEF WatchdogSilent, UpdatePad
<1>4. CASE CheckRunning \/ Receive \/ ReleasePad \/ ListenAgain \/ NothingToDo
             \/ NoteClient \/ Connect
  BY <1>4 DEF CheckRunning, Receive, ReleasePad, ListenAgain, NothingToDo,
              NoteClient, Connect, processorVars
<1>5. CASE ReceiverOwnerNext \/ Sleep
  BY <1>5 DEF ReceiverOwnerNext, Exchange, CloseSocket, Join, Cleanup,
              Opens, OpenFails, Startup, CreateSocket, Bind, StartupFails,
              CreateSocketFails, BindFails, Sleep, processorVars
<1>. QED
  BY <1>1, <1>2, <1>3, <1>4, <1>5 DEF ThreadNext

ProcessorInv == FailsafeMeansNeutral /\ SequenceCopiesAgree

LEMMA ProcessorInvInit == Init => ProcessorInv
BY DEF Init, ProcessorInit, ProcessorInv, FailsafeMeansNeutral, SequenceCopiesAgree

LEMMA ProcessorInvUnseen ==
  ASSUME ProcessorInv, UNCHANGED processorView
  PROVE  ProcessorInv'
BY DEF processorView, ProcessorInv, FailsafeMeansNeutral, SequenceCopiesAgree

LEMMA ProcessorInvStep ==
  ASSUME Typed, ProcessorInv, ThreadNext \/ ReceiverOwnerNext \/ Sleep
  PROVE  ProcessorInv'
<1>1. CASE \E p \in ControllerState : ProcessPacket(p)
  <2>1. ProcessorNext
    BY <1>1 DEF ProcessorNext
  <2>. QED
    BY <2>1, FailsafeStep, SequenceCopiesStep DEF ProcessorInv, Typed
<1>2. CASE ReleaseInput
             /\ UNCHANGED <<hasReceivedFirstPacket, lastSequence, stats.lastSequence>>
  BY <1>2 DEF ReleaseInput, Neutralised, ProcessorInv, FailsafeMeansNeutral,
              SequenceCopiesAgree, Typed, ProcessorTypeOK, ControllerState
<1>. QED
  BY <1>1, <1>2, ProcessorInvUnseen, ProcessorCalls

THEOREM ProcessorInvAlways == Spec => []ProcessorInv
<1>1. Typed /\ ProcessorInv /\ [Next]_vars => ProcessorInv'
  <2> SUFFICES ASSUME Typed, ProcessorInv, [Next]_vars PROVE ProcessorInv'
    OBVIOUS
  <2>1. CASE Call \/ Return \/ UNCHANGED vars
    BY <2>1, ProcessorInvUnseen DEF Call, Return, vars, processorVars, processorView
  <2>. QED
    BY <2>1, ProcessorInvStep DEF Next
<1>. QED
  BY <1>1, ProcessorInvInit, TypedAlways, SpecIsSafe, PTL

\* The flag that silences the watchdog is only set while nothing is held, with
\* the owner and the receiver thread at any points of their calls.
THEOREM ThreadedFailsafeIsNeutral == Spec => []FailsafeMeansNeutral
<1>1. ProcessorInv => FailsafeMeansNeutral
  BY DEF ProcessorInv
<1>. QED
  BY <1>1, ProcessorInvAlways, PTL

\* The three copies of the sequence number agree at every point of both threads.
THEOREM ThreadedSequenceCopiesAgree == Spec => []SequenceCopiesAgree
<1>1. ProcessorInv => SequenceCopiesAgree
  BY DEF ProcessorInv
<1>. QED
  BY <1>1, ProcessorInvAlways, PTL

\* A step that ends the failsafe has accepted a newer packet.
LEMMA FailsafeEndsInThread ==
  ASSUME Typed, ThreadNext \/ ReceiverOwnerNext \/ Sleep,
         hasReceivedFirstPacket, isFailsafeActive, ~ isFailsafeActive'
  PROVE  SeqDiff(lastSequence', lastSequence) \in 1 .. HalfModulus - 1
<1>1. ASSUME NEW p \in ControllerState, ProcessPacket(p)
      PROVE  SeqDiff(lastSequence', lastSequence) \in 1 .. HalfModulus - 1
  BY <1>1, FailsafeEndsWithNewer DEF ProcessorNext, Typed
<1>. QED
  BY <1>1, ProcessorCalls DEF processorView, ReleaseInput

\* No order of calls makes a packet that is not newer end the failsafe: neither
\* stop() nor start() resets what the comparison looks at.
THEOREM ThreadedStaleNeverRevives == Spec => StalePacketNeverRevives
<1> DEFINE Step == (hasReceivedFirstPacket /\ isFailsafeActive /\ ~ isFailsafeActive')
                     => SeqDiff(lastSequence', lastSequence) \in 1 .. HalfModulus - 1
<1>1. Typed /\ [Next]_vars => [Step]_processorVars
  <2> SUFFICES ASSUME Typed, [Next]_vars PROVE [Step]_processorVars
    OBVIOUS
  <2>1. CASE Call \/ Return \/ UNCHANGED vars
    BY <2>1 DEF Call, Return, vars
  <2>. QED
    BY <2>1, FailsafeEndsInThread DEF Next
<1>. QED
  BY <1>1, TypedAlways, SpecIsSafe, PTL DEF StalePacketNeverRevives

-----------------------------------------------------------------------------
(* What the user interface reads without a lock.                           *)

ClientInv ==
  /\ ConnectedHasClient
  /\ thread = "connect" => clientIp # NoIp

LEMMA ClientInit == Init => ClientInv
BY DEF Init, ReceiverInit, ClientInv, ConnectedHasClient

LEMMA ClientThread ==
  ASSUME Typed, ClientInv, ThreadNext
  PROVE  ClientInv'
<1> USE DEF ClientInv, ConnectedHasClient
<1>1. CASE NoteClient
  <2>1. clientIp' \in Clients
    BY <1>1, DatagramContent, DatagramSender DEF NoteClient, Typed
  <2>. QED
    BY <1>1, <2>1, ReceiverAssumption DEF NoteClient
<1>2. CASE ~ NoteClient
  BY <1>2 DEF ThreadNext, CheckRunning, Receive, WatchdogFires, WatchdogSilent,
     ReleasePad, ListenAgain, NothingToDo, Connect, Process, UpdatePad
<1>. QED
  BY <1>1, <1>2

LEMMA ClientOwner ==
  ASSUME ClientInv, ReceiverOwnerNext \/ Sleep
  PROVE  ClientInv'
BY DEF ClientInv, ConnectedHasClient, ReceiverOwnerNext, Exchange, CloseSocket,
       Join, Cleanup, Opens, OpenFails, Startup, CreateSocket, Bind,
       StartupFails, CreateSocketFails, BindFails, Sleep

\* The address is there before the state that shows it, also after a stop() or
\* a start() that interrupted the thread between the two.
THEOREM ConnectedKnowsClient == Spec => []ConnectedHasClient
<1>1. Typed /\ ClientInv /\ [Next]_vars => ClientInv'
  <2> SUFFICES ASSUME Typed, ClientInv, [Next]_vars PROVE ClientInv'
    OBVIOUS
  <2>1. CASE Call \/ Return \/ UNCHANGED vars
    BY <2>1 DEF Call, Return, vars, ClientInv, ConnectedHasClient
  <2>. QED
    BY <2>1, ClientThread, ClientOwner DEF Next
<1>2. ClientInv => ConnectedHasClient
  BY DEF ClientInv
<1>. QED
  BY <1>1, <1>2, ClientInit, TypedAlways, SpecIsSafe, PTL

\* The order of the increments does not matter, and adding none is no change.
LEMMA CountUpCommutes ==
  ASSUME NEW u \in Counter, NEW e \in Counter
  PROVE  /\ CountUp(CountUp(CountUp(u, 1), e), 0) = CountUp(CountUp(u, e), 1)
         /\ CountUp(CountUp(u, CountUp(e, 1)), 0) = CountUp(CountUp(u, e), 1)
         /\ CountUp(CountUp(CountUp(u, e), 0), 1) = CountUp(CountUp(u, e), 1)
BY CounterModulusAssumption DEF CountUp, Counter

\* The three counters that AcceptedStatesReachGamepad relates.
LEMMA CountsOf ==
  ASSUME NEW s \in StatisticsType, NEW q, NEW n \in Int
  PROVE  /\ OnPacketReceived(OnPacketDropped(s, n), q).packetsReceived
                = CountUp(s.packetsReceived, 1)
         /\ OnPacketReceived(OnPacketDropped(s, n), q).controllerUpdates
                = s.controllerUpdates
         /\ OnPacketReceived(OnPacketDropped(s, n), q).gamepadErrors
                = s.gamepadErrors
BY DEF StatisticsType, OnPacketReceived, OnPacketDropped

LEMMA CountsUnchanged ==
  ASSUME AcceptedStatesReachGamepad,
         stats'.packetsReceived = stats.packetsReceived,
         stats'.controllerUpdates = stats.controllerUpdates,
         stats'.gamepadErrors = stats.gamepadErrors,
         (thread' = "update") <=> (thread = "update")
  PROVE  AcceptedStatesReachGamepad'
BY DEF AcceptedStatesReachGamepad

LEMMA CountsInit == Init => AcceptedStatesReachGamepad
BY CounterModulusAssumption
DEF Init, ProcessorInit, ReceiverInit, StatisticsInit, CountUp,
    AcceptedStatesReachGamepad

LEMMA CountsThread ==
  ASSUME Typed, AcceptedStatesReachGamepad, ThreadNext
  PROVE  AcceptedStatesReachGamepad'
<1>0. /\ stats \in StatisticsType
      /\ stats.packetsReceived \in Counter
      /\ stats.controllerUpdates \in Counter
      /\ stats.gamepadErrors \in Counter
  BY DEF Typed, ProcessorTypeOK, StatisticsType
<1>1. CASE WatchdogFires \/ WatchdogSilent
  <2>1. /\ stats'.packetsReceived = stats.packetsReceived
        /\ stats'.controllerUpdates = stats.controllerUpdates
        /\ stats'.gamepadErrors = stats.gamepadErrors
    BY <1>0, <1>1
    DEF WatchdogFires, WatchdogSilent, TickOneSecond, StatisticsType
  <2>. QED
    BY <1>1, <2>1, CountsUnchanged DEF WatchdogFires, WatchdogSilent
<1>2. CASE Process
  <2>0. datagram.content.sequence \in Sequence
    BY <1>2 DEF Process, Typed, ControllerState
  <2>1. CASE AcceptFirst(datagram.content)
    <3>1. /\ stats'.packetsReceived = CountUp(stats.packetsReceived, 1)
          /\ stats'.controllerUpdates = stats.controllerUpdates
          /\ stats'.gamepadErrors = stats.gamepadErrors
      BY <1>0, <2>1 DEF AcceptFirst, OnPacketReceived, StatisticsType
    <3>2. thread = "process" /\ thread' = "update"
      BY <1>2, <2>1 DEF Process, AcceptFirst, Accepts
    <3>. QED
      BY <1>0, <3>1, <3>2, CountUpCommutes DEF AcceptedStatesReachGamepad
  <2>2. CASE AcceptNewer(datagram.content)
    <3>0. Gap(datagram.content) \in Int
      BY <2>0, SeqDiffType, StateAssumption DEF Gap, Typed, ProcessorTypeOK
    <3>1. /\ stats'.packetsReceived = CountUp(stats.packetsReceived, 1)
          /\ stats'.controllerUpdates = stats.controllerUpdates
          /\ stats'.gamepadErrors = stats.gamepadErrors
      BY <1>0, <2>2, <3>0, CountsOf DEF AcceptNewer
    <3>2. thread = "process" /\ thread' = "update"
      BY <1>2, <2>2 DEF Process, AcceptNewer, Accepts
    <3>. QED
      BY <1>0, <3>1, <3>2, CountUpCommutes DEF AcceptedStatesReachGamepad
  <2>3. CASE DropStale(datagram.content)
    <3>1. /\ stats'.packetsReceived = stats.packetsReceived
          /\ stats'.controllerUpdates = stats.controllerUpdates
          /\ stats'.gamepadErrors = stats.gamepadErrors
      BY <1>0, <2>3 DEF DropStale, OnPacketOutOfOrder, StatisticsType
    <3>2. thread = "process" /\ thread' = "check"
      BY <1>2, <2>3 DEF Process, DropStale, Accepts
    <3>. QED
      BY <3>1, <3>2, CountsUnchanged
  <2>. QED
    BY <1>2, <2>1, <2>2, <2>3 DEF Process, ProcessPacket
<1>3. CASE UpdatePad
  <2>1. stats'.packetsReceived = stats.packetsReceived
    BY <1>0, <1>3 DEF UpdatePad, OnControllerUpdated, OnGamepadError, StatisticsType
  <2>2. \/ /\ stats'.controllerUpdates = CountUp(stats.controllerUpdates, 1)
           /\ stats'.gamepadErrors = stats.gamepadErrors
        \/ /\ stats'.controllerUpdates = stats.controllerUpdates
           /\ stats'.gamepadErrors = CountUp(stats.gamepadErrors, 1)
    BY <1>0, <1>3 DEF UpdatePad, OnControllerUpdated, OnGamepadError, StatisticsType
  <2>3. thread = "update" /\ thread' = "check"
    BY <1>3 DEF UpdatePad
  <2>. QED
    BY <1>0, <2>1, <2>2, <2>3, CountUpCommutes DEF AcceptedStatesReachGamepad
<1>4. CASE CheckRunning \/ Receive \/ ReleasePad \/ ListenAgain
            \/ NothingToDo \/ NoteClient \/ Connect
  BY <1>4, CountsUnchanged
  DEF CheckRunning, Receive, ReleasePad, ListenAgain, NothingToDo, NoteClient,
      Connect, processorVars
<1>. QED
  BY <1>1, <1>2, <1>3, <1>4 DEF ThreadNext

LEMMA CountsOwner ==
  ASSUME Shared, AcceptedStatesReachGamepad, ReceiverOwnerNext \/ Sleep
  PROVE  AcceptedStatesReachGamepad'
BY CountsUnchanged
DEF Shared, Stopping, Opening, ReceiverOwnerNext, Exchange, CloseSocket, Join,
    Cleanup, Opens, OpenFails, Startup, CreateSocket, Bind, StartupFails,
    CreateSocketFails, BindFails, Sleep, processorVars

\* Every accepted state is counted again as an update or as an error, also
\* when the receiver is stopped or started again in between.
THEOREM AcceptedReachGamepad == Spec => []AcceptedStatesReachGamepad
<1>1. Typed /\ Shared /\ AcceptedStatesReachGamepad /\ [Next]_vars
        => AcceptedStatesReachGamepad'
  <2> SUFFICES ASSUME Typed, Shared, AcceptedStatesReachGamepad, [Next]_vars
               PROVE  AcceptedStatesReachGamepad'
    OBVIOUS
  <2>1. CASE Call \/ Return \/ UNCHANGED vars
    BY <2>1, CountsUnchanged DEF Call, Return, vars, processorVars
  <2>. QED
    BY <2>1, CountsThread, CountsOwner DEF Next
<1>. QED
  BY <1>1, CountsInit, TypedAlways, SharedAlways, SpecIsSafe, PTL

-----------------------------------------------------------------------------
(* ConnectionManager                                                       *)

\* The steps that are not the receiver's: the calls, and what they do with the
\* gamepad.
Surroundings == PlugPad \/ ResetPad \/ UnplugPad \/ Start \/ Stop

LEMMA ManagerSteps ==
  ASSUME [ManagerNext]_vars
  PROVE  \/ ThreadNext
         \/ ReceiverOwnerNext \/ Sleep
         \/ Surroundings
         \/ UNCHANGED vars
BY DEF ManagerNext, OwnerNext, Surroundings

-----------------------------------------------------------------------------
(* Types, and the protocol between the owner and the receiver thread.      *)

LEMMA TypedSurroundings ==
  ASSUME Typed, Surroundings \/ UNCHANGED vars
  PROVE  Typed'
<1> USE DEF Typed, ProcessorTypeOK, processorVars
<1>0. CASE PlugPad
  BY <1>0 DEF PlugPad, PadConnect, PadType
<1>1. CASE UnplugPad
  BY <1>1, PadDisconnectType DEF UnplugPad
<1>2. CASE ResetPad
  BY <1>2, PadResetType DEF ResetPad
<1>3. CASE Start \/ Stop \/ UNCHANGED vars
  BY <1>3 DEF Start, Stop, vars
<1>. QED
  BY <1>0, <1>1, <1>2, <1>3 DEF Surroundings

THEOREM TypedHolds == ManagerSpec => []Typed
<1>1. Typed /\ [ManagerNext]_vars => Typed'
  BY ManagerSteps, TypedThread, TypedOwner, TypedSurroundings
<1>. QED
  BY <1>1, TypedInit, PTL DEF ManagerSpec

\* RunsAllOrNothing and ThreadHasGamepad for every point of a call: what the
\* receiver keeps by itself, that start() is only called on a stopped receiver,
\* and that the gamepad is plugged in from before the thread is spawned until
\* after it was joined.
Protocol ==
  /\ Shared
  /\ owner \in OwnerPoints
  /\ running => owner \in {"idle", "stop"}
  /\ (owner = "stop" /\ request = "start") => ~ running
  /\ owner = "plug" => request = "start"
  /\ (Stopping \/ owner = "unplug") => request = "stop"
  /\ thread # "none" => pad.plugged
  /\ (owner \in {"stop", "stopped", "socket", "bind"} /\ request = "start")
       => pad.plugged

LEMMA ProtocolInit == Init => Protocol
BY SharedInit DEF Init, ReceiverInit, PadInit, Protocol, Stopping, Opening, OwnerPoints

\* The thread leaves the gamepad plugged in or not, as it was.
LEMMA ThreadLeavesPlugged ==
  ASSUME Typed, ThreadNext
  PROVE  pad'.plugged = pad.plugged
<1>1. CASE ReleasePad
  BY <1>1, PadResetType DEF ReleasePad, Typed
<1>2. CASE UpdatePad
  <2>1. datagram.content.input \in Inputs
    BY <1>2 DEF UpdatePad, Typed, ControllerState
  <2>. QED
    BY <1>2, <2>1, PadUpdateType DEF UpdatePad, Typed
<1>3. CASE ~ ReleasePad /\ ~ UpdatePad
  BY <1>3 DEF ThreadNext, CheckRunning, Receive, WatchdogFires, WatchdogSilent,
     ListenAgain, NothingToDo, NoteClient, Connect, Process
<1>. QED
  BY <1>1, <1>2, <1>3

LEMMA ProtocolThread ==
  ASSUME Typed, Protocol, ThreadNext
  PROVE  Protocol'
<1>1. Shared'
  BY SharedThread DEF Protocol
<1>. QED
  BY <1>1, ThreadKeeps, ThreadLeavesPlugged DEF Protocol, Stopping, Opening

LEMMA ProtocolOwner ==
  ASSUME Protocol, ReceiverOwnerNext \/ Sleep
  PROVE  Protocol'
<1>0. Shared'
  BY SharedOwner DEF Protocol
<1> USE <1>0 DEF Protocol, Stopping, Opening, OwnerPoints
<1>1. CASE Exchange
  BY <1>1 DEF Exchange, Shared
<1>2. CASE CloseSocket
  BY <1>2 DEF CloseSocket
<1>3. CASE Join
  BY <1>3 DEF Join
<1>4. CASE Cleanup
  BY <1>4 DEF Cleanup
<1>5. CASE Opens
  BY <1>5 DEF Shared, Opens, Startup, CreateSocket, Bind
<1>6. CASE OpenFails
  BY <1>6 DEF OpenFails, StartupFails, CreateSocketFails, BindFails
<1>7. CASE Sleep
  BY <1>7 DEF Sleep
<1>. QED
  BY <1>1, <1>2, <1>3, <1>4, <1>5, <1>6, <1>7 DEF ReceiverOwnerNext

LEMMA ProtocolSurroundings ==
  ASSUME Typed, Protocol, Surroundings \/ UNCHANGED vars
  PROVE  Protocol'
<1> USE DEF Protocol, Shared, Stopping, Opening, OwnerPoints
<1>1. CASE PlugPad
  BY <1>1 DEF PlugPad, PadConnect, PadType, Typed
<1>2. CASE ResetPad
  BY <1>2, PadResetType DEF ResetPad, Typed
<1>3. CASE UnplugPad
  BY <1>3 DEF UnplugPad
<1>4. CASE Start
  BY <1>4 DEF Start, StartAllowed
<1>5. CASE Stop
  BY <1>5 DEF Stop
<1>6. CASE UNCHANGED vars
  BY <1>6 DEF vars
<1>. QED
  BY <1>1, <1>2, <1>3, <1>4, <1>5, <1>6 DEF Surroundings

THEOREM ProtocolHolds == ManagerSpec => []Protocol
<1>1. Typed /\ Protocol /\ [ManagerNext]_vars => Protocol'
  BY ManagerSteps, ProtocolThread, ProtocolOwner, ProtocolSurroundings
<1>. QED
  BY <1>1, TypedHolds, ProtocolInit, PTL DEF ManagerSpec

-----------------------------------------------------------------------------
(* What follows from them.                                                 *)

\* Whatever the thread is doing when stop() is called, the user interface sees
\* the states of a receiver that is started, has traffic and is stopped.
THEOREM ImplementsReceiverStates == ManagerSpec => StatesInOrder
<1>1. Init => States!Init
  BY DEF Init, ReceiverInit, States!Init
<1>2. Protocol /\ [ManagerNext]_vars => [States!Next]_state
  <2> SUFFICES ASSUME Protocol, [ManagerNext]_vars PROVE [States!Next]_state
    OBVIOUS
  <2>1. CASE Surroundings \/ UNCHANGED vars
    BY <2>1 DEF Surroundings, PlugPad, ResetPad, UnplugPad, Start, Stop, vars
  <2>. QED
    BY <2>1, ManagerSteps, StatesOfThread, StatesOfOwner
    DEF Protocol, States!Next
<1>. QED
  BY <1>1, <1>2, ProtocolHolds, PTL DEF ManagerSpec, StatesInOrder, States!Spec

\* The receiver runs entirely or not at all, whatever path start() and stop()
\* took.
THEOREM ReceiverRunsAllOrNothing == ManagerSpec => []RunsAllOrNothing
<1>1. Protocol => RunsAllOrNothing
  BY DEF Protocol, Shared, Stopping, Opening, RunsAllOrNothing
<1>. QED
  BY <1>1, ProtocolHolds, PTL

\* The thread never meets a gamepad that was disconnected, nor one that its
\* owner is calling.
THEOREM ReceiverThreadHasGamepad == ManagerSpec => []ThreadHasGamepad
<1>1. Protocol => ThreadHasGamepad
  BY DEF Protocol, Shared, Stopping, Opening, ThreadHasGamepad, OwnerCallsPad
<1>. QED
  BY <1>1, ProtocolHolds, PTL

\* Every variable has its type.
THEOREM ManagerTypeCorrect == ManagerSpec => []ManagerTypeOK
<1>1. Typed /\ Protocol => ManagerTypeOK
  BY DEF Typed, Protocol, Shared, Stopping, Opening, ManagerTypeOK, ReceiverTypeOK
<1>. QED
  BY <1>1, TypedHolds, ProtocolHolds, PTL

-----------------------------------------------------------------------------
(* How long a game may see held controls.                                  *)

\* Points of the thread at which some time may have passed since the
\* watchdog last looked.
Unwatched == thread \in {"recv", "watchdog", "release"}

HeldInv ==
  /\ FailsafeMeansNeutral
  /\ thread = "update" =>
       /\ latestState = datagram.content
       /\ hasReceivedFirstPacket /\ ~ isFailsafeActive
       /\ elapsed = 0
  /\ PadShowsLatestState
  /\ (Held /\ "reset" \notin pad.refused) =>
       /\ thread # "release" => ~ isFailsafeActive /\ hasReceivedFirstPacket
       /\ thread # "none" =>
            elapsed <= FailsafeTimeout + (IF Unwatched THEN waited ELSE 0)
       /\ thread = "none" => owner \in {"cleanup", "stopped"} /\ request = "stop"

LEMMA HeldInit == Init => HeldInv
BY DEF Init, ProcessorInit, PadInit, ReceiverInit, Held, HeldInv, FailsafeMeansNeutral,
       PadShowsLatestState

\* A report that the driver takes is on show; one that it turns down changes
\* nothing on show, and is remembered.
LEMMA PadSendShows ==
  ASSUME pad \in PadType, NEW call \in {"update", "reset"}, NEW i \in Inputs,
         NEW ok, PadSend(call, i, ok)
  PROVE  \/ pad'.report = i /\ pad'.refused = {}
         \/ pad'.report = pad.report /\ pad'.refused = pad.refused \cup {call}
<1>1. CASE ok
  BY <1>1 DEF PadSend, PadType
<1>2. CASE ~ ok
  BY <1>2 DEF PadSend, PadType
<1>. QED
  BY <1>1, <1>2

\* reset() releases everything, unless the driver turns it down.
LEMMA PadResetReleases ==
  ASSUME pad \in PadType, PadReset, Held'
  PROVE  "reset" \in pad'.refused
BY PadSendShows, StateAssumption DEF PadReset, Held

LEMMA HeldThread ==
  ASSUME Typed, Protocol, HeldInv, ThreadNext
  PROVE  HeldInv'
<1>0. /\ FailsafeTimeout \in Nat
      /\ elapsed \in Nat
      /\ waited \in Nat
  BY ProcessorAssumption, ReceiverAssumption DEF Typed, ProcessorTypeOK
<1> USE DEF HeldInv, Held, Unwatched, FailsafeMeansNeutral, PadShowsLatestState
<1>1. CASE CheckRunning
  BY <1>0, <1>1 DEF CheckRunning, processorVars
<1>2. CASE Receive
  BY <1>0, <1>2 DEF Receive, processorVars
<1>3. CASE WatchdogFires
  <2>1. latestState'.input = Neutral
    BY <1>3 DEF WatchdogFires, ReleaseInput, Neutralised, Typed,
                ProcessorTypeOK, ControllerState
  <2>. QED
    BY <1>0, <1>3, <2>1 DEF WatchdogFires
<1>4. CASE WatchdogSilent
  BY <1>0, <1>4 DEF WatchdogSilent, FailsafeFires, FailsafeDue
<1>5. CASE ReleasePad
  BY <1>0, <1>5, PadResetReleases DEF ReleasePad, processorVars, Typed
<1>6. CASE ListenAgain
  BY <1>0, <1>6 DEF ListenAgain, processorVars
<1>7. CASE NothingToDo
  BY <1>0, <1>7 DEF NothingToDo, processorVars
<1>8. CASE NoteClient
  BY <1>0, <1>8 DEF NoteClient, processorVars
<1>9. CASE Connect
  BY <1>0, <1>9 DEF Connect, processorVars
<1>10. CASE Process
  <2>1. CASE Accepts(datagram.content)
    <3>1. /\ latestState' = datagram.content
          /\ hasReceivedFirstPacket'
          /\ elapsed' = 0
          /\ ~ isFailsafeActive'
          /\ thread' = "update"
      BY <1>10, <2>1 DEF Process, ProcessPacket, AcceptFirst, AcceptNewer,
                         DropStale, Store, Accepts
    <3>. QED
      BY <1>0, <1>10, <3>1 DEF Process
  <2>2. CASE ~ Accepts(datagram.content)
    BY <1>0, <1>10, <2>2 DEF Process, ProcessPacket, AcceptFirst, AcceptNewer,
                             DropStale, Accepts
  <2>. QED
    BY <2>1, <2>2
<1>11. CASE UpdatePad
  <2>1. datagram.content.input \in Inputs
    BY <1>11 DEF UpdatePad, Typed, ControllerState
  <2>2. \/ pad'.report = datagram.content.input /\ pad'.refused = {}
        \/ pad'.report = pad.report /\ pad'.refused = pad.refused \cup {"update"}
    BY <1>11, <2>1, PadSendShows DEF UpdatePad, PadUpdate, Typed
  <2>. QED
    BY <1>0, <1>11, <2>2 DEF UpdatePad
<1>. QED
  BY <1>1, <1>2, <1>3, <1>4, <1>5, <1>6, <1>7, <1>8, <1>9, <1>10, <1>11
  DEF ThreadNext

LEMMA HeldOwner ==
  ASSUME Typed, Protocol, HeldInv,
         ReceiverOwnerNext \/ Sleep \/ Surroundings
  PROVE  HeldInv'
<1>0. /\ FailsafeTimeout \in Nat
      /\ elapsed \in Nat
      /\ waited \in Nat
  BY ProcessorAssumption, ReceiverAssumption DEF Typed, ProcessorTypeOK
<1> USE DEF HeldInv, Held, Unwatched, FailsafeMeansNeutral, PadShowsLatestState, processorVars
<1>1. CASE Exchange
  BY <1>0, <1>1 DEF Exchange
<1>2. CASE CloseSocket
  BY <1>0, <1>2 DEF CloseSocket, Protocol, Shared, Stopping, Opening
<1>3. CASE Join
  BY <1>0, <1>3 DEF Join, Protocol, Shared, Stopping, Opening
<1>4. CASE Cleanup
  BY <1>0, <1>4 DEF Cleanup
<1>5. CASE Opens \/ OpenFails
  BY <1>0, <1>5 DEF Opens, OpenFails, Startup, CreateSocket, Bind, StartupFails,
     CreateSocketFails, BindFails, Protocol, Shared, Stopping, Opening
<1>6. CASE PlugPad
  BY <1>0, <1>6 DEF PlugPad, PadConnect, PadType, Typed
<1>7. CASE ResetPad
  BY <1>0, <1>7, PadResetReleases DEF ResetPad, Typed, Protocol, Shared, Stopping, Opening
<1>8. CASE UnplugPad
  BY <1>0, <1>8, PadDisconnectType DEF UnplugPad, Typed
<1>9. CASE Start \/ Stop
  BY <1>0, <1>9 DEF Start, StartAllowed, Stop
<1>10. CASE Sleep
  <2>1. elapsed' \in Nat /\ elapsed' <= elapsed + 1
    BY <1>0, <1>10 DEF Sleep, TimePasses
  <2>. QED
    BY <1>0, <1>10, <2>1 DEF Sleep, ThreadSleeps
<1>. QED
  BY <1>1, <1>2, <1>3, <1>4, <1>5, <1>6, <1>7, <1>8, <1>9, <1>10
  DEF ReceiverOwnerNext, Surroundings

THEOREM HeldInvHolds == ManagerSpec => []HeldInv
<1>1. Typed /\ Protocol /\ HeldInv /\ [ManagerNext]_vars => HeldInv'
  <2> SUFFICES ASSUME Typed, Protocol, HeldInv, [ManagerNext]_vars
               PROVE  HeldInv'
    OBVIOUS
  <2>1. CASE UNCHANGED vars
    BY <2>1
    DEF HeldInv, Held, Unwatched, FailsafeMeansNeutral, PadShowsLatestState, vars,
        processorVars
  <2>. QED
    BY <2>1, ManagerSteps, HeldThread, HeldOwner
<1>. QED
  BY <1>1, TypedHolds, ProtocolHolds, HeldInit, PTL DEF ManagerSpec

\* Held controls are released within the failsafe timeout and one recvfrom,
\* and never shown while the receiver is stopped, unless the driver turned down
\* the neutral report that would have released them.
THEOREM HeldInputIsReleased == ManagerSpec => []HeldInputIsRecent
<1>1. Typed /\ HeldInv => HeldInputIsRecent
  BY ProcessorAssumption, ReceiverAssumption
  DEF Typed, ProcessorTypeOK, HeldInv, Unwatched, HeldInputIsRecent
<1>. QED
  BY <1>1, TypedHolds, HeldInvHolds, PTL

\* What a game sees held is what was accepted last, unless the driver turned
\* down a report since.
THEOREM PadFollowsLatestState == ManagerSpec => []PadShowsLatestState
<1>1. HeldInv => PadShowsLatestState
  BY DEF HeldInv
<1>. QED
  BY <1>1, HeldInvHolds, PTL

\* Whoever calls the gamepad, only the thread's update() puts another report with
\* held controls on show.
LEMMA OthersRelease ==
  ASSUME Typed, PadReset \/ PadConnect \/ PadDisconnect
  PROVE  pad'.report = pad.report \/ ~ Held'
<1>1. CASE PadReset
  BY <1>1, PadSendShows, StateAssumption DEF PadReset, Held, Typed
<1>2. CASE PadConnect
  BY <1>2 DEF PadConnect, PadType, Typed
<1>3. CASE PadDisconnect
  BY <1>3, PadDisconnectType DEF Held, Typed
<1>. QED
  BY <1>1, <1>2, <1>3

\* No button goes down but by the state accepted last, not by start() either,
\* whatever stop() left in the processor.
THEOREM ButtonsPressedByNewStates == ManagerSpec => OnlyNewStatesPress
<1> DEFINE Step == (Held' /\ pad'.report # pad.report) =>
                     /\ thread = "update" /\ elapsed = 0
                     /\ ~ isFailsafeActive /\ pad'.report = latestState.input
<1>1. Typed /\ HeldInv /\ [ManagerNext]_vars => [Step]_vars
  <2> SUFFICES ASSUME Typed, HeldInv, [ManagerNext]_vars PROVE Step
    OBVIOUS
  <2>1. CASE UpdatePad
    <3>1. datagram.content.input \in Inputs
      BY <2>1 DEF UpdatePad, Typed, ControllerState
    <3>2. pad'.report \in {datagram.content.input, pad.report}
      BY <2>1, <3>1, PadSendShows DEF UpdatePad, PadUpdate, Typed
    <3>. QED
      BY <2>1, <3>2 DEF UpdatePad, HeldInv
  <2>2. CASE ReleasePad \/ ResetPad \/ PlugPad \/ UnplugPad
    BY <2>2, OthersRelease DEF ReleasePad, ResetPad, PlugPad, UnplugPad
  <2>3. CASE ~ UpdatePad /\ ThreadNext
    BY <2>3, OthersRelease
    DEF ThreadNext, CheckRunning, Receive, WatchdogFires, WatchdogSilent, ReleasePad,
        ListenAgain, NothingToDo, NoteClient, Connect, Process
  <2>4. CASE ReceiverOwnerNext \/ Sleep \/ Start \/ Stop \/ UNCHANGED vars
    BY <2>4 DEF ReceiverOwnerNext, Exchange, CloseSocket, Join, Cleanup,
                Opens, OpenFails, Startup, CreateSocket, Bind, StartupFails,
                CreateSocketFails, BindFails, Sleep, Start, Stop, vars
  <2>. QED
    BY <2>1, <2>2, <2>3, <2>4, ManagerSteps DEF Surroundings
<1>. QED
  BY <1>1, TypedHolds, HeldInvHolds, PTL DEF ManagerSpec, OnlyNewStatesPress

-----------------------------------------------------------------------------
(* The processor behind the manager: what UdpReceiver's theorems say of it *)
(* outlives stop() and start().                                            *)

LEMMA SurroundingsKeepProcessor ==
  ASSUME Surroundings \/ UNCHANGED vars
  PROVE  UNCHANGED processorVars
BY DEF Surroundings, PlugPad, ResetPad, UnplugPad, Start, Stop, vars

THEOREM ProcessorInvHolds == ManagerSpec => []ProcessorInv
<1>1. Typed /\ ProcessorInv /\ [ManagerNext]_vars => ProcessorInv'
  BY ManagerSteps, ProcessorInvStep, SurroundingsKeepProcessor, ProcessorInvUnseen
  DEF processorVars, processorView
<1>. QED
  BY <1>1, ProcessorInvInit, TypedHolds, PTL DEF ManagerSpec

\* In the whole application, while the watchdog is silenced nothing is held.
THEOREM ManagedFailsafeIsNeutral == ManagerSpec => []FailsafeMeansNeutral
<1>1. ProcessorInv => FailsafeMeansNeutral
  BY DEF ProcessorInv
<1>. QED
  BY <1>1, ProcessorInvHolds, PTL

\* In the whole application the copies of the sequence number agree.
THEOREM ManagedSequenceCopiesAgree == ManagerSpec => []SequenceCopiesAgree
<1>1. ProcessorInv => SequenceCopiesAgree
  BY DEF ProcessorInv
<1>. QED
  BY <1>1, ProcessorInvHolds, PTL

\* In the whole application only a newer packet ends the failsafe, over any
\* number of stop() and start().
THEOREM ManagedStaleNeverRevives == ManagerSpec => StalePacketNeverRevives
<1> DEFINE Step == (hasReceivedFirstPacket /\ isFailsafeActive /\ ~ isFailsafeActive')
                     => SeqDiff(lastSequence', lastSequence) \in 1 .. HalfModulus - 1
<1>1. Typed /\ [ManagerNext]_vars => [Step]_processorVars
  BY ManagerSteps, FailsafeEndsInThread, SurroundingsKeepProcessor
<1>. QED
  BY <1>1, TypedHolds, PTL DEF ManagerSpec, StalePacketNeverRevives

-----------------------------------------------------------------------------
(* What the user interface reads without a lock, and the counters.         *)

\* The address is there before the state that shows it.
THEOREM ClientKnownWhenConnected == ManagerSpec => []ConnectedHasClient
<1>1. Typed /\ ClientInv /\ [ManagerNext]_vars => ClientInv'
  <2> SUFFICES ASSUME Typed, ClientInv, [ManagerNext]_vars PROVE ClientInv'
    OBVIOUS
  <2>1. CASE Surroundings \/ UNCHANGED vars
    BY <2>1 DEF ClientInv, ConnectedHasClient, Surroundings, PlugPad, ResetPad,
                UnplugPad, Start, Stop, vars
  <2>. QED
    BY <2>1, ManagerSteps, ClientThread, ClientOwner
<1>2. ClientInv => ConnectedHasClient
  BY DEF ClientInv
<1>. QED
  BY <1>1, <1>2, ClientInit, TypedHolds, PTL DEF ManagerSpec

\* Every accepted state is counted again as an update or as an error.
THEOREM AcceptedStatesCounted == ManagerSpec => []AcceptedStatesReachGamepad
<1>1. /\ Typed /\ Protocol
      /\ AcceptedStatesReachGamepad
      /\ [ManagerNext]_vars
      => AcceptedStatesReachGamepad'
  <2> SUFFICES ASSUME Typed, Protocol, AcceptedStatesReachGamepad,
                      [ManagerNext]_vars
               PROVE  AcceptedStatesReachGamepad'
    OBVIOUS
  <2>1. CASE Surroundings \/ UNCHANGED vars
    BY <2>1, CountsUnchanged
    DEF Surroundings, PlugPad, ResetPad, UnplugPad, Start, Stop, vars,
        processorVars
  <2>. QED
    BY <2>1, ManagerSteps, CountsThread, CountsOwner DEF Protocol
<1>. QED
  BY <1>1, CountsInit, TypedHolds, ProtocolHolds, PTL DEF ManagerSpec
=============================================================================

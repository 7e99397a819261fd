---------------------------- MODULE UdpReceiver ----------------------------
(***************************************************************************)
(* Class UdpReceiver: its owner calls start() and stop(), and the thread   *)
(* that start() spawns runs receiverLoop.  The two share the socket, the   *)
(* running flag and the state, and meet only in join().                    *)
(*                                                                         *)
(* A step of the thread is the code up to the next access to something the *)
(* owner or the user interface can see; `thread' and `owner' name the code *)
(* to run next.  Datagrams are told apart by what PacketDecoder::decode    *)
(* makes of them.  The responses to HELLO and heartbeat packets leave the  *)
(* program and change none of its state: they are not modelled.  Neither   *)
(* are the client's port, set together with its address and only shown,    *)
(* and the status callback, which no code sets.                            *)
(*                                                                         *)
(* Time passes in ticks, and only while every thread sleeps: running the   *)
(* loop's body takes a small part of a tick (100 ms).                      *)
(***************************************************************************)
EXTENDS ControllerProcessor, VirtualGamepad

CONSTANTS
  Clients,        \* IP addresses of senders
  NoIp,           \* the initial "0.0.0.0"
  RecvTimeout     \* SO_RCVTIMEO, in ticks

ASSUME ReceiverAssumption ==
  /\ NoIp \notin Clients
  /\ RecvTimeout \in Nat \ {0}

VARIABLES
  state,      \* m_state
  running,    \* m_running
  socketOpen, \* m_socket # INVALID_SOCKET
  wsaRefs,    \* WSAStartup calls not yet matched by WSACleanup
  clientIp,   \* m_clientIp
  thread,     \* the receiver thread; "none" if there is none to join
  datagram,   \* the thread's last recvfrom: what it received
  waited,     \* ticks spent in that recvfrom
  owner,      \* the owning thread; "idle" outside start() and stop()
  request     \* which of the two the owner is in

receiverVars == <<state, running, socketOpen, wsaRefs, clientIp>>
threadVars == <<thread, datagram, waited>>
ownerVars == <<owner, request>>
vars == <<processorVars, pad, receiverVars, threadVars, ownerVars>>

Datagrams ==
  [type : {"state"}, from : Clients, content : ControllerState]
    \cup [type : {"hello", "heartbeat", "invalid"}, from : Clients]
Nothing == [type |-> "nothing"]   \* recvfrom returned 0 or SOCKET_ERROR

ReceiverInit ==
  /\ state = "Stopped"
  /\ running = FALSE
  /\ socketOpen = FALSE
  /\ wsaRefs = 0
  /\ clientIp = NoIp
  /\ thread = "none"
  /\ datagram = Nothing
  /\ waited = 0

Init ==
  /\ ProcessorInit
  /\ PadInit
  /\ ReceiverInit
  /\ owner = "idle"
  /\ request = "stop"

-----------------------------------------------------------------------------
(* receiverLoop *)

ThreadGoto(here, there) == thread = here /\ thread' = there

\* A mutant: the loop does not look at the running flag.
LoopForever ==
  /\ ThreadGoto("check", "recv")
  /\ waited' = 0
  /\ datagram' = Nothing
  /\ UNCHANGED <<processorVars, pad, receiverVars, ownerVars>>
\* The loop condition.  What the last round received is not looked at again.
CheckRunning ==
  /\ ThreadGoto("check", IF running THEN "recv" ELSE "exited")
  /\ waited' = 0
  /\ datagram' = Nothing
  /\ UNCHANGED <<processorVars, pad, receiverVars, ownerVars>>

\* recvfrom returns with a datagram, at its timeout, when the socket is
\* closed, or with another error: an ICMP answer to a response, or a datagram
\* larger than the buffer.  The last two may come at any time.
Receive ==
  /\ ThreadGoto("recv", "watchdog")
  /\ datagram' \in IF socketOpen THEN Datagrams \cup {Nothing} ELSE {Nothing}
  /\ UNCHANGED <<processorVars, pad, receiverVars, waited, ownerVars>>

\* A mutant: the watchdog only runs when nothing was received.
FailsafeChecked == FailsafeDue /\ datagram = Nothing
\* checkFailsafe(300), after every recvfrom.
FailsafeFires == FailsafeDue

\* The rate counter, every second or so, and the watchdog.
WatchdogFires ==
  /\ ThreadGoto("watchdog", "release")
  /\ FailsafeFires
  /\ ReleaseInput
  /\ stats' \in {stats, TickOneSecond(stats)}
  /\ UNCHANGED <<hasReceivedFirstPacket, lastSequence, elapsed, pad,
                 receiverVars, datagram, waited, ownerVars>>

WatchdogSilent ==
  /\ ThreadGoto("watchdog", "dispatch")
  /\ ~ FailsafeFires
  /\ stats' \in {stats, TickOneSecond(stats)}
  /\ UNCHANGED <<hasReceivedFirstPacket, lastSequence, isFailsafeActive,
                 latestState, elapsed, pad, receiverVars, datagram, waited,
                 ownerVars>>

ReleasePad ==
  /\ ThreadGoto("release", "listen")
  /\ PadReset
  /\ UNCHANGED <<processorVars, receiverVars, datagram, waited, ownerVars>>

\* A mutant: the watchdog leaves the state alone.
ListenAgainForgotten ==
  /\ ThreadGoto("listen", "dispatch")
  /\ UNCHANGED <<processorVars, pad, receiverVars, datagram, waited, ownerVars>>
ListenAgain ==
  /\ ThreadGoto("listen", "dispatch")
  /\ state' = IF state = "Connected" THEN "Listening" ELSE state
  /\ UNCHANGED <<processorVars, pad, running, socketOpen, wsaRefs, clientIp,
                 datagram, waited, ownerVars>>

\* Nothing received, not a valid packet, or a heartbeat to be answered.
NothingToDo ==
  /\ ThreadGoto("dispatch", "check")
  /\ datagram.type \in {"nothing", "invalid", "heartbeat"}
  /\ UNCHANGED <<processorVars, pad, receiverVars, datagram, waited, ownerVars>>

\* A mutant: the sender of a HELLO is not noted.
NoteClientOfStates ==
  /\ ThreadGoto("dispatch", "connect")
  /\ datagram.type \in {"state", "hello"}
  /\ clientIp' = IF datagram.type = "state" THEN datagram.from ELSE clientIp
  /\ UNCHANGED <<processorVars, pad, state, running, socketOpen, wsaRefs,
                 datagram, waited, ownerVars>>
\* A controller state or a HELLO: whoever sent it is the client.
NoteClient ==
  /\ ThreadGoto("dispatch", "connect")
  /\ datagram.type \in {"state", "hello"}
  /\ clientIp' = datagram.from
  /\ UNCHANGED <<processorVars, pad, state, running, socketOpen, wsaRefs,
                 datagram, waited, ownerVars>>

Connect ==
  /\ ThreadGoto("connect", IF datagram.type = "state" THEN "process" ELSE "check")
  /\ state' = "Connected"
  /\ UNCHANGED <<processorVars, pad, running, socketOpen, wsaRefs, clientIp,
                 datagram, waited, ownerVars>>

\* A mutant: a dropped state goes to the gamepad like an accepted one.
ProcessIgnoringResult ==
  /\ ThreadGoto("process", "update")
  /\ ProcessPacket(datagram.content)
  /\ UNCHANGED <<pad, receiverVars, datagram, waited, ownerVars>>
Process ==
  /\ ThreadGoto("process", IF Accepts(datagram.content) THEN "update" ELSE "check")
  /\ ProcessPacket(datagram.content)
  /\ UNCHANGED <<pad, receiverVars, datagram, waited, ownerVars>>

\* A mutant: what the driver turns down is not counted.
UpdatePadCountingUpdates ==
  /\ ThreadGoto("update", "check")
  /\ \E ok \in UpdateResults :
       /\ PadUpdate(datagram.content.input, ok)
       /\ stats' = IF ok THEN OnControllerUpdated(stats) ELSE stats
  /\ UNCHANGED <<hasReceivedFirstPacket, lastSequence, isFailsafeActive,
                 latestState, elapsed, receiverVars, datagram, waited, ownerVars>>
UpdatePad ==
  /\ ThreadGoto("update", "check")
  /\ \E ok \in UpdateResults :
       /\ PadUpdate(datagram.content.input, ok)
       /\ stats' = IF ok THEN OnControllerUpdated(stats) ELSE OnGamepadError(stats)
  /\ UNCHANGED <<hasReceivedFirstPacket, lastSequence, isFailsafeActive,
                 latestState, elapsed, receiverVars, datagram, waited, ownerVars>>

ThreadNext ==
  \/ CheckRunning \/ Receive \/ WatchdogFires \/ WatchdogSilent \/ ReleasePad
  \/ ListenAgain \/ NothingToDo \/ NoteClient \/ Connect \/ Process \/ UpdatePad

-----------------------------------------------------------------------------
(* start() and stop().  Both begin with stop(): at "stop" it is entered, at *)
(* "stopped" it has returned.                                               *)

OwnerGoto(here, there) ==
  owner = here /\ owner' = there /\ UNCHANGED request

Exchange ==
  /\ OwnerGoto("stop", IF running THEN "close" ELSE "stopped")
  /\ running' = FALSE
  /\ UNCHANGED <<processorVars, pad, state, socketOpen, wsaRefs, clientIp,
                 threadVars>>

CloseSocket ==
  /\ OwnerGoto("close", "join")
  /\ socketOpen' = FALSE
  /\ UNCHANGED <<processorVars, pad, state, running, wsaRefs, clientIp,
                 threadVars>>

\* A mutant: stop() does not wait for the thread.
Detach ==
  /\ OwnerGoto("join", "cleanup")
  /\ UNCHANGED <<processorVars, pad, receiverVars, threadVars>>
Join ==
  /\ OwnerGoto("join", "cleanup")
  /\ thread = "exited"
  /\ thread' = "none"
  /\ UNCHANGED <<processorVars, pad, receiverVars, datagram, waited>>

\* A mutant: stop() forgets WSACleanup.
CleanupForgotten ==
  /\ OwnerGoto("cleanup", "stopped")
  /\ state' = "Stopped"
  /\ UNCHANGED <<processorVars, pad, running, socketOpen, wsaRefs, clientIp,
                 threadVars>>
Cleanup ==
  /\ OwnerGoto("cleanup", "stopped")
  /\ wsaRefs' = wsaRefs - 1
  /\ state' = "Stopped"
  /\ UNCHANGED <<processorVars, pad, running, socketOpen, clientIp, threadVars>>

\* start() after its stop().  Each of the three calls may fail, and each of the
\* failing paths releases what the calls before it acquired.
Startup ==
  /\ OwnerGoto("stopped", "socket")
  /\ request = "start"
  /\ wsaRefs' = wsaRefs + 1
  /\ UNCHANGED <<processorVars, pad, state, running, socketOpen, clientIp,
                 threadVars>>

StartupFails ==
  /\ OwnerGoto("stopped", "idle")
  /\ request = "start"
  /\ state' = "Error"
  /\ UNCHANGED <<processorVars, pad, running, socketOpen, wsaRefs, clientIp,
                 threadVars>>

CreateSocket ==
  /\ OwnerGoto("socket", "bind")
  /\ socketOpen' = TRUE
  /\ UNCHANGED <<processorVars, pad, state, running, wsaRefs, clientIp,
                 threadVars>>

CreateSocketFails ==
  /\ OwnerGoto("socket", "idle")
  /\ wsaRefs' = wsaRefs - 1
  /\ state' = "Error"
  /\ UNCHANGED <<processorVars, pad, running, socketOpen, clientIp, threadVars>>

\* bind succeeds, and the thread is spawned.
Bind ==
  /\ OwnerGoto("bind", "idle")
  /\ running' = TRUE
  /\ state' = "Listening"
  /\ thread' = "check"
  /\ UNCHANGED <<processorVars, pad, socketOpen, wsaRefs, clientIp, datagram,
                 waited>>

\* A mutant: the last failing path keeps the reference WSAStartup counted.
BindFailsLeaking ==
  /\ OwnerGoto("bind", "idle")
  /\ socketOpen' = FALSE
  /\ state' = "Error"
  /\ UNCHANGED <<processorVars, pad, running, wsaRefs, clientIp, threadVars>>
BindFails ==
  /\ OwnerGoto("bind", "idle")
  /\ socketOpen' = FALSE
  /\ wsaRefs' = wsaRefs - 1
  /\ state' = "Error"
  /\ UNCHANGED <<processorVars, pad, running, clientIp, threadVars>>

Opens == Startup \/ CreateSocket \/ Bind

OpenFails == StartupFails \/ CreateSocketFails \/ BindFails

ReceiverOwnerNext ==
  Exchange \/ CloseSocket \/ Join \/ Cleanup \/ Opens \/ OpenFails

-----------------------------------------------------------------------------
ThreadSleeps == thread = "none" \/ (thread = "recv" /\ waited < RecvTimeout)

Sleep ==
  /\ owner = "idle" /\ ThreadSleeps
  /\ TimePasses
  /\ waited' = IF thread = "recv" THEN waited + 1 ELSE waited
  /\ UNCHANGED <<hasReceivedFirstPacket, lastSequence, isFailsafeActive,
                 latestState, stats, pad, receiverVars, thread, datagram,
                 ownerVars>>

\* The owner may call either at any time.
Call ==
  /\ owner = "idle"
  /\ owner' = "stop"
  /\ request' \in {"start", "stop"}
  /\ UNCHANGED <<processorVars, pad, receiverVars, threadVars>>

Return ==
  /\ OwnerGoto("stopped", "idle")
  /\ request = "stop"
  /\ UNCHANGED <<processorVars, pad, receiverVars, threadVars>>

Next == ThreadNext \/ ReceiverOwnerNext \/ Sleep \/ Call \/ Return

\* The operating system runs every thread that is ready, and time does not
\* stand still: the thread cannot receive without end within one tick.
Spec ==
  /\ Init /\ [][Next]_vars
  /\ WF_vars(ThreadNext)
  /\ WF_vars(ReceiverOwnerNext \/ Return)
  /\ SF_vars(Sleep)

-----------------------------------------------------------------------------
ThreadPoints ==
  {"none", "check", "recv", "watchdog", "release", "listen", "dispatch",
   "connect", "process", "update", "exited"}

\* The variables of this module have the types of what they stand for.
ReceiverTypeOK ==
  /\ ProcessorTypeOK
  /\ pad \in PadType
  /\ state \in {"Stopped", "Listening", "Connected", "Error"}
  /\ running \in BOOLEAN
  /\ socketOpen \in BOOLEAN
  /\ wsaRefs \in 0 .. 1
  /\ clientIp \in Clients \cup {NoIp}
  /\ thread \in ThreadPoints
  /\ datagram \in Datagrams \cup {Nothing}
  /\ waited \in 0 .. RecvTimeout
  /\ request \in {"start", "stop"}

\* Whenever start() or stop() has returned and the receiver is not running,
\* by stop() or by any failing path of start(), there is no thread, the
\* socket is closed and every WSAStartup is matched.  Otherwise there is
\* exactly one of each.
RunsAllOrNothing ==
  owner = "idle" =>
    /\ running <=> state \in {"Listening", "Connected"}
    /\ running <=> thread # "none"
    /\ running <=> socketOpen
    /\ wsaRefs = IF running THEN 1 ELSE 0

\* Whoever reads the state and then the client's address, as getStatusString
\* does, never shows "CONNECTED (0.0.0.0)".
ConnectedHasClient == state = "Connected" => clientIp # NoIp

\* What the user interface sees of m_state is a receiver that is started, has
\* traffic and is stopped; the thread's writes, which may come at any time
\* during stop(), never turn a stopped receiver or a failed start into a
\* listening or connected one.
States == INSTANCE ReceiverStates
StatesInOrder == States!Spec

\* A call of stop() or start() returns: closing the socket ends the thread's
\* recvfrom, and whatever the thread is doing it comes back to the loop's
\* condition, so that join() does not wait for ever.
CallsReturn == (owner # "idle") ~> (owner = "idle")

\* A phone whose input was accepted does not stay connected in silence: unless
\* a newer state arrives in time, the watchdog takes the state back to
\* Listening.  Late packets, heartbeats and HELLO keep nothing alive.
SilenceIsNoticed ==
  (state = "Connected" /\ hasReceivedFirstPacket /\ ~ isFailsafeActive)
    ~> (state # "Connected" \/ thread = "update")

\* Every accepted state is counted once more when the gamepad was asked to
\* show it: as an update or as an error, except while that call is under way.
AcceptedStatesReachGamepad ==
  stats.packetsReceived =
    CountUp(CountUp(stats.controllerUpdates, stats.gamepadErrors),
            IF thread = "update" THEN 1 ELSE 0)
=============================================================================

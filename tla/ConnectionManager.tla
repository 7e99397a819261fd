------------------------- MODULE ConnectionManager -------------------------
(***************************************************************************)
(* Class ConnectionManager as the application uses it: it owns the         *)
(* receiver, the processor and the gamepad.  wWinMain starts it once, the  *)
(* toggle button of the main window starts it if the receiver is stopped   *)
(* and stops it otherwise, and its destructor stops it once more.  All of  *)
(* these calls are made by one thread.                                     *)
(*                                                                         *)
(* The constructor leaves the gamepad initialised and everything else as   *)
(* Init of UdpReceiver has it.  The two failures after which the program   *)
(* exits, that of the first start() and that of creating the window, lead  *)
(* to the destructor's stop().                                             *)
(***************************************************************************)
EXTENDS UdpReceiver

\* start() is only called on a stopped receiver (MainWindow.cpp:114).
StartAllowed == owner = "idle" /\ state = "Stopped"

Start ==
  /\ StartAllowed
  /\ owner' = "plug"
  /\ request' = "start"
  /\ UNCHANGED <<processorVars, pad, receiverVars, threadVars>>

PlugPad ==
  /\ OwnerGoto("plug", "stop")
  /\ PadConnect
  /\ UNCHANGED <<processorVars, receiverVars, threadVars>>

Stop ==
  /\ owner = "idle"
  /\ owner' = "stop"
  /\ request' = "stop"
  /\ UNCHANGED <<processorVars, pad, receiverVars, threadVars>>

\* m_receiver.stop() has returned.
ResetPad ==
  /\ OwnerGoto("stopped", "unplug")
  /\ request = "stop"
  /\ PadReset
  /\ UNCHANGED <<processorVars, receiverVars, threadVars>>

UnplugPad ==
  /\ OwnerGoto("unplug", "idle")
  /\ PadDisconnect
  /\ UNCHANGED <<processorVars, receiverVars, threadVars>>

OwnerNext ==
  ReceiverOwnerNext \/ PlugPad \/ ResetPad \/ UnplugPad

ManagerNext == ThreadNext \/ OwnerNext \/ Start \/ Stop \/ Sleep

ManagerSpec == Init /\ [][ManagerNext]_vars

-----------------------------------------------------------------------------
OwnerPoints ==
  {"idle", "plug", "stop", "close", "join", "cleanup", "stopped", "socket",
   "bind", "unplug"}

\* The variables have the types of what they stand for.
ManagerTypeOK == ReceiverTypeOK /\ owner \in OwnerPoints

Held == pad.report # Neutral

\* While no call is under way, a game only sees held controls if the receiver
\* is running, and then for no longer than the failsafe timeout and one
\* recvfrom after the last accepted packet: the watchdog runs after every
\* recvfrom, whatever it returned.  Nothing else can keep a button down but a
\* driver that turned the one neutral report down (UdpReceiver.cpp:114); an
\* update that it turned down does not.
HeldInputIsRecent ==
  (Held /\ owner = "idle" /\ "reset" \notin pad.refused) =>
    /\ thread # "none"
    /\ elapsed <= FailsafeTimeout + RecvTimeout

\* The owner is about to call the gamepad.
OwnerCallsPad ==
  owner \in {"plug", "unplug"} \/ (owner = "stopped" /\ request = "stop")

\* The receiver thread lives only while the gamepad it updates is plugged in,
\* and while its owner has no business with it: start() connects it first, and
\* stop() joins the thread before it resets and disconnects it.  The gamepad,
\* whose handles no lock guards, is called by one thread at a time.
ThreadHasGamepad == thread # "none" => pad.plugged /\ ~ OwnerCallsPad

\* Held controls on show are those of the latest accepted state, except while
\* the thread is between changing that state and reporting the change, and
\* after a report that the driver turned down.
PadShowsLatestState ==
  (Held /\ thread \notin {"update", "release"} /\ pad.refused = {}) =>
    pad.report = latestState.input

\* A button only goes down when the thread reports the state it has just
\* accepted: neither the next start(), which finds the state of before the last
\* stop() in the processor, nor a packet that was dropped presses it again.
OnlyNewStatesPress ==
  [][ (Held' /\ pad'.report # pad.report) =>
        /\ thread = "update" /\ elapsed = 0
        /\ ~ isFailsafeActive /\ pad'.report = latestState.input ]_vars

\* "Automatic neutral reset after 300ms if connection drops" (README.md:11):
\* 300 ms after the last accepted packet, and a tick to notice, nothing is held.
ReleasedWhenFailsafeIsDue == Held => elapsed <= FailsafeTimeout + 1
=============================================================================

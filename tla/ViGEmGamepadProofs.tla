------------------------- MODULE ViGEmGamepadProofs -------------------------
(***************************************************************************)
(* Proofs about ViGEmGamepad, for every set of handles and for drivers     *)
(* that fail and that do not.  The properties are not inductive: whether   *)
(* a handle may be used depends on how far connect() has come, and what    *)
(* is left on the bus on whether it is the first connect().  Progress says *)
(* the former, FirstConnect the latter; together with the properties they  *)
(* are preserved by every step.                                            *)
(***************************************************************************)
EXTENDS ViGEmGamepad, TLAPS

\* What connect() has acquired when it has come to a point, and who calls it.
Progress ==
  /\ at \in {"alloc", "connect", "target", "add", "ready"} => dll
  /\ at \in {"connect", "target", "add"} => client # Null
  /\ at = "connect" => client \notin connected
  /\ at \in {"target", "add"} => client \in connected
  /\ at = "add" => target # Null
  /\ status = "Connected" => dll
  /\ at \in {"new", "ready", "destroy", "mock"} => caller = "initialize"
  /\ at \in {"started", "unplug", "stopped"} => caller = "start"

\* Until initialize() has returned the object knows all there is.
FirstConnect ==
  caller = "initialize" =>
    /\ liveClients \subseteq {client}
    /\ liveTargets \subseteq {target}
    /\ plugged \subseteq {Own}
    /\ at \in {"new", "alloc"} => liveClients = {}
    /\ at \in {"new", "alloc", "connect", "target"} => liveTargets = {} /\ plugged = {}

GamepadInv ==
  /\ GamepadTypeOK /\ HandlesAreLive
  /\ Progress /\ FirstConnect
  /\ ReportsGoToPluggedController /\ HeldOnlyWhileStarted
  /\ MockLeavesNothingBehind

LEMMA GamepadInit == Init => GamepadInv
  BY HandlesAssumption DEF Init, GamepadInv, GamepadTypeOK, HandlesAreLive, Progress,
     FirstConnect, ReportsGoToPluggedController, HeldOnlyWhileStarted,
     MockLeavesNothingBehind, Points, Statuses, DriverIsAsked

\* The steps of initialize() and connect().
LEMMA ConnectingKeepsInv ==
  GamepadInv /\ (LoadDll \/ LoadDllFails \/ Connecting) => GamepadInv'
<1>. SUFFICES ASSUME GamepadInv, LoadDll \/ LoadDllFails \/ Connecting
              PROVE  GamepadInv'
  OBVIOUS
<1>. USE HandlesAssumption DEF GamepadInv, GamepadTypeOK, HandlesAreLive, Progress,
     FirstConnect, ReportsGoToPluggedController, HeldOnlyWhileStarted,
     MockLeavesNothingBehind, Points, Statuses, DriverIsAsked, Own,
     gamepadVars, busVars, AfterSuccess, AfterFailure
<1>1. CASE LoadDll
  BY <1>1 DEF LoadDll
<1>2. CASE LoadDllFails
  BY <1>2 DEF LoadDllFails
<1>3. CASE AllocClient
  BY <1>3 DEF AllocClient
<1>4. CASE AllocClientFails
  BY <1>4 DEF AllocClientFails
<1>5. CASE ConnectClient
  BY <1>5 DEF ConnectClient
<1>6. CASE ConnectClientFails
  BY <1>6 DEF ConnectClientFails
<1>7. CASE AllocTarget
  BY <1>7 DEF AllocTarget
<1>8. CASE AllocTargetFails
  BY <1>8 DEF AllocTargetFails
<1>9. CASE AddTarget
  BY <1>9 DEF AddTarget
<1>10. CASE AddTargetFails
  BY <1>10 DEF AddTargetFails
<1>. QED
  BY <1>1, <1>2, <1>3, <1>4, <1>5, <1>6, <1>7, <1>8, <1>9, <1>10 DEF Connecting

\* Starting changes nothing but the caller: what connect() may rely on is
\* what is known of a gamepad that was just initialised or is disconnected.
LEMMA StartKeepsInv == GamepadInv /\ Start => GamepadInv'
  BY HandlesAssumption
     DEF Start, GamepadInv, GamepadTypeOK, HandlesAreLive, Progress, FirstConnect,
         ReportsGoToPluggedController, HeldOnlyWhileStarted, MockLeavesNothingBehind,
         Points, DriverIsAsked, Own, gamepadVars, busVars

\* A report that reaches the driver reaches a controller on the bus, and no
\* other one holds anything.
LEMMA ReportingKeepsInv == GamepadInv /\ (Update \/ Reset) => GamepadInv'
<1>. SUFFICES ASSUME GamepadInv, Update \/ Reset
              PROVE  GamepadInv'
  OBVIOUS
<1>. USE DEF GamepadInv, gamepadVars, busVars
<1>1. Own' = Own /\ DriverIsAsked' = DriverIsAsked
  BY DEF Update, Reset, Own, DriverIsAsked
<1>2. held' \subseteq held \cup {Own} /\ (DriverIsAsked => Own \in plugged)
  BY DEF Update, Reset, Report, ReportsGoToPluggedController
<1>3. DriverIsAsked \/ held' \subseteq held
  BY DEF Update, Reset, Report
<1>4. at # "started" => held' \subseteq held
  BY DEF Update, Reset, Report
<1>5. GamepadTypeOK'
  BY <1>2, <1>3 DEF Update, Reset, GamepadTypeOK, Points
<1>6. HandlesAreLive' /\ Progress' /\ FirstConnect'
  BY <1>1 DEF Update, Reset, HandlesAreLive, Progress, FirstConnect
<1>7. ReportsGoToPluggedController'
  BY <1>1 DEF Update, Reset, ReportsGoToPluggedController
<1>8. HeldOnlyWhileStarted'
  BY <1>1, <1>2, <1>4 DEF Update, Reset, HeldOnlyWhileStarted
<1>9. MockLeavesNothingBehind'
  BY DEF Update, Reset, MockLeavesNothingBehind
<1>. QED
  BY <1>5, <1>6, <1>7, <1>8, <1>9

\* disconnect() takes the own controller off the bus, and with it whatever it
\* held; before the first connect() has returned that is all there is.
LEMMA DisconnectingKeepsInv == GamepadInv /\ (Disconnect \/ Destroy) => GamepadInv'
<1>. SUFFICES ASSUME GamepadInv, Disconnect \/ Destroy
              PROVE  GamepadInv'
  OBVIOUS
<1>. USE DEF GamepadInv
<1>1. /\ DisconnectBody /\ UNCHANGED caller
      /\ \/ at = "unplug" /\ at' = "stopped"
         \/ at = "destroy" /\ at' = "mock"
  BY DEF Disconnect, Destroy
<1>2. dll' = FALSE /\ client' = Null /\ target' = Null /\ status' = "Disconnected"
  BY <1>1 DEF DisconnectBody
<1>3. held' = {}
  BY <1>1 DEF DisconnectBody, Unplugged, Own, HeldOnlyWhileStarted, GamepadTypeOK
<1>4. GamepadTypeOK'
  BY <1>1, <1>2, <1>3 DEF DisconnectBody, Unplugged, GamepadTypeOK, Points, Statuses
<1>5. HandlesAreLive' /\ Progress' /\ ReportsGoToPluggedController' /\ HeldOnlyWhileStarted'
  BY <1>1, <1>2, <1>3
     DEF HandlesAreLive, Progress, ReportsGoToPluggedController, HeldOnlyWhileStarted,
         DriverIsAsked
<1>6. caller = "initialize" => liveClients' = {} /\ liveTargets' = {} /\ plugged' = {}
  BY <1>1 DEF DisconnectBody, Unplugged, Own, FirstConnect
<1>7. FirstConnect' /\ MockLeavesNothingBehind'
  BY <1>1, <1>2, <1>6 DEF FirstConnect, MockLeavesNothingBehind, Progress
<1>. QED
  BY <1>4, <1>5, <1>7

LEMMA StutteringKeepsInv == GamepadInv /\ UNCHANGED vars => GamepadInv'
  BY DEF vars, gamepadVars, busVars, GamepadInv, GamepadTypeOK, HandlesAreLive, Progress,
     FirstConnect, ReportsGoToPluggedController, HeldOnlyWhileStarted,
     MockLeavesNothingBehind, DriverIsAsked, Own

\* The gamepad keeps its handles and the bus consistent (ViGEmGamepad.cpp).
THEOREM GamepadInvHolds == Spec => []GamepadInv
<1>1. GamepadInv /\ [Next]_vars => GamepadInv'
  BY ConnectingKeepsInv, StartKeepsInv, ReportingKeepsInv, DisconnectingKeepsInv,
     StutteringKeepsInv DEF Next
<1>. QED
  BY GamepadInit, <1>1, PTL DEF Spec

\* The variables of gamepad and bus have their types.
THEOREM GamepadTypeCorrect == Spec => []GamepadTypeOK
<1>1. GamepadInv => GamepadTypeOK
  BY DEF GamepadInv
<1>. QED
  BY GamepadInvHolds, <1>1, PTL

\* client and target are never used after they were freed, nor after the
\* library was unloaded, by a second connect() or disconnect() either.
THEOREM HandlesStayLive == Spec => []HandlesAreLive
<1>1. GamepadInv => HandlesAreLive
  BY DEF GamepadInv
<1>. QED
  BY GamepadInvHolds, <1>1, PTL

\* update() never passes a report on for a controller that is not plugged in.
THEOREM ReportsReachPluggedController == Spec => []ReportsGoToPluggedController
<1>1. GamepadInv => ReportsGoToPluggedController
  BY DEF GamepadInv
<1>. QED
  BY GamepadInvHolds, <1>1, PTL

\* stop() leaves no controller that holds a control, whatever the driver does.
THEOREM StopReleasesEverything == Spec => []HeldOnlyWhileStarted
<1>1. GamepadInv => HeldOnlyWhileStarted
  BY DEF GamepadInv
<1>. QED
  BY GamepadInvHolds, <1>1, PTL

\* The fall back to the mock leaks nothing, whichever step of initialize() failed.
THEOREM FallbackLeaksNothing == Spec => []MockLeavesNothingBehind
<1>1. GamepadInv => MockLeavesNothingBehind
  BY DEF GamepadInv
<1>. QED
  BY GamepadInvHolds, <1>1, PTL
=============================================================================

---------------------------- MODULE ViGEmGamepad ----------------------------
(***************************************************************************)
(* Class ViGEmGamepad and the ViGEm bus behind it, used as                 *)
(* ConnectionManager uses it: its constructor calls initialize() and falls *)
(* back to the mock if that fails; start() calls connect() and stop()      *)
(* calls reset() and disconnect(), each as often as the window's button    *)
(* and the destructor like.  All calls but update() are made by one        *)
(* thread, and update() only comes between start() and stop().             *)
(*                                                                         *)
(* Of a report only this matters: does it hold a control or is it neutral. *)
(*                                                                         *)
(* External: ViGEmClient.dll either lacks an export that initialize() asks *)
(* for or has all nine.  A call that allocates returns a handle that is    *)
(* not in use, or null; the others may fail.  A controller stays on the    *)
(* bus until it is removed or its client is disconnected, whatever becomes *)
(* of the memory of its target.                                            *)
(***************************************************************************)
EXTENDS Naturals

CONSTANTS
  Handles,        \* what vigem_alloc and vigem_target_x360_alloc return
  Null,
  DriverMayFail   \* FALSE: the driver is installed and every call succeeds

ASSUME HandlesAssumption == Null \notin Handles
ASSUME DriverFailureAssumption == DriverMayFail \in BOOLEAN

VARIABLES
  at,          \* where the owning thread is
  caller,      \* the function that called connect() last
  dll,         \* m_hViGEmDll # nullptr
  client,      \* m_client
  target,      \* m_target
  status,      \* m_status
  liveClients, \* clients allocated and not freed
  connected,   \* clients with a connection to the bus
  liveTargets, \* targets allocated and not freed
  plugged,     \* controllers on the bus, as <<client, target>>
  held         \* those of them whose last report holds a control

gamepadVars == <<dll, client, target, status>>
busVars == <<liveClients, connected, liveTargets, plugged, held>>
vars == <<at, caller, gamepadVars, busVars>>

MayFail == DriverMayFail   \* the guard of every failing alternative

Own == <<client, target>>

Init ==
  /\ at = "new" /\ caller = "initialize"
  /\ dll = FALSE
  /\ client = Null /\ target = Null
  /\ status = "Uninitialized"
  /\ liveClients = {} /\ connected = {} /\ liveTargets = {}
  /\ plugged = {} /\ held = {}

-----------------------------------------------------------------------------
(* initialize() *)

LoadDll ==
  /\ at = "new" /\ at' = "alloc"
  /\ dll' = TRUE
  /\ UNCHANGED <<caller, client, target, status, busVars>>

\* The library is missing, or one of its exports, and then it is unloaded.
LoadDllFails ==
  /\ at = "new" /\ at' = "destroy"
  /\ MayFail
  /\ status' \in {"DriverMissing", "Error"}
  /\ UNCHANGED <<caller, dll, client, target, busVars>>

-----------------------------------------------------------------------------
(* connect().  start() ignores its result. *)

AfterSuccess == IF caller = "initialize" THEN "ready" ELSE "started"
AfterFailure == IF caller = "initialize" THEN "destroy" ELSE "started"

AllocClient ==
  /\ at = "alloc" /\ at' = "connect"
  /\ client' \in Handles \ liveClients
  /\ liveClients' = liveClients \cup {client'}
  /\ UNCHANGED <<caller, dll, target, status, connected, liveTargets, plugged, held>>

AllocClientFails ==
  /\ at = "alloc" /\ at' = AfterFailure
  /\ MayFail
  /\ client' = Null
  /\ status' = "Error"
  /\ UNCHANGED <<caller, dll, target, busVars>>

ConnectClient ==
  /\ at = "connect" /\ at' = "target"
  /\ connected' = connected \cup {client}
  /\ UNCHANGED <<caller, gamepadVars, liveClients, liveTargets, plugged, held>>

\* A mutant: the freed client is not forgotten.
ConnectClientFailsDangling ==
  /\ at = "connect" /\ at' = AfterFailure
  /\ MayFail
  /\ status' = "DriverMissing"
  /\ liveClients' = liveClients \ {client}
  /\ UNCHANGED <<caller, dll, client, target, connected, liveTargets, plugged, held>>
ConnectClientFails ==
  /\ at = "connect" /\ at' = AfterFailure
  /\ MayFail
  /\ status' = "DriverMissing"
  /\ liveClients' = liveClients \ {client}
  /\ client' = Null
  /\ UNCHANGED <<caller, dll, target, connected, liveTargets, plugged, held>>

AllocTarget ==
  /\ at = "target" /\ at' = "add"
  /\ target' \in Handles \ liveTargets
  /\ liveTargets' = liveTargets \cup {target'}
  /\ UNCHANGED <<caller, dll, client, status, liveClients, connected, plugged, held>>

\* The client stays connected.
AllocTargetFails ==
  /\ at = "target" /\ at' = AfterFailure
  /\ MayFail
  /\ target' = Null
  /\ status' = "Error"
  /\ UNCHANGED <<caller, dll, client, busVars>>

AddTarget ==
  /\ at = "add" /\ at' = AfterSuccess
  /\ plugged' = plugged \cup {Own}
  /\ status' = "Connected"
  /\ UNCHANGED <<caller, dll, client, target, liveClients, connected, liveTargets, held>>

\* Client and target stay as they are.
AddTargetFails ==
  /\ at = "add" /\ at' = AfterFailure
  /\ MayFail
  /\ status' = "Error"
  /\ UNCHANGED <<caller, dll, client, target, busVars>>

Connecting ==
  \/ AllocClient \/ AllocClientFails \/ ConnectClient \/ ConnectClientFails
  \/ AllocTarget \/ AllocTargetFails \/ AddTarget \/ AddTargetFails

\* ConnectionManager::start, from the constructor on or after stop().
Start ==
  /\ at \in {"ready", "stopped"}
  /\ at' = IF dll THEN "alloc" ELSE "started"
  /\ caller' = "start"
  /\ UNCHANGED <<gamepadVars, busVars>>

-----------------------------------------------------------------------------
(* update() and reset() *)

\* A mutant: the status is not asked for.
DriverIsAskedWithHandles == client # Null /\ target # Null
\* The condition under which update() passes the report on.
DriverIsAsked == status = "Connected" /\ client # Null /\ target # Null

\* A report, and what the driver makes of it.
Report(holds) ==
  /\ DriverIsAsked
  /\ \/ held' = IF holds THEN held \cup {Own} ELSE held \ {Own}
     \/ MayFail /\ held' = held

Update ==
  /\ at = "started"
  /\ \E holds \in BOOLEAN : Report(holds)
  /\ UNCHANGED <<at, caller, gamepadVars, liveClients, connected, liveTargets,
                 plugged>>

\* The first half of ConnectionManager::stop.  The destructor calls it again.
Reset ==
  /\ at \in {"started", "stopped"} /\ at' = "unplug"
  /\ IF DriverIsAsked THEN Report(FALSE) ELSE held' = held
  /\ UNCHANGED <<caller, gamepadVars, liveClients, connected, liveTargets,
                 plugged>>

-----------------------------------------------------------------------------
(* disconnect() *)

\* vigem_target_remove and vigem_disconnect each take the own controller off
\* the bus, and the latter takes off every other one of that client.
Unplugged == {d \in plugged : d[1] = client}

\* A mutant: handles are released without taking the controller off the bus.
DisconnectFreeingOnly ==
  /\ liveTargets' = liveTargets \ {target}
  /\ connected' = connected \ {client}
  /\ liveClients' = liveClients \ {client}
  /\ target' = Null /\ client' = Null
  /\ dll' = FALSE
  /\ status' = "Disconnected"
  /\ UNCHANGED <<plugged, held>>
\* A mutant: half a connection is left alone.
DisconnectWhole ==
  /\ IF client # Null /\ target # Null
     THEN /\ plugged' = plugged \ Unplugged
          /\ held' = held \ Unplugged
          /\ liveTargets' = liveTargets \ {target}
          /\ connected' = connected \ {client}
          /\ liveClients' = liveClients \ {client}
          /\ target' = Null /\ client' = Null
     ELSE UNCHANGED <<client, target, busVars>>
  /\ dll' = FALSE
  /\ status' = "Disconnected"
\* Every step of it is skipped for a handle that is null.
DisconnectBody ==
  /\ plugged' = plugged \ Unplugged
  /\ held' = held \ Unplugged
  /\ liveTargets' = liveTargets \ {target}
  /\ connected' = connected \ {client}
  /\ liveClients' = liveClients \ {client}
  /\ target' = Null /\ client' = Null
  /\ dll' = FALSE
  /\ status' = "Disconnected"

Disconnect ==
  /\ at = "unplug" /\ at' = "stopped"
  /\ DisconnectBody
  /\ UNCHANGED caller

\* initialize() failed: the object is destroyed and the mock takes its place.
Destroy ==
  /\ at = "destroy" /\ at' = "mock"
  /\ DisconnectBody
  /\ UNCHANGED caller

Next ==
  \/ LoadDll \/ LoadDllFails \/ Connecting \/ Start \/ Update \/ Reset
  \/ Disconnect \/ Destroy

Spec == Init /\ [][Next]_vars

-----------------------------------------------------------------------------
Points ==
  {"new", "alloc", "connect", "target", "add", "ready", "started", "unplug",
   "stopped", "destroy", "mock"}
Statuses == {"Uninitialized", "DriverMissing", "Connected", "Disconnected", "Error"}

\* The variables have the types of what they stand for, a controller that
\* holds a control is on the bus, and the client of every controller on the
\* bus is connected.
GamepadTypeOK ==
  /\ at \in Points /\ caller \in {"initialize", "start"}
  /\ dll \in BOOLEAN
  /\ client \in Handles \cup {Null} /\ target \in Handles \cup {Null}
  /\ status \in Statuses
  /\ liveClients \subseteq Handles /\ connected \subseteq liveClients
  /\ liveTargets \subseteq Handles
  /\ plugged \subseteq connected \X Handles
  /\ held \subseteq plugged

\* No handle outlives what it names: client and target are not freed and the
\* library whose functions take them is loaded, on every failing path, after
\* a second connect() and after a second disconnect().
HandlesAreLive ==
  /\ client # Null => client \in liveClients /\ dll
  /\ target # Null => target \in liveTargets /\ dll

\* Whenever update() would pass a report on, its client and its target are a
\* controller on the bus: a connect() that failed half way leaves another
\* status, although handles of an earlier or of half a connection may remain.
ReportsGoToPluggedController ==
  (at \in {"started", "stopped"} /\ DriverIsAsked) => Own \in plugged

\* Only the controller that update() writes to ever holds a control, and none
\* does when stop() has returned, even if the driver turned the neutral
\* report down: the controller that the second connect() loses stays neutral.
HeldOnlyWhileStarted ==
  held # {} => at \in {"started", "unplug"} /\ held = {Own}

\* The application runs with the mock only after everything the failed
\* initialize() had acquired was released again, whichever step failed.
MockLeavesNothingBehind ==
  at = "mock" =>
    /\ ~ dll
    /\ liveClients = {} /\ liveTargets = {} /\ plugged = {}

\* "create a virtual Xbox 360 controller" (README.md:108): a started
\* application shows games one controller.
OneController ==
  at = "started" => \A d, e \in plugged : d = e

\* "feeds them directly into Windows and PC games as a native Xbox 360
\* controller" (README.md:3): with a driver that never fails, a started
\* application has a controller to feed.
StartedHasController == at = "started" => Own \in plugged
=============================================================================

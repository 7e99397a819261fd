----------------------------- MODULE MainWindow -----------------------------
(***************************************************************************)
(* Classes MainWindow and SystemTray: the button that starts and stops the *)
(* receiver, the tray icon and its menu, and the panel with the QR code of *)
(* the receiver's address.  All of this runs on the thread that also calls *)
(* ConnectionManager, so that a call is one step here; what the receiver   *)
(* does meanwhile is known from ReceiverStates, which UdpReceiver          *)
(* implements.                                                             *)
(*                                                                         *)
(* A QR code is told by the text it encodes, a text by the address and the *)
(* port in it.  QrGen::encode throws on the text that stands for an        *)
(* unknown address: a question mark has no code.  Everything else that is  *)
(* drawn shows other components' state as it is, and is left out.          *)
(***************************************************************************)
EXTENDS Naturals

CONSTANTS
  Addresses,      \* IPv4 addresses of this computer
  UnknownAddress, \* "?.?.?.?"
  PortModulus,    \* 2^16
  DefaultPort,    \* 5000
  MaxTyped,       \* bounds the number typed into the port field
  None            \* no text, no picture

ASSUME WindowAssumption ==
  /\ UnknownAddress \notin Addresses
  /\ PortModulus \in Nat \ {0}
  /\ DefaultPort \in 1 .. PortModulus - 1
  /\ MaxTyped \in Nat
  /\ None \notin (Addresses \cup {UnknownAddress}) \X (0 .. PortModulus - 1)

VARIABLES
  state,    \* the receiver's m_state
  port,     \* the receiver's m_port
  typed,    \* the number in the port field
  label,    \* of m_btnToggle
  open,     \* the window exists
  visible,  \* and is shown
  loop,     \* the message loop: "running", "quitting" (WM_QUIT posted), "ended"
  icon,     \* m_tray is installed
  address,  \* what getLocalIpAddress would return
  qrMatrix, \* m_qrMatrix: the text it encodes, or None if it is empty
  qrText,   \* m_qrLastEncoded
  drawn,    \* the QR code on the screen
  painted   \* history: the last step painted the window

receiverVars == <<state, port>>
windowVars == <<label, open, visible, icon, loop>>
qrVars == <<qrMatrix, qrText, drawn>>
vars == <<receiverVars, typed, windowVars, address, qrVars, painted>>

Receiver == INSTANCE ReceiverStates

Ports == 0 .. PortModulus - 1
Texts == (Addresses \cup {UnknownAddress}) \X Ports

\* wWinMain has started the receiver on the port of its command line, and
\* create() has succeeded.  It does not look whether the icon was added.
Init ==
  /\ state = "Listening"
  /\ port \in Ports
  /\ typed = DefaultPort
  /\ label = "Stop Receiver"
  /\ open = TRUE /\ visible = TRUE /\ loop = "running"
  /\ icon \in BOOLEAN
  /\ address \in Addresses \cup {UnknownAddress}
  /\ qrMatrix = None /\ qrText = None /\ drawn = None
  /\ painted = FALSE

-----------------------------------------------------------------------------
(* ConnectionManager::start and ::stop, as far as the window sees them *)

ManagerStart(p) ==
  /\ port' = p
  /\ Receiver!Open

ManagerStop ==
  /\ state' = IF state \in Receiver!Running THEN "Stopped" ELSE state
  /\ UNCHANGED port

-----------------------------------------------------------------------------
(* handleMessage *)

\* A mutant: the number is not cast to 16 bits.
TypedPortUncast == IF typed = 0 THEN DefaultPort ELSE typed
\* _wtoi, the cast to 16 bits and the default.
TypedPort == IF typed % PortModulus = 0 THEN DefaultPort ELSE typed % PortModulus

\* A mutant: the new label is only set when the receiver stops.
ToggleForgettingLabel ==
  IF state = "Stopped"
  THEN ManagerStart(TypedPort) /\ UNCHANGED label
  ELSE ManagerStop /\ label' = "Start Receiver"
Toggle ==
  IF state = "Stopped"
  THEN ManagerStart(TypedPort) /\ label' = "Stop Receiver"
  ELSE ManagerStop /\ label' = "Start Receiver"

\* WM_COMMAND.  It returns before it comes to the commands of the tray's menu,
\* "open", "start", "stop" and "exit".
Command(id) ==
  /\ open
  /\ IF id = "toggle" THEN visible /\ Toggle ELSE icon /\ UNCHANGED <<receiverVars, label>>
  /\ UNCHANGED <<typed, open, visible, icon, loop, address, qrVars>>

Type ==
  /\ open /\ visible
  /\ typed' \in 0 .. MaxTyped
  /\ UNCHANGED <<receiverVars, windowVars, address, qrVars>>

\* "Minimize to tray": there may be no icon in the tray.
Minimize ==
  /\ open /\ visible
  /\ visible' = FALSE
  /\ UNCHANGED <<receiverVars, typed, label, open, icon, loop, address, qrVars>>

\* A double click on the icon.
Restore ==
  /\ open /\ icon
  /\ visible' = TRUE
  /\ UNCHANGED <<receiverVars, typed, label, open, icon, loop, address, qrVars>>

\* A mutant: WM_DESTROY does not post WM_QUIT.
DestroyForgettingQuit ==
  /\ open /\ visible
  /\ open' = FALSE /\ visible' = FALSE
  /\ icon' = FALSE
  /\ UNCHANGED <<receiverVars, typed, label, loop, address, qrVars>>
\* WM_DESTROY: the window is closed.  The receiver runs on.
Destroy ==
  /\ open /\ visible
  /\ open' = FALSE /\ visible' = FALSE
  /\ icon' = FALSE
  /\ loop' = "quitting"
  /\ UNCHANGED <<receiverVars, typed, label, address, qrVars>>

\* The message loop has come to WM_QUIT, and wWinMain returns: it destroys the
\* ConnectionManager, whose destructor stops the receiver.
LoopEnds ==
  /\ loop = "quitting" /\ loop' = "ended"
  /\ ManagerStop
  /\ painted' = FALSE
  /\ UNCHANGED <<typed, label, open, visible, icon, address, qrVars>>

-----------------------------------------------------------------------------
(* onPaint *)

Text == <<address, port>>

\* A mutant: a failing encoder leaves the old picture.
RegenerateKeeping ==
  IF Text = qrText \/ address = UnknownAddress
  THEN UNCHANGED <<qrMatrix, qrText>>
  ELSE qrMatrix' = Text /\ qrText' = Text
RegenerateQr ==
  IF Text = qrText
  THEN UNCHANGED <<qrMatrix, qrText>>
  ELSE IF address = UnknownAddress   \* encode throws
       THEN qrMatrix' = None /\ UNCHANGED qrText
       ELSE qrMatrix' = Text /\ qrText' = Text

Paint ==
  /\ open /\ visible
  /\ IF state = "Stopped"
     THEN drawn' = None /\ UNCHANGED <<qrMatrix, qrText>>
     ELSE RegenerateQr /\ drawn' = qrMatrix'
  /\ UNCHANGED <<receiverVars, typed, windowVars, address>>

-----------------------------------------------------------------------------
\* The receiver thread, while there is one.
Traffic ==
  /\ Receiver!Traffic
  /\ UNCHANGED <<port, typed, windowVars, address, qrVars>>

\* The computer joins or leaves a network.
AddressChanges ==
  /\ open
  /\ address' \in Addresses \cup {UnknownAddress}
  /\ UNCHANGED <<receiverVars, typed, windowVars, qrVars>>

Other ==
  \/ \E id \in {"toggle", "open", "start", "stop", "exit"} : Command(id)
  \/ Type \/ Minimize \/ Restore \/ Destroy \/ Traffic \/ AddressChanges

Next ==
  \/ Paint /\ painted' = TRUE
  \/ Other /\ painted' = FALSE
  \/ LoopEnds

\* The message loop comes to the end of its queue, where WM_QUIT waits, and
\* what follows it returns.
Spec == Init /\ [][Next]_vars /\ WF_vars(LoopEnds)

-----------------------------------------------------------------------------
\* The variables have the types of what they stand for.
WindowTypeOK ==
  /\ state \in Receiver!ReceiverState
  /\ port \in Ports /\ typed \in 0 .. MaxTyped \cup {DefaultPort}
  /\ label \in {"Start Receiver", "Stop Receiver"}
  /\ {open, visible, icon, painted} \subseteq BOOLEAN
  /\ loop \in {"running", "quitting", "ended"}
  /\ address \in Addresses \cup {UnknownAddress}
  /\ {qrMatrix, qrText, drawn} \subseteq Texts \cup {None}

\* While the receiver runs, whoever gets to the window finds a button that
\* says stop (and does, MainWindow.cpp:115-125), unless the window is closed,
\* and then the program is on its way to its destructors' stop() and has left
\* no icon behind.  That one always gets to the window is not said here: see
\* HiddenWindowHasIcon.
RunningOffersStop ==
  state \in Receiver!Running =>
    \/ open /\ label = "Stop Receiver"
    \/ ~ open /\ ~ icon /\ loop = "quitting"

\* Closing the window stops the receiver, although WM_DESTROY itself does not
\* touch it (MainWindow.cpp:149-152): WM_QUIT ends the loop, and wWinMain's
\* return destroys the manager.
ClosingStopsReceiver == ~ open ~> state \notin Receiver!Running

\* A QR code that is painted is that of the address the receiver has now:
\* not of the network the computer was in before, not of the port it had.
PaintedQrIsCurrent == painted => drawn \in {None, Text}

\* What follows says what comments of the code say, and TLC refutes it: it is
\* in no run, README.md tells what is seen.

\* "Minimize to tray" (MainWindow.cpp:143): the user gets back a window that
\* was minimized, and with it the button, by a double click on its icon.
HiddenWindowHasIcon == open /\ ~ visible => icon

\* "Toggle Start/Stop button" (MainWindow.cpp:56): a button that says start
\* starts, which it does in state Stopped.
StartButtonStarts == label = "Start Receiver" => state = "Stopped"

\* "Regenerate QR if IP/port changed or not yet generated"
\* (MainWindow.cpp:291): with a known address a QR code is painted.
QrIsRegenerated ==
  painted /\ state # "Stopped" /\ address \in Addresses => drawn # None
=============================================================================

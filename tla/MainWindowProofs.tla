-------------------------- MODULE MainWindowProofs --------------------------
(***************************************************************************)
(* Proofs about MainWindow, for every set of addresses and every width of  *)
(* ports.                                                                  *)
(***************************************************************************)
EXTENDS MainWindow, TLAPS

\* The picture that is kept is that of the text that is kept, if there is one;
\* this is what makes it right not to draw it again for the same text.
PictureOfText == qrMatrix \in {None, qrText}

WindowInv ==
  /\ WindowTypeOK /\ RunningOffersStop
  /\ PictureOfText /\ PaintedQrIsCurrent

LEMMA TypedPortType == typed \in Nat => TypedPort \in Ports
  BY WindowAssumption DEF TypedPort, Ports

LEMMA WindowInit == Init => WindowInv
  BY WindowAssumption
     DEF Init, WindowInv, WindowTypeOK, RunningOffersStop, PictureOfText,
         PaintedQrIsCurrent, Receiver!ReceiverState, Receiver!Running, Ports

\* start() makes the receiver run or not, and the button offers to stop it in
\* either case; stop() never leaves it running.
LEMMA ToggleFacts ==
  ASSUME WindowInv, Toggle
  PROVE  /\ state' \in Receiver!ReceiverState /\ port' \in Ports
         /\ label' \in {"Start Receiver", "Stop Receiver"}
         /\ state' \in Receiver!Running => label' = "Stop Receiver"
<1>1. typed \in Nat
  <2>1. typed \in 0 .. MaxTyped \/ typed = DefaultPort
    BY DEF WindowInv, WindowTypeOK
  <2>2. DefaultPort \in Nat /\ 0 .. MaxTyped \subseteq Nat
    BY WindowAssumption
  <2>. QED
    BY <2>1, <2>2
<1>. QED
  BY <1>1, TypedPortType
     DEF Toggle, ManagerStart, ManagerStop, WindowInv, WindowTypeOK, Receiver!Open,
         Receiver!Opened, Receiver!ReceiverState, Receiver!Running

LEMMA CommandKeepsInv ==
  ASSUME WindowInv, NEW id, Command(id), painted' = FALSE
  PROVE  WindowInv'
<1>1. CASE id = "toggle"
  <2>1. Toggle /\ open /\ UNCHANGED <<typed, open, visible, icon, loop, address, qrVars>>
    BY <1>1 DEF Command, WindowInv, WindowTypeOK
  <2>2. WindowTypeOK'
    BY <2>1, ToggleFacts DEF WindowInv, WindowTypeOK, qrVars, Texts, Ports
  <2>3. RunningOffersStop'
    BY <2>1, ToggleFacts DEF WindowInv, RunningOffersStop
  <2>. QED
    BY <2>1, <2>2, <2>3 DEF WindowInv, PictureOfText, PaintedQrIsCurrent, qrVars
<1>2. CASE id # "toggle"
  BY <1>2 DEF Command, WindowInv, WindowTypeOK, RunningOffersStop, PictureOfText,
              PaintedQrIsCurrent, receiverVars, qrVars
<1>. QED
  BY <1>1, <1>2

LEMMA OtherKeepsInv ==
  ASSUME WindowInv, Other, painted' = FALSE
  PROVE  WindowInv'
<1>. USE DEF WindowInv, WindowTypeOK, RunningOffersStop, PictureOfText,
             PaintedQrIsCurrent, receiverVars, windowVars, qrVars
<1>1. CASE \E id \in {"toggle", "open", "start", "stop", "exit"} : Command(id)
  BY <1>1, CommandKeepsInv
<1>2. CASE Type
  BY <1>2 DEF Type
<1>3. CASE Minimize
  BY <1>3 DEF Minimize
<1>4. CASE Restore
  BY <1>4 DEF Restore
<1>5. CASE Destroy
  BY <1>5 DEF Destroy
<1>6. CASE Traffic
  BY <1>6 DEF Traffic, Receiver!Traffic, Receiver!Running, Receiver!ReceiverState
<1>7. CASE AddressChanges
  BY <1>7 DEF AddressChanges
<1>. QED
  BY <1>1, <1>2, <1>3, <1>4, <1>5, <1>6, <1>7 DEF Other

\* Whatever the label says then: the destructor's stop() leaves nothing running.
LEMMA LoopEndsKeepsInv ==
  ASSUME WindowInv, LoopEnds
  PROVE  WindowInv'
BY DEF WindowInv, WindowTypeOK, RunningOffersStop, PictureOfText, PaintedQrIsCurrent,
       LoopEnds, ManagerStop, qrVars, Receiver!Running, Receiver!ReceiverState

\* The picture is either drawn anew, dropped, or that of the same text.
LEMMA PaintKeepsInv ==
  ASSUME WindowInv, Paint, painted' = TRUE
  PROVE  WindowInv'
<1>1. Text \in Texts /\ Text' = Text
  BY DEF WindowInv, WindowTypeOK, Paint, Text, Texts, receiverVars
<1>2. /\ qrMatrix' \in {None, qrText'}
      /\ {qrMatrix', qrText'} \subseteq Texts \cup {None}
      /\ drawn' \in {None, Text}
  BY <1>1 DEF WindowInv, WindowTypeOK, PictureOfText, Paint, RegenerateQr
<1>. QED
  BY <1>1, <1>2
     DEF WindowInv, WindowTypeOK, RunningOffersStop, PictureOfText,
         PaintedQrIsCurrent, Paint, receiverVars, windowVars

\* Button, icon and QR panel agree with the receiver (MainWindow.cpp).
THEOREM WindowInvHolds == Spec => []WindowInv
<1>1. WindowInv /\ UNCHANGED vars => WindowInv'
  <2>. SUFFICES ASSUME WindowInv, UNCHANGED vars
                PROVE  WindowInv'
    OBVIOUS
  <2>. USE DEF WindowInv, vars, receiverVars, windowVars, qrVars
  <2>1. WindowTypeOK'
    BY DEF WindowTypeOK
  <2>2. RunningOffersStop' /\ PictureOfText'
    BY DEF RunningOffersStop, PictureOfText
  <2>3. PaintedQrIsCurrent'
    BY DEF PaintedQrIsCurrent, Text
  <2>. QED
    BY <2>1, <2>2, <2>3
<1>2. WindowInv /\ [Next]_vars => WindowInv'
  BY <1>1, OtherKeepsInv, PaintKeepsInv, LoopEndsKeepsInv DEF Next
<1>. QED
  BY WindowInit, <1>2, PTL DEF Spec

\* The variables of the window have their types.
THEOREM WindowTypeCorrect == Spec => []WindowTypeOK
<1>1. WindowInv => WindowTypeOK
  BY DEF WindowInv
<1>. QED
  BY WindowInvHolds, <1>1, PTL

\* Whatever is clicked in whatever order, and whatever start() returned: a
\* running receiver has a window whose button stops it, shown or not, or the
\* window is closed and the message loop is about to end.
THEOREM RunningReceiverOffersStop == Spec => []RunningOffersStop
<1>1. WindowInv => RunningOffersStop
  BY DEF WindowInv
<1>. QED
  BY WindowInvHolds, <1>1, PTL

\* No QR code of an earlier address or port is ever painted.
THEOREM PaintedQrStaysCurrent == Spec => []PaintedQrIsCurrent
<1>1. WindowInv => PaintedQrIsCurrent
  BY DEF WindowInv
<1>. QED
  BY WindowInvHolds, <1>1, PTL
=============================================================================

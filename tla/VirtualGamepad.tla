--------------------------- MODULE VirtualGamepad ---------------------------
(***************************************************************************)
(* The gamepad that games see, as its users know it (interface             *)
(* VirtualGamepad).  With DriverMayReject = FALSE it is MockGamepad, whose *)
(* update() always succeeds and never looks at the status.  With TRUE it   *)
(* is any backend whose driver may turn a report down, as ViGEmGamepad     *)
(* does when vigem_target_x360_update returns an error.                    *)
(***************************************************************************)
EXTENDS ControllerState

CONSTANT DriverMayReject

ASSUME DriverAssumption == DriverMayReject \in BOOLEAN

VARIABLE pad    \* what games see, and what the driver turned down

\* After initialize(), which the constructor of ConnectionManager has called.
\* `plugged' is TRUE from a connect() to the next disconnect(); a connect() that
\* fails, which nobody asks for, is a driver that turns every report down.
\* `refused' is history: the calls that the driver turned down since it last
\* took a report.
PadInit == pad = [plugged |-> TRUE, report |-> Neutral, refused |-> {}]

PadType == [plugged : BOOLEAN, report : Inputs, refused : SUBSET {"update", "reset"}]

UpdateResults == IF DriverMayReject THEN BOOLEAN ELSE {TRUE}

\* A call that sends a report, and what the driver answers.
PadSend(call, input, ok) ==
  pad' = IF ok THEN [pad EXCEPT !.report = input, !.refused = {}]
               ELSE [pad EXCEPT !.refused = @ \cup {call}]

\* A call update(state) that returns ok.
PadUpdate(input, ok) == PadSend("update", input, ok)

\* reset() sends a neutral report and does not look at the result.
PadReset == \E ok \in UpdateResults : PadSend("reset", Neutral, ok)

PadConnect == pad' = [pad EXCEPT !.plugged = TRUE]

\* ViGEmGamepad takes the controller off the bus and with it what it showed;
\* the mock keeps its last report.
PadDisconnect ==
  \E left \in {pad.report, Neutral} :
    pad' = [pad EXCEPT !.plugged = FALSE, !.report = left]
=============================================================================

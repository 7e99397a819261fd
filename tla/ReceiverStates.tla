--------------------------- MODULE ReceiverStates ---------------------------
(***************************************************************************)
(* What the states of the receiver promise to those who look at them       *)
(* (enum ReceiverState): a started receiver listens or is in error, one    *)
(* that listens gets connected and back by traffic alone, and one that     *)
(* runs becomes stopped.  In particular nothing that arrives late makes a  *)
(* receiver that is stopped or in error look alive.                        *)
(***************************************************************************)
VARIABLE state

ReceiverState == {"Stopped", "Listening", "Connected", "Error"}
Running == {"Listening", "Connected"}

Init == state = "Stopped"

Opened(result) == state \notin Running /\ state' = result

Open == \E result \in {"Listening", "Error"} : Opened(result)

Close == state \in Running /\ state' = "Stopped"

Traffic == state \in Running /\ state' \in Running

Next == Open \/ Close \/ Traffic

Spec == Init /\ [][Next]_state
=============================================================================

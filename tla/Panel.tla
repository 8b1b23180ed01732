-------------------------------- MODULE Panel --------------------------------
(***************************************************************************)
(* What the control panel promises the operator: the machine executes an   *)
(* instruction only when it was ordered to, a single step executes exactly *)
(* one, and an instruction that ends with a stop or an error leaves the    *)
(* machine at rest until the next order.  EmuControl implements this.      *)
(***************************************************************************)
EXTENDS Naturals

CONSTANT Range     \* the counter of instructions is kept modulo Range

VARIABLES
    mode,          \* "idle", "starting", "stepping" or "running"
    status,        \* how the last instruction ended
    count,         \* instructions since the last start
    orders         \* orders of the operator

Modes == {"idle", "starting", "stepping", "running"}

\* Power on may leave the machine running: see PowerOnStates of EmuControl.
On == mode \in {"idle", "running"} /\ status = "OK" /\ count = 0

Init == On /\ orders = 0

Order ==
    /\ orders' = orders + 1
    /\ mode' \in Modes
    /\ count' = IF mode' = "starting" THEN 0 ELSE count
    /\ UNCHANGED status

Execute ==
    /\ mode # "idle"
    /\ UNCHANGED orders
    /\ count' = (count + 1) % Range
    /\ status' \in {"OK", "STOP", "STOP_ERROR", "STOP_ERROR_MB_NUMBER"}
    /\ \/ mode' = "idle"
       \/ mode' = "running" /\ mode # "stepping" /\ status' = "OK"

\* A turn without an instruction, the end of the program, and power on again.
Rest  == mode' = "idle" /\ UNCHANGED << status, count, orders >>
Reset == mode = "idle" /\ On' /\ UNCHANGED orders

Next == Order \/ Execute \/ Rest \/ Reset

Spec == Init /\ [][Next]_<< mode, status, count, orders >>
=============================================================================

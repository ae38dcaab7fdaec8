------------------------------ MODULE DeviceUse -----------------------------
(***************************************************************************)
(* How the simulator uses its device I/O: run and step start it, tick the  *)
(* CPU and end it; a failure of either, and quit, end the program.  The    *)
(* device I/O relies on this: a second start would save the terminal it    *)
(* changed itself.                                                         *)
(***************************************************************************)
VARIABLE use    \* "closed", "open" or "exited"

Init == use = "closed"

Open == use = "closed" /\ use' = "open"
Close == use = "open" /\ use' = "closed"
Exit == use # "exited" /\ use' = "exited"

Next == Open \/ Close \/ Exit

Spec == Init /\ [][Next]_use
=============================================================================

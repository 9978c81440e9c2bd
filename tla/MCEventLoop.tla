---------------------------- MODULE MCEventLoop ----------------------------
(* The model-checked instance of EventLoop: a frame of 4 T-states, the       *)
(* sentinel at 6, and contention tables with room beyond it for an           *)
(* instruction and the interrupts that can follow it.                        *)
EXTENDS EventLoop
=============================================================================

------------------------------ MODULE MCGdbServer ------------------------------
(* The settings the configurations choose from; they also give the bounds.   *)
EXTENDS GdbServer

Setting(stop, prompt, leave) == [stop |-> stop, prompt |-> prompt, leave |-> leave]

\* macOS with clients that do not wait, other ports with clients that do.
BothPorts == {Setting("ui", TRUE, TRUE), Setting("emulator", FALSE, FALSE)}
HurriedClients == {Setting("emulator", TRUE, TRUE)}
=============================================================================

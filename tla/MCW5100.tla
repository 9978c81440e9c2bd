------------------------------- MODULE MCW5100 -------------------------------
(* What the guest does with its two sockets, in each of a few small worlds.   *)
EXTENDS W5100

Does(times, mode, arrive, send) ==
  [mode |-> mode, opens |-> times, arrive |-> arrive, send |-> send, sends |-> send,
   hasty |-> FALSE]
Unused == Does(0, "UDP", 0, 0)

\* Socket 0 does p, socket 1 does q.
Both(p, q) == [s \in Socket |-> IF s = 0 THEN p ELSE q]

\* One socket whose rings and pointers wrap, one that is opened twice, two whose
\* descriptors mix while the first has a SEND to finish, and a guest that moves
\* TX_WR before its last SEND is done.
Guests ==
        {Both(Does(1, "TCP", 4, 0), Unused), Both(Does(1, "TCP", 0, 3), Unused),
         Both(Does(1, "UDP", 4, 0), Unused), Both(Does(1, "UDP", 0, 3), Unused),
         Both(Does(2, "TCP", 1, 1), Unused), Both(Does(2, "UDP", 0, 1), Unused),
         Both([Does(1, "UDP", 0, 0) EXCEPT !.sends = 1], Does(1, "TCP", 0, 0)),
         Both([Does(1, "TCP", 0, 2) EXCEPT !.hasty = TRUE], Unused)}
=============================================================================

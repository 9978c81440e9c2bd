---------------------------- MODULE EventSchedule ----------------------------
(***************************************************************************)
(* What the event list promises to its users, without lists, sentinels or  *)
(* lazy deletion: a bag of pending events and the clock.                   *)
(*                                                                         *)
(*   - an event fires at most once, when its time has come, and never      *)
(*     before an event that is due earlier;                                *)
(*   - a pending event is lost only when every event of its type is        *)
(*     removed, or when the machine is restarted;                          *)
(*   - at the end of a frame all pending events and the clock move         *)
(*     together, by exactly the length of the frame, and none of them is   *)
(*     moved to before the beginning of time.                              *)
(***************************************************************************)
EXTENDS Integers, Bags

CONSTANTS
  Type,      \* the types of events that have a handler
  StartUp    \* the events a restarted machine may begin with

VARIABLES
  pending,   \* the bag of events to come, each a record of its time and type
  firing,    \* the set of the event whose handler runs, {} outside handlers
  clock      \* the T-state counter

scheduleVars == <<pending, firing, clock>>

Init ==
  /\ pending \sqsubseteq SetToBag(StartUp)
  /\ firing = {}
  /\ clock = 0

\* The earliest event, and it is due.
Fire(e) ==
  /\ firing = {}
  /\ e.t <= clock
  /\ \A f \in BagToSet(pending) : e.t <= f.t
  /\ pending' = pending (-) SetToBag({e})
  /\ firing' = {e}
  /\ clock' = clock

\* What is left of the pending events when the type T is removed (T is a set
\* of at most one type) and the frame that ends was n T-states long.
Kept(T, n) ==
  [e \in {[f EXCEPT !.t = @ - n] : f \in {g \in BagToSet(pending) : g.type \notin T}}
     |-> pending[[e EXCEPT !.t = @ + n]]]

\* A handler, or the program between handlers, removes a type and adds events;
\* the clock goes on, or is set.
Reschedule(T) ==
  /\ Kept(T, 0) \sqsubseteq pending'
  /\ clock' \in Nat
  /\ firing' = {}

EndFrame(n) ==
  /\ firing = {}
  /\ n <= clock
  /\ \A e \in BagToSet(pending) : n <= e.t
  /\ Kept({}, n) \sqsubseteq pending'
  /\ clock' = clock - n
  /\ firing' = {}

Restart ==
  /\ firing = {}
  /\ pending' \sqsubseteq SetToBag(StartUp)
  /\ clock' \in Nat
  /\ firing' = {}

Next ==
  \/ \E e \in BagToSet(pending) : Fire(e)
  \/ \E T \in {{}} \cup {{t} : t \in Type} : Reschedule(T)
  \/ \E n \in 1 .. clock : EndFrame(n)
  \/ Restart

Spec == Init /\ [][Next]_scheduleVars
=============================================================================

-------------------------------- MODULE Agenda --------------------------------
(***************************************************************************)
(* What time_event.h promises: functions are registered for calendar times *)
(* and are called, the earliest first, once their time has come, each one  *)
(* once.  No list, no timer, no event loop.                                *)
(***************************************************************************)
EXTENDS Naturals

CONSTANT Handler    \* the functions that can be registered

VARIABLES
    clock,          \* the current time
    pending         \* the events that were registered and not handled yet

agendaVars == <<clock, pending>>

Events == [when : Nat, handler : Handler]

AgendaInit ==
    /\ clock \in Nat
    /\ pending = {}

Advance ==
    /\ clock' \in Nat
    /\ clock' > clock
    /\ UNCHANGED pending

Register ==
    /\ pending \subseteq pending'
    /\ pending' \subseteq Events
    /\ UNCHANGED clock

\* "Handles and removes the next chronological event", which may register
\* events for later.
Fire ==
    \E e \in pending :
        /\ e.when <= clock
        /\ pending \ {e} \subseteq pending'
        /\ pending' \subseteq Events \ {e}
        /\ \A f \in pending' : e.when <= f.when
        /\ UNCHANGED clock

AgendaNext == Advance \/ Register \/ Fire

AgendaSpec == AgendaInit /\ [][AgendaNext]_agendaVars
===============================================================================

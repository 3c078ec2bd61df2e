------------------------------ MODULE MCReminders ------------------------------
(***************************************************************************)
(* Reminders for TLC.  The names of the requests play no role: Symmetry.   *)
(***************************************************************************)
EXTENDS Reminders

Symmetry == Permutations(Reminder)
================================================================================

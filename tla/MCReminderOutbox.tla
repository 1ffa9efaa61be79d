-------------------------- MODULE MCReminderOutbox --------------------------
(* One task, due from the first day on: a reminder on each of two days.     *)
EXTENDS ReminderOutbox, TLC
CONSTANTS slides, j1, j2
MCDueDay == slides :> 0
=============================================================================

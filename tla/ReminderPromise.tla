--------------------------- MODULE ReminderPromise ---------------------------
(***************************************************************************)
(* What the reminders of shared tasks promise: a reminder that was queued  *)
(* is one day told or dropped, unless the jobs are halted before, once and *)
(* for ever, and it is on record as told only if somebody was still to be  *)
(* reminded when it was recorded and the provider had taken it.            *)
(***************************************************************************)
CONSTANT Reminders

VARIABLES halted,   \* there is more to scan than a job accepts
          wanted,   \* the task is open and still this speaker's
          taken,    \* the provider has accepted the message
          owed, told, dropped

vars == <<halted, wanted, taken, owed, told, dropped>>

Init == /\ wanted \subseteq Reminders
        /\ halted = FALSE
        /\ taken = {} /\ owed = {} /\ told = {} /\ dropped = {}

\* Tasks are completed, opened again and taken away; the provider takes what
\* it is offered, also a reminder it has been told of before; more and more
\* assignments are made.
World == /\ halted => halted'
         /\ wanted' \subseteq Reminders
         /\ taken \subseteq taken' /\ taken' \subseteq taken \cup owed \cup told \cup dropped
         /\ UNCHANGED <<owed, told, dropped>>

Owe == /\ UNCHANGED <<halted, wanted, taken, told, dropped>>
       /\ owed \subseteq owed'
       /\ owed' \ owed \subseteq wanted \ (told \cup dropped)

Tell(r) == /\ r \in owed \cap wanted \cap taken
           /\ owed' = owed \ {r} /\ told' = told \cup {r}
           /\ UNCHANGED <<halted, wanted, taken, dropped>>

Drop(r) == /\ r \in owed
           /\ owed' = owed \ {r} /\ dropped' = dropped \cup {r}
           /\ UNCHANGED <<halted, wanted, taken, told>>

Settle(r) == Tell(r) \/ Drop(r)

Next == World \/ Owe \/ \E r \in Reminders : Settle(r)

Spec == /\ Init /\ [][Next]_vars
        /\ \A r \in Reminders : WF_vars(~halted /\ Settle(r))
=============================================================================

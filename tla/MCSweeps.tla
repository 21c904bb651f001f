------------------------------ MODULE MCSweeps ------------------------------
(* Handovers and reminders of one group, for TLC.  They share nothing but   *)
(* who belongs to the group: a behaviour is about handovers while their     *)
(* author belongs to it, and about reminders once the author has left it    *)
(* without ever having worked on one.                                       *)
EXTENDS Handover, Reminders, TLC

NoHandover == now = 0 /\ Said = {} /\ screen = None /\ Published = {}

SweepsInit == HandoverInit /\ RemindersInit

SweepsNext ==
    \/ /\ Author \in members
       /\ HandoverNext
       /\ UNCHANGED <<minute, appt, notified, told, swept, todos>>
    \/ /\ NoHandover
       /\ RemindersNext
       /\ Author \notin members'
       /\ UNCHANGED <<now, said, screen, hand, ack, checks, notices, overtaken>>

SweepsSpec == SweepsInit /\ [][SweepsNext]_<<handoverVars, remindersVars>>

\* No property relates what a draft is made from to who signs it: one or the
\* other varies.  Nothing relates the signatures of two handovers.
OneQuestion ==
    \/ Said = {} /\ screen = None /\ Cardinality(Published) <= 1
    \/ members = {Author} /\ \A h \in Hands : Signers(h) = {}

\* An event, the meetings and a todo have nothing to do with each other, nor have the
\* participants of an appointment.
OneAtATime ==
    LET present == {a \in Appointments : appt[a] # Unset} \cup {x[3] : x \in told}
        around == members \cup {x[1] : x \in told}
    IN  /\ present \subseteq Meetings \/ Cardinality(present) <= 1
        /\ present = {} \/ \A t \in Todos : todo[t] = NoTodo
        /\ present = {} \/ Cardinality(around) <= 1
        /\ Cardinality(told) <= IF Cardinality(present) > 1 THEN 1 ELSE 2

\* To end before the first day is to have no day; to end on the last day there is to
\* look at, or later, is not to end.
EndsInSight ==
    \A e \in Events : appt[e] # Unset /\ appt[e].until # Unset =>
                          appt[e].until \in First(e) .. Day(LastMinute) - 1

Alike == Permutations(People \ {Author})
         \cup Permutations(Meetings) \cup Permutations(Titles)
=============================================================================

-------------------------------- MODULE Group --------------------------------
(***************************************************************************)
(* The participants of a group (meeting_participants), who come and go     *)
(* while the timers of server/src/index.ts look at them: whom a sweep      *)
(* writes to is read when it runs.                                         *)
(***************************************************************************)

CONSTANT
    People          \* who may be a participant

VARIABLE
    members         \* the participants

Joins(p) ==
    /\ p \notin members
    /\ members' = members \cup {p}

\* What the others hold of who leaves - signatures, todos - stays.
Leaves(p) ==
    /\ p \in members
    /\ members' = members \ {p}
=============================================================================

--------------------------- MODULE CallLifecycle ---------------------------
(***************************************************************************)
(* What the call room and the recap scheduler together promise about a     *)
(* meeting's call, with no sockets, no Room objects and no timers: a call  *)
(* opens, it empties, and after a grace period that a re-entry cuts short  *)
(* it is recapped - once, and only from the grace period.  A call may come *)
(* apart, when two people open it at once; only then can it be thought     *)
(* empty while some go on talking.                                         *)
(***************************************************************************)
EXTENDS Naturals

VARIABLES
    phase,      \* "idle", "open" or "grace"
    split,      \* some are in a room of their own, which nobody else can enter
    running     \* the number of recaps in progress

callVars == <<phase, split, running>>

CallTypeOK ==
    /\ phase \in {"idle", "open", "grace"}
    /\ split \in BOOLEAN
    /\ running \in Nat

CallInit == phase = "idle" /\ split = FALSE /\ running = 0

\* Someone comes to a meeting with no call, or back within the grace period.
Open ==
    /\ phase # "open"
    /\ phase' = "open"
    /\ split' \in {split, FALSE}
    /\ UNCHANGED running

\* A second one who found no call opens it over the first.
OpenOver ==
    /\ phase = "open"
    /\ split' \in BOOLEAN
    /\ UNCHANGED <<phase, running>>

\* The last one leaves.
Empty ==
    /\ phase = "open" /\ ~split
    /\ phase' = "grace"
    /\ UNCHANGED <<split, running>>

\* The last one of a part leaves: the call counts as over.
PartEmpties ==
    /\ split
    /\ phase' = "grace"
    /\ split' \in BOOLEAN
    /\ UNCHANGED running

\* Whoever was in a room of their own is there no longer.
Rejoin ==
    /\ split
    /\ split' = FALSE
    /\ UNCHANGED <<phase, running>>

\* The grace period ends: its only end but a re-entry is a recap.
Recap ==
    /\ phase = "grace"
    /\ phase' = "idle"
    /\ running' = running + 1
    /\ UNCHANGED split

\* A face-to-face recording is recapped at once, for a call in its grace
\* period too.
RecapField ==
    /\ phase' = IF phase = "grace" THEN "idle" ELSE phase
    /\ running' = running + 1
    /\ UNCHANGED split

Finish ==
    /\ running > 0
    /\ running' = running - 1
    /\ UNCHANGED <<phase, split>>

\* The server stops: a call going on or in its grace period is not recapped.
Stop ==
    /\ phase' = "idle"
    /\ split' = FALSE
    /\ running' = 0

CallNext ==
    \/ Open \/ OpenOver
    \/ Empty \/ PartEmpties \/ Rejoin
    \/ Recap \/ RecapField
    \/ Finish
    \/ Stop

CallSpec == CallInit /\ [][CallNext]_callVars /\ WF_callVars(Recap)
=============================================================================

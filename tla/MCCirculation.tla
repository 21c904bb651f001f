--------------------------- MODULE MCCirculation ---------------------------
(* Instances of Circulation for TLC.                                        *)
EXTENDS Circulation

\* Two of what waits, for a body or for the AI, or one while somebody who has signed
\* is away: one notice that they miss is enough.  Of two uploads, and of what
\* follows the second, it is the versions that matter, not who signs.
\* The creator stays in the group.
FewAtATime ==
    /\ Creator \in members
    /\ Cardinality(uploads) + Cardinality(jobs) <= 2
    /\ Cardinality(uploads) + Cardinality(jobs) = 2 => signed \cup {x[1] : x \in past} \subseteq members
    /\ Cardinality(uploads) = 2 \/ blobs > 2 => ~required /\ ~trashed /\ members = {Creator}
=============================================================================

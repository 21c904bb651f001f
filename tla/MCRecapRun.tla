----------------------------- MODULE MCRecapRun -----------------------------
(* Instances of RecapRun for TLC.                                           *)
EXTENDS RecapRun, TLC

\* Of a run that has stored its recap no property of the safety run reads the
\* window and, once another state has been checked, which runs it followed.
Lately(k) ==
    IF run[k].stage = "done"
    THEN <<run[k].material>>
    ELSE <<run[k]>>

SafetyView ==
    <<now, talkVars, soundVars, callVars, ended, [k \in Runs |-> Lately(k)], restarts, missed>>

\* No message, chunk or run differs from another.
Alike == Permutations(Words) \cup Permutations(Chunks) \cup Permutations(Runs)

\* Three messages, or a message and a stretch of speech, or two of speech; with
\* a restart two messages, or a message and a stretch of speech.  With speech or
\* a restart it all takes two seconds; the browser recognises one of two stretches.
FewSaid ==
    LET all == {i \in Items : said[i] # None}
        heard == all \cap Chunks
    IN  \/ heard = {} /\ restarts = 0
        \/ /\ now <= 1 /\ Cardinality(all) <= 2 /\ Cardinality(captions) <= 1
           /\ restarts > 0 => Cardinality(heard) <= 1
=============================================================================

----------------------------- MODULE MCAgenda ------------------------------
(* Instances of Agenda for TLC.                                             *)
EXTENDS Agenda, TLC

\* Every recap may have found nothing, or what the AI has recorded before.
Citing == [r \in Recaps |-> {{}, {AutoRecord}}]

\* No property reads the order of an item's events, but for the last decision
\* that closed it.
LastResolved(i) ==
    {events[i][n].source : n \in
        {m \in DOMAIN events[i] :
            /\ events[i][m].kind = "resolved"
            /\ \A k \in DOMAIN events[i] : events[i][k].kind = "resolved" => k <= m}}
Wakes(i, s) == Cardinality({n \in DOMAIN events[i] : events[i][n] = [kind |-> "wake", source |-> s]})
Life(i) == <<Count(i, "carried"), LastResolved(i), [s \in Sources |-> Wakes(i, s)]>>

AgendaView == <<item, [i \in Items |-> Life(i)], cache, gen, settle, closings>>

\* Two of the functions that await a model are under way at once, at most.
FewAwait ==
    Cardinality({g \in Gens : gen[g].stage # "idle"})
        + Cardinality({r \in Recaps : settle[r].stage \in {"judging", "waking"}}) <= 2

\* No title, recap or request differs from another.
AlikeInAgenda == Permutations(Titles) \cup Permutations(Recaps) \cup Permutations(Gens)
=============================================================================

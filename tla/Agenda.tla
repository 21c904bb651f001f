------------------------------- MODULE Agenda -------------------------------
(***************************************************************************)
(* The agenda of one meeting (server/src/steward.ts): items that the AI    *)
(* proposes, people close or put on hold, and every recap settles or       *)
(* carries over.  Three of its functions await a model between reading     *)
(* the items and acting on what they read: generateAgenda,                 *)
(* settleAgendaAfterRecap and wakeWaitingAgendas.  The model is            *)
(* configured; any call of it may fail.                                    *)
(***************************************************************************)
EXTENDS Integers, FiniteSets, Sequences

CONSTANTS
    Titles,         \* normalised titles
    Items,          \* ids of agenda_items, in the order of AUTOINCREMENT
    Recaps,         \* recaps of calls; each is settled once
    AutoRecord,     \* a record the AI made in the chat, cited by several recaps
    Decisions,      \* Decisions[r]: the sets of records recap r may cite
    Gens,           \* requests for an agenda that are under way
    None,           \* no cache, no recap
    CarryMax,       \* CARRYOVER_MAX
    AgendaMax,      \* how many entries an agenda has: 5
    CacheLife       \* AGENDA_CACHE_MS, in ticks

ASSUME AgendaAssumption ==
    /\ Titles # {}
    /\ Items \subseteq Nat /\ IsFiniteSet(Items)
    /\ AutoRecord \notin Recaps
    /\ Decisions \in [Recaps -> SUBSET SUBSET (Recaps \cup {AutoRecord})]
    /\ None \notin Recaps \cup {AutoRecord}
    /\ None \notin [entries : SUBSET Titles, age : 0 .. CacheLife]
    /\ {CarryMax, AgendaMax, CacheLife} \subseteq Nat

VARIABLES
    item,       \* item[i]: row i of agenda_items
    events,     \* events[i]: what recaps did to it (agenda_events), by id
    cache,      \* agendaCache of the meeting, or None
    gen,        \* gen[g]: the local variables of a generateAgenda
    settle,     \* settle[r]: those of the settlement of recap r
    settled,    \* history: titles a settlement closed, not proposed again since
    overtaken,  \* history: overtaken[g]: titles of g closed by hand since g read them
    revived     \* history: those of the request whose agenda is in the cache

closings == <<settled, overtaken, revived>>
vars == <<item, events, cache, gen, settle, closings>>

Sources == Recaps \cup {AutoRecord}
Ages == 0 .. CacheLife

\* rounds is a count of meetings, link the record whose decision closed the item.
Row ==
    [title : Titles, state : {"free", "open", "closed"}, waiting : BOOLEAN,
     rounds : Nat, link : Sources \cup {None}]

Event == [kind : {"carried", "resolved", "wake"}, source : Sources]

\* Entries are known by their titles; age runs from generatedAt to CacheLife.
Cached == [entries : SUBSET Titles, age : Ages]

Gen == [stage : {"idle", "asking", "matching"}, titles : SUBSET Titles, age : Ages]

Settlement ==
    [stage : {"none", "judging", "waking", "done"}, items : SUBSET Items,
     refs : SUBSET Sources]

TypeOK ==
    /\ item \in [Items -> Row]
    /\ events \in [Items -> Seq(Event)]
    /\ cache \in Cached \cup {None}
    /\ gen \in [Gens -> Gen]
    /\ settle \in [Recaps -> Settlement]
    /\ settled \subseteq Titles
    /\ overtaken \in [Gens -> SUBSET Titles]
    /\ revived \subseteq Titles

IdleGen == [stage |-> "idle", titles |-> {}, age |-> 0]
Idle(stage) == [stage |-> stage, items |-> {}, refs |-> {}]

\* The title of a free row has no meaning; CHOOSE fixes it.
Init ==
    /\ item = [i \in Items |-> [title |-> CHOOSE t \in Titles : TRUE, state |-> "free",
                                waiting |-> FALSE, rounds |-> 1, link |-> None]]
    /\ events = [i \in Items |-> << >>]
    /\ cache = None
    /\ gen = [g \in Gens |-> IdleGen]
    /\ settle = [r \in Recaps |-> Idle("none")]
    /\ settled = {}
    /\ overtaken = [g \in Gens |-> {}]
    /\ revived = {}

-----------------------------------------------------------------------------
(* The table.                                                              *)

Open == {i \in Items : item[i].state = "open"}
Free == {i \in Items : item[i].state = "free"}
OpenTitles == {item[i].title : i \in Open}
Waiting == {i \in Open : item[i].waiting}

\* ORDER BY rounds DESC, id ASC
Before(i, j) ==
    \/ item[i].rounds > item[j].rounds
    \/ item[i].rounds = item[j].rounds /\ i < j

\* listCarryover: the items that lead the next agenda.
Carry == {i \in Open : Cardinality({j \in Open : Before(j, i)}) < CarryMax}

\* The cache answers a request while it is young.
Valid == cache # None /\ cache.age < CacheLife

-----------------------------------------------------------------------------
(* People.                                                                 *)

Older(age) == IF age < CacheLife THEN age + 1 ELSE age

Tick ==
    /\ cache' = IF cache = None THEN None ELSE [cache EXCEPT !.age = Older(@)]
    /\ gen' = [g \in Gens |-> IF gen[g].stage = "matching"
                              THEN [gen[g] EXCEPT !.age = Older(@)] ELSE gen[g]]
    /\ UNCHANGED <<item, events, settle, closings>>

\* The requests that list t will do so without reading the table again.
Overtake(t) ==
    overtaken' = [g \in Gens |-> IF t \in gen[g].titles THEN overtaken[g] \cup {t}
                                ELSE overtaken[g]]

\* Mutant: the cache is left as it is.
CloseKeepsCache(i) ==
    /\ i \in Open
    /\ item' = [item EXCEPT ![i].state = "closed"]
    /\ Overtake(item[i].title)
    /\ UNCHANGED <<events, cache, gen, settle, settled, revived>>

\* resolveAgendaItem
Close(i) ==
    /\ i \in Open
    /\ item' = [item EXCEPT ![i].state = "closed"]
    /\ cache' = None /\ revived' = {}
    /\ Overtake(item[i].title)
    /\ UNCHANGED <<events, gen, settle, settled>>

\* setAgendaStatus: the item waits for something, or no longer does.
SetStatus(i) ==
    /\ i \in Open
    /\ \E b \in BOOLEAN : item' = [item EXCEPT ![i].waiting = b]
    /\ cache' = None /\ revived' = {}
    /\ UNCHANGED <<events, gen, settle, settled, overtaken>>

-----------------------------------------------------------------------------
(* generateAgenda.                                                         *)

\* The cached agenda answers, or the items carried over are read.
GenStart(g) ==
    /\ gen[g].stage = "idle"
    /\ ~Valid
    /\ gen' = [gen EXCEPT ![g] = [stage |-> "asking", age |-> 0,
                                  titles |-> {item[i].title : i \in Carry}]]
    /\ UNCHANGED <<item, events, cache, settle, closings>>

\* The rows that persistNewAgendaItems inserts for the titles in T: the first
\* free ones, in the order in which the AI named the titles.
Inserted(T) ==
    {f \in [T -> Free] :
        /\ \A t, u \in T : f[t] = f[u] => t = u
        /\ \A t \in T : \A i \in Free : i < f[t] => \E u \in T : f[u] = i}

NewRow(t) ==
    [title |-> t, state |-> "open", waiting |-> FALSE, rounds |-> 1, link |-> None]

\* Mutant: the titles already tracked are those read before the AI was asked.
PersistUnread(carried, fresh) ==
    \E f \in Inserted(fresh \ carried) :
        item' = [i \in Items |-> IF \E t \in DOMAIN f : f[t] = i
                                 THEN NewRow(CHOOSE t \in DOMAIN f : f[t] = i)
                                 ELSE item[i]]

\* persistNewAgendaItems: a title that an open item has is not inserted.
Persist(carried, fresh) ==
    \E f \in Inserted(fresh \ OpenTitles) :
        item' = [i \in Items |-> IF \E t \in DOMAIN f : f[t] = i
                                 THEN NewRow(CHOOSE t \in DOMAIN f : f[t] = i)
                                 ELSE item[i]]

\* The agenda is what is carried over and, after it, what the AI adds or the
\* rules do (which have no row), cut to AgendaMax.
Cut(carried, fresh) ==
    {T \in SUBSET (carried \cup fresh) :
        /\ carried \subseteq T
        /\ Cardinality(T) <= AgendaMax
        /\ T = carried \cup fresh \/ Cardinality(T) = AgendaMax}

\* aiAgenda answers with up to four titles, or fails.
GenAnswer(g) ==
    /\ gen[g].stage = "asking"
    /\ \/ \E fresh \in SUBSET Titles :
             /\ fresh # {} /\ Cardinality(fresh) <= 4
             /\ Persist(gen[g].titles, fresh)
             /\ \E T \in Cut(gen[g].titles, fresh) :
                    gen' = [gen EXCEPT ![g] = [stage |-> "matching", titles |-> T, age |-> 0]]
             /\ settled' = settled \ fresh
       \/ /\ gen' = [gen EXCEPT ![g].stage = "matching"]
          /\ UNCHANGED <<item, settled>>
    /\ UNCHANGED <<events, cache, settle, overtaken, revived>>

\* findSimilarClosedAgenda has answered or failed.
GenStore(g) ==
    /\ gen[g].stage = "matching"
    /\ cache' = [entries |-> gen[g].titles, age |-> gen[g].age]
    /\ revived' = overtaken[g]
    /\ gen' = [gen EXCEPT ![g] = IdleGen]
    /\ overtaken' = [overtaken EXCEPT ![g] = {}]
    /\ UNCHANGED <<item, events, settle, settled>>

-----------------------------------------------------------------------------
(* settleAgendaAfterRecap.                                                 *)

\* Mutant: the items that have a status wait for it, and no meeting is counted.
CarriedSkipsWaiting(row) ==
    IF row.state = "open" /\ ~row.waiting THEN [row EXCEPT !.rounds = @ + 1] ELSE row

\* Every row that is open once the settlement has closed some has had a meeting.
Carried(row) ==
    IF row.state = "open" THEN [row EXCEPT !.rounds = @ + 1] ELSE row

\* Mutant: an item that has been closed keeps the record that closed it.
ResolvedOnce(row, ref) ==
    IF row.state = "open" THEN [row EXCEPT !.state = "closed", !.link = ref] ELSE row

\* The UPDATE does not look at whether the item is still open.
Resolved(row, ref) == [row EXCEPT !.state = "closed", !.link = ref]

\* wakeWaitingAgendas reads the items that wait, and awaits their embeddings.
Woken(r, refs, rows) ==
    LET W == {i \in Items : rows[i].state = "open" /\ rows[i].waiting}
    IN  settle' = [settle EXCEPT ![r] =
                     IF W = {} THEN Idle("done")
                     ELSE [stage |-> "waking", items |-> W, refs |-> refs]]

\* The record an event names: the recap, if the answer named no decision.
Cited(r, ref) == IF ref = None THEN r ELSE ref

\* The verdict on the items in L: which decision, if any, has closed which.
Conclude(r, L, refs, verdict) ==
    LET done == DOMAIN verdict
        rows == [i \in Items |-> Carried(IF i \in done THEN Resolved(item[i], verdict[i])
                                         ELSE item[i])]
    IN  /\ item' = rows
        /\ events' = [i \in Items |->
                        IF i \in done
                        THEN Append(events[i], [kind |-> "resolved", source |-> Cited(r, verdict[i])])
                        ELSE IF i \in L
                        THEN Append(events[i], [kind |-> "carried", source |-> r])
                        ELSE events[i]]
        /\ settled' = settled \cup {item[i].title : i \in done}
        /\ Woken(r, refs, rows)

\* Recap r has been stored: the cache is dropped and the open items are read.
\* With a decision to compare them with the AI is asked; with none they are
\* carried over at once.
SettleStart(r) ==
    /\ settle[r].stage = "none"
    /\ cache' = None /\ revived' = {}
    /\ \E refs \in Decisions[r] :
          \/ /\ Open = {}
             /\ settle' = [settle EXCEPT ![r] = Idle("done")]
             /\ UNCHANGED <<item, events, settled>>
          \/ /\ Open # {} /\ refs # {}
             /\ settle' = [settle EXCEPT ![r] = [stage |-> "judging", items |-> Open,
                                                 refs |-> refs]]
             /\ UNCHANGED <<item, events, settled>>
          \/ /\ Open # {} /\ refs = {}
             /\ Conclude(r, Open, refs, << >>)
    /\ UNCHANGED <<gen, overtaken>>

\* The AI names items of the list it was given, each with a decision or, in the
\* older form of the answer, with none; failing, it names no item.
SettleAnswer(r) ==
    /\ settle[r].stage = "judging"
    /\ \E S \in SUBSET settle[r].items :
       \E verdict \in [S -> settle[r].refs \cup {None}] :
           Conclude(r, settle[r].items, settle[r].refs, verdict)
    /\ UNCHANGED <<cache, gen, overtaken, revived>>

-----------------------------------------------------------------------------
(* wakeWaitingAgendas, once the embeddings are there.                      *)

HasWake(i, s) == \E n \in DOMAIN events[i] : events[i][n] = [kind |-> "wake", source |-> s]

\* Once for each recap.
WakeNew(i, s) == ~HasWake(i, s)

\* Each item is matched with the nearest decision, or with the summary, if it
\* is near enough.  Whether the item still waits is not looked at again.
Wake(r) ==
    /\ settle[r].stage = "waking"
    /\ \E S \in SUBSET settle[r].items :
       \E best \in [S -> settle[r].refs \cup {r}] :
          events' = [i \in Items |->
                       IF i \in S /\ WakeNew(i, best[i])
                       THEN Append(events[i], [kind |-> "wake", source |-> best[i]])
                       ELSE events[i]]
    /\ settle' = [settle EXCEPT ![r] = Idle("done")]
    /\ UNCHANGED <<item, cache, gen, closings>>

\* The server restarts: the table and the events stay, what awaited is lost.
Restart ==
    /\ cache' = None
    /\ gen' = [g \in Gens |-> IdleGen]
    /\ settle' = [r \in Recaps |-> IF settle[r].stage = "none" THEN settle[r] ELSE Idle("done")]
    /\ overtaken' = [g \in Gens |-> {}] /\ revived' = {}
    /\ UNCHANGED <<item, events, settled>>

Next ==
    \/ Tick
    \/ \E i \in Items : Close(i) \/ SetStatus(i)
    \/ \E g \in Gens : GenStart(g) \/ GenAnswer(g) \/ GenStore(g)
    \/ \E r \in Recaps : SettleStart(r) \/ SettleAnswer(r) \/ Wake(r)
    \/ Restart

Spec == Init /\ [][Next]_vars

-----------------------------------------------------------------------------
(* Properties.                                                             *)

\* No two open items of a meeting have one title, whichever requests for an
\* agenda overlap: the titles are read again after the AI has answered
\* (persistNewAgendaItems).
NoDuplicateOpen ==
    \A i, j \in Open : item[i].title = item[j].title => i = j

Count(i, kind) == Cardinality({n \in DOMAIN events[i] : events[i][n].kind = kind})

\* What the life of an open item shows as carried over never exceeds the meetings
\* its agenda entry counts (rounds), though the first is written for the items
\* that were open before the AI was asked, the second for those open after it.
CarriedIsCounted ==
    \A i \in Open : Count(i, "carried") < item[i].rounds

\* The decision that an item's page shows as the one that closed it is the one
\* its last resolved event names, even if two settlements closed it.
LinkIsLastVerdict ==
    \A i \in Items :
        LET R == {n \in DOMAIN events[i] : events[i][n].kind = "resolved"}
        IN  item[i].link # None =>
              \E n \in R : (\A m \in R : m <= n) /\ events[i][n].source = item[i].link

\* "So that the ten-minute cache does not revive a closed item" (steward.ts): the
\* agenda that answers shows no item a person has closed.
ClosedStaysOut ==
    Valid => cache.entries \subseteq OpenTitles \cup settled

\* The one way in which a closed item comes back: the request whose agenda is
\* cached had read the item, and was under way when a person closed it.  No
\* closing before it or after it is undone, and no earlier request's is.
RevivedByOverlapOnly ==
    cache # None => cache.entries \subseteq OpenTitles \cup settled \cup revived
=============================================================================

--------------------------- MODULE Agenda_proofs ---------------------------
(***************************************************************************)
(* What holds of an agenda for any number of items, of requests for it     *)
(* that overlap, and of recaps that settle it at the same time.            *)
(***************************************************************************)
EXTENDS Agenda, FiniteSetTheorems, TLAPS

USE AgendaAssumption

-----------------------------------------------------------------------------
(* An event is added to those of an item.                                  *)

LEMMA Added ==
    ASSUME NEW s \in Seq(Event), NEW e \in Event
    PROVE  /\ Append(s, e) \in Seq(Event)
           /\ Len(s) \in Nat /\ DOMAIN s = 1 .. Len(s)
           /\ DOMAIN Append(s, e) = 1 .. Len(s) + 1
           /\ \A n \in 1 .. Len(s) : Append(s, e)[n] = s[n]
           /\ Append(s, e)[Len(s) + 1] = e
  OBVIOUS

\* How many events of a kind there are.
OfKind(s, kind) == {n \in DOMAIN s : s[n].kind = kind}

LEMMA CountIsNat ==
    ASSUME NEW s \in Seq(Event), NEW kind
    PROVE  IsFiniteSet(OfKind(s, kind)) /\ Cardinality(OfKind(s, kind)) \in Nat
<1>1. DOMAIN s = 1 .. Len(s) /\ Len(s) \in Nat
  OBVIOUS
<1>2. IsFiniteSet(1 .. Len(s))
  BY <1>1, FS_Interval
<1>3. OfKind(s, kind) \subseteq 1 .. Len(s)
  BY <1>1 DEF OfKind
<1> QED BY <1>2, <1>3, FS_Subset, FS_CardinalityType

LEMMA CountAdded ==
    ASSUME NEW s \in Seq(Event), NEW e \in Event, NEW kind
    PROVE  Cardinality(OfKind(Append(s, e), kind)) =
              Cardinality(OfKind(s, kind)) + IF e.kind = kind THEN 1 ELSE 0
<1>1. CASE e.kind = kind
  <2>1. OfKind(Append(s, e), kind) = OfKind(s, kind) \cup {Len(s) + 1}
    BY <1>1, Added DEF OfKind
  <2>2. Len(s) + 1 \notin OfKind(s, kind)
    BY Added DEF OfKind
  <2> QED BY <1>1, <2>1, <2>2, CountIsNat, FS_AddElement
<1>2. CASE e.kind # kind
  <2>1. OfKind(Append(s, e), kind) = OfKind(s, kind)
    BY <1>2, Added DEF OfKind
  <2> QED BY <1>2, <2>1, CountIsNat
<1> QED BY <1>1, <1>2

-----------------------------------------------------------------------------
(* What a request writes.                                                  *)

LEMMA Inserts ==
    ASSUME TypeOK, NEW C, NEW fresh \in SUBSET Titles, Persist(C, fresh)
    PROVE  /\ item' \in [Items -> Row]
           /\ \A i \in Items \ Free : item'[i] = item[i]
           /\ \A i \in Free : \/ item'[i] = item[i]
                              \/ \E t \in fresh \ OpenTitles : item'[i] = NewRow(t)
           /\ \A t \in fresh \ OpenTitles : \E i \in Free : item'[i] = NewRow(t)
           /\ \A i, j \in Free :
                 item'[i].state = "open" /\ item'[j].state = "open"
                   /\ item'[i].title = item'[j].title => i = j
<1> DEFINE T == fresh \ OpenTitles
<1>1. PICK f \in [T -> Free] :
        /\ \A t, u \in T : f[t] = f[u] => t = u
        /\ item' = [i \in Items |-> IF \E t \in DOMAIN f : f[t] = i
                                    THEN NewRow(CHOOSE t \in DOMAIN f : f[t] = i)
                                    ELSE item[i]]
  BY DEF Persist, Inserted
<1>2. DOMAIN f = T /\ \A t \in T : f[t] \in Free
  OBVIOUS
<1>3. \A t \in T : NewRow(t) \in Row /\ NewRow(t).title = t
  BY DEF NewRow, Row
<1>4. ASSUME NEW i \in Items, NEW t \in T, f[t] = i
      PROVE  item'[i] = NewRow(t)
  <2>1. (CHOOSE u \in DOMAIN f : f[u] = i) = t
    BY <1>1, <1>2, <1>4
  <2> QED BY <1>1, <1>2, <1>4, <2>1
<1>5. ASSUME NEW i \in Items, \A t \in T : f[t] # i
      PROVE  item'[i] = item[i]
  BY <1>1, <1>2, <1>5
<1>6. Free \subseteq Items
  BY DEF Free
<1>7. item' \in [Items -> Row]
  <2>1. \A i \in Items : item'[i] \in Row
    BY <1>3, <1>4, <1>5 DEF TypeOK
  <2>2. item' = [i \in Items |-> item'[i]]
    BY <1>1
  <2> QED BY <2>1, <2>2
<1>8. \A i \in Items \ Free : item'[i] = item[i]
  BY <1>2, <1>5
<1>9. \A i \in Free : \/ item'[i] = item[i]
                      \/ \E t \in T : item'[i] = NewRow(t)
  BY <1>4, <1>5, <1>6
<1>10. \A t \in T : \E i \in Free : item'[i] = NewRow(t)
  BY <1>2, <1>4, <1>6
<1>11. ASSUME NEW i \in Free, NEW j \in Free, item'[i].state = "open",
              item'[j].state = "open", item'[i].title = item'[j].title
       PROVE  i = j
  <2>1. item[i].state # "open" /\ item[j].state # "open"
    BY DEF Free
  <2>2. PICK t \in T : f[t] = i
    BY <1>5, <1>6, <1>11, <2>1
  <2>3. PICK u \in T : f[u] = j
    BY <1>5, <1>6, <1>11, <2>1
  <2>4. t = u
    BY <1>3, <1>4, <1>6, <1>11, <2>2, <2>3
  <2> QED BY <2>2, <2>3, <2>4
<1> QED BY <1>7, <1>8, <1>9, <1>10, <1>11

\* The titles that the AI named are those of open items afterwards, and no
\* item that was open is closed by it.
LEMMA InsertsOpen ==
    ASSUME TypeOK, NEW C, NEW fresh \in SUBSET Titles, Persist(C, fresh)
    PROVE  OpenTitles \cup fresh \subseteq OpenTitles'
<1>1. \A i \in Open : i \in Open' /\ item'[i].title = item[i].title
  BY Inserts DEF Open, Free
<1>2. OpenTitles \subseteq OpenTitles'
  BY <1>1 DEF OpenTitles
<1>3. ASSUME NEW t \in fresh \ OpenTitles PROVE t \in OpenTitles'
  <2>1. PICK i \in Free : item'[i] = NewRow(t)
    BY Inserts
  <2>2. i \in Open' /\ item'[i].title = t
    BY <2>1 DEF Open, Free, NewRow
  <2> QED BY <2>2 DEF OpenTitles
<1> QED BY <1>2, <1>3

-----------------------------------------------------------------------------
(* What a settlement writes.                                               *)

\* A verdict on the items in L, whoever gives it.
Verdict(r, L, refs, verdict) ==
    /\ r \in Recaps /\ L \in SUBSET Items /\ refs \in SUBSET Sources
    /\ DOMAIN verdict \subseteq L
    /\ \A i \in DOMAIN verdict : verdict[i] \in Sources \cup {None}

\* What becomes of the rows, and of their events.
Settled(verdict) ==
    /\ \A i \in DOMAIN verdict :
          item'[i] = [item[i] EXCEPT !.state = "closed", !.link = verdict[i]]
    /\ \A i \in Items \ DOMAIN verdict :
          item'[i] = IF item[i].state = "open"
                     THEN [item[i] EXCEPT !.rounds = @ + 1] ELSE item[i]

Noted(r, L, verdict) ==
    /\ [kind |-> "carried", source |-> r] \in Event
    /\ \A i \in DOMAIN verdict :
          /\ [kind |-> "resolved", source |-> Cited(r, verdict[i])] \in Event
          /\ events'[i] = Append(events[i], [kind |-> "resolved",
                                             source |-> Cited(r, verdict[i])])
    /\ \A i \in L \ DOMAIN verdict :
          events'[i] = Append(events[i], [kind |-> "carried", source |-> r])
    /\ \A i \in Items \ L : events'[i] = events[i]

LEMMA Concluded ==
    ASSUME TypeOK, NEW r, NEW L, NEW refs, NEW verdict,
           Verdict(r, L, refs, verdict), Conclude(r, L, refs, verdict)
    PROVE  /\ item' \in [Items -> Row] /\ events' \in [Items -> Seq(Event)]
           /\ Settled(verdict)
           /\ Noted(r, L, verdict)
           /\ settled' = settled \cup {item[i].title : i \in DOMAIN verdict}
           /\ \E s \in Settlement : /\ settle' = [settle EXCEPT ![r] = s]
                                    /\ s.items \subseteq {i \in Items : item'[i].state = "open"}
<1> DEFINE done == DOMAIN verdict
<1>1. done \subseteq Items /\ L \subseteq Items /\ done \subseteq L
  BY DEF Verdict
<1>2. item' = [i \in Items |-> Carried(IF i \in done THEN Resolved(item[i], verdict[i])
                                       ELSE item[i])]
  BY DEF Conclude
<1>3. \A i \in Items : item[i] \in Row
  BY DEF TypeOK
<1>4. ASSUME NEW i \in done
      PROVE  item'[i] = [item[i] EXCEPT !.state = "closed", !.link = verdict[i]] /\ item'[i] \in Row
  <2>1. Resolved(item[i], verdict[i]) = [item[i] EXCEPT !.state = "closed", !.link = verdict[i]]
    BY DEF Resolved
  <2>2. Resolved(item[i], verdict[i]) \in Row /\ Resolved(item[i], verdict[i]).state = "closed"
    BY <1>1, <1>3, <2>1 DEF Verdict, Row
  <2> QED BY <1>1, <1>2, <2>1, <2>2 DEF Carried
<1>5. ASSUME NEW i \in Items \ done
      PROVE  /\ item'[i] = IF item[i].state = "open"
                           THEN [item[i] EXCEPT !.rounds = @ + 1] ELSE item[i]
             /\ item'[i] \in Row
  <2>1. item'[i] = IF item[i].state = "open" THEN [item[i] EXCEPT !.rounds = @ + 1] ELSE item[i]
    BY <1>2 DEF Carried
  <2> QED BY <1>3, <2>1 DEF Row
<1>6. item' \in [Items -> Row]
  BY <1>2, <1>4, <1>5
<1>7. \A i \in done : [kind |-> "resolved", source |-> Cited(r, verdict[i])] \in Event
  BY DEF Verdict, Cited, Event, Sources
<1>8. [kind |-> "carried", source |-> r] \in Event
  BY DEF Verdict, Event, Sources
<1>9. events' = [i \in Items |->
                   IF i \in done
                   THEN Append(events[i], [kind |-> "resolved", source |-> Cited(r, verdict[i])])
                   ELSE IF i \in L
                   THEN Append(events[i], [kind |-> "carried", source |-> r])
                   ELSE events[i]]
  BY DEF Conclude
<1>10. events' \in [Items -> Seq(Event)]
  <2>1. \A i \in Items : events'[i] \in Seq(Event)
    BY <1>7, <1>8, <1>9, Added DEF TypeOK
  <2> QED BY <1>9, <2>1
<1>11. /\ \A i \in done :
             events'[i] = Append(events[i], [kind |-> "resolved", source |-> Cited(r, verdict[i])])
       /\ \A i \in L \ done : events'[i] = Append(events[i], [kind |-> "carried", source |-> r])
       /\ \A i \in Items \ L : events'[i] = events[i]
  BY <1>1, <1>9
<1>12. \E s \in Settlement : /\ settle' = [settle EXCEPT ![r] = s]
                             /\ s.items \subseteq {i \in Items : item'[i].state = "open"}
  <2> DEFINE W == {i \in Items : item'[i].state = "open" /\ item'[i].waiting}
  <2>1. settle' = [settle EXCEPT ![r] = IF W = {} THEN Idle("done")
                                        ELSE [stage |-> "waking", items |-> W, refs |-> refs]]
    BY <1>2 DEF Conclude, Woken
  <2>2. /\ Idle("done") \in Settlement /\ Idle("done").items = {}
        /\ [stage |-> "waking", items |-> W, refs |-> refs] \in Settlement
    BY DEF Idle, Settlement, Verdict
  <2> QED BY <2>1, <2>2
<1>13. settled' = settled \cup {item[i].title : i \in done}
  BY DEF Conclude
<1>14. Settled(verdict) /\ Noted(r, L, verdict)
  BY <1>4, <1>5, <1>7, <1>8, <1>11 DEF Settled, Noted
<1> QED BY <1>6, <1>10, <1>12, <1>13, <1>14

\* A settlement starts with the items that are open then.
LEMMA StartVerdict ==
    ASSUME TypeOK, NEW r \in Recaps, NEW refs \in Decisions[r]
    PROVE  refs \in SUBSET Sources /\ Verdict(r, Open, refs, << >>)
  BY DEF Verdict, Open, Sources

LEMMA AnswerVerdict ==
    ASSUME TypeOK, NEW r \in Recaps, NEW S \in SUBSET settle[r].items,
           NEW verdict \in [S -> settle[r].refs \cup {None}]
    PROVE  Verdict(r, settle[r].items, settle[r].refs, verdict)
<1>1. settle[r] \in Settlement
  BY DEF TypeOK
<1> QED BY <1>1 DEF Verdict, Settlement

-----------------------------------------------------------------------------
(* The rows and their events.                                              *)

\* A row that is free has had no event, and no settlement looks at it.
FreeIsNew ==
    /\ \A i \in Free : events[i] = << >>
    /\ \A r \in Recaps : settle[r].items \cap Free = {}

RowInv == FreeIsNew /\ NoDuplicateOpen /\ CarriedIsCounted /\ LinkIsLastVerdict

\* The last resolved event of s names x.
LastNames(s, x) ==
    \E n \in OfKind(s, "resolved") : /\ \A m \in OfKind(s, "resolved") : m <= n
                                     /\ s[n].source = x

LEMMA LastAdded ==
    ASSUME NEW s \in Seq(Event), NEW e \in Event, NEW x
    PROVE  /\ e.kind = "resolved" => LastNames(Append(s, e), e.source)
           /\ e.kind # "resolved" /\ LastNames(s, x) => LastNames(Append(s, e), x)
<1>1. ASSUME e.kind = "resolved" PROVE LastNames(Append(s, e), e.source)
  <2>1. Len(s) + 1 \in OfKind(Append(s, e), "resolved")
    BY <1>1, Added DEF OfKind
  <2>2. \A m \in OfKind(Append(s, e), "resolved") : m <= Len(s) + 1
    BY Added DEF OfKind
  <2> QED BY <2>1, <2>2, Added DEF LastNames
<1>2. ASSUME e.kind # "resolved", LastNames(s, x) PROVE LastNames(Append(s, e), x)
  <2>1. OfKind(Append(s, e), "resolved") = OfKind(s, "resolved")
    BY <1>2, Added DEF OfKind
  <2>2. \A n \in OfKind(s, "resolved") : Append(s, e)[n] = s[n]
    BY Added DEF OfKind
  <2> QED BY <1>2, <2>1, <2>2 DEF LastNames
<1> QED BY <1>1, <1>2

\* The invariants in the words of these lemmas.
LEMMA InWords ==
    /\ CarriedIsCounted <=>
          \A i \in Open : Cardinality(OfKind(events[i], "carried")) < item[i].rounds
    /\ LinkIsLastVerdict <=>
          \A i \in Items : item[i].link # None => LastNames(events[i], item[i].link)
  BY DEF CarriedIsCounted, LinkIsLastVerdict, Count, OfKind, LastNames

LEMMA InWordsNext ==
    /\ CarriedIsCounted' <=>
          \A i \in Open' : Cardinality(OfKind(events'[i], "carried")) < item'[i].rounds
    /\ LinkIsLastVerdict' <=>
          \A i \in Items : item'[i].link # None => LastNames(events'[i], item'[i].link)
  BY DEF CarriedIsCounted, LinkIsLastVerdict, Count, OfKind, LastNames

\* A request that lists new items leaves those that were there.
LEMMA PersistKeepsRows ==
    ASSUME TypeOK, RowInv, NEW C, NEW fresh \in SUBSET Titles, Persist(C, fresh),
           UNCHANGED <<events, settle>>
    PROVE  RowInv'
<1>1. \A i \in Items : \/ item'[i] = item[i]
                       \/ i \in Free /\ \E t \in fresh \ OpenTitles : item'[i] = NewRow(t)
  BY Inserts
<1>2. Free' \subseteq Free
  BY <1>1 DEF Free
<1>3. FreeIsNew'
  BY <1>2 DEF RowInv, FreeIsNew
<1>4. ASSUME NEW i \in Open', NEW j \in Open', item'[i].title = item'[j].title
      PROVE  i = j
  <2>1. i \in Items /\ j \in Items /\ item'[i].state = "open" /\ item'[j].state = "open"
    BY DEF Open
  <2>2. CASE i \in Free /\ j \in Free
    BY <1>4, <2>1, <2>2, Inserts
  <2>3. CASE i \notin Free /\ j \notin Free
    BY <1>1, <1>4, <2>1, <2>3 DEF RowInv, NoDuplicateOpen, Open
  <2>4. ASSUME NEW k \in Free, NEW l \in Items \ Free, item'[k].state = "open",
               item'[l].state = "open", item'[k].title = item'[l].title
        PROVE  FALSE
    <3>1. item'[l] = item[l] /\ item[l].title \in OpenTitles
      BY <1>1, <2>4 DEF OpenTitles, Open
    <3>2. PICK t \in fresh \ OpenTitles : item'[k] = NewRow(t)
      BY <1>1, <2>4 DEF Free
    <3> QED BY <2>4, <3>1, <3>2 DEF NewRow
  <2> QED BY <1>4, <2>1, <2>2, <2>3, <2>4
<1>5. CarriedIsCounted'
  <2>1. ASSUME NEW i \in Open'
        PROVE  Cardinality(OfKind(events'[i], "carried")) < item'[i].rounds
    <3>1. CASE item'[i] = item[i]
      BY <2>1, <3>1, InWords DEF RowInv, Open
    <3>2. ASSUME i \in Free, NEW t \in Titles, item'[i] = NewRow(t)
          PROVE  Cardinality(OfKind(events'[i], "carried")) < item'[i].rounds
      <4>1. OfKind(events'[i], "carried") = {}
        BY <3>2 DEF RowInv, FreeIsNew, OfKind
      <4>2. Cardinality(OfKind(events'[i], "carried")) = 0
        BY <4>1, FS_EmptySet
      <4>3. item'[i].rounds = 1
        BY <3>2 DEF NewRow
      <4> QED BY <4>2, <4>3
    <3> QED BY <1>1, <3>1, <3>2 DEF Open
  <2> QED BY <2>1, InWordsNext
<1>6. LinkIsLastVerdict'
  <2>1. \A t : NewRow(t).link = None
    BY DEF NewRow
  <2>2. \A i \in Items : item'[i].link # None => item'[i] = item[i]
    BY <1>1, <2>1
  <2> QED BY <2>2, InWords, InWordsNext DEF RowInv
<1> QED BY <1>3, <1>4, <1>5, <1>6 DEF RowInv, NoDuplicateOpen

\* A settlement counts a meeting for every item it shows as carried over, and
\* the record it closes an item with is that of the item's last event.
LEMMA ConcludeKeepsRows ==
    ASSUME TypeOK, RowInv, NEW r, NEW L, NEW refs, NEW verdict,
           Verdict(r, L, refs, verdict), Conclude(r, L, refs, verdict), L \cap Free = {}
    PROVE  RowInv'
<1> DEFINE done == DOMAIN verdict
<1>1. \A i \in Items : item[i] \in Row /\ events[i] \in Seq(Event)
  BY DEF TypeOK
<1>2. done \subseteq L /\ L \subseteq Items
  BY DEF Verdict
<1> DEFINE carried == [kind |-> "carried", source |-> r]
           resolved(i) == [kind |-> "resolved", source |-> Cited(r, verdict[i])]
<1>a. Settled(verdict) /\ Noted(r, L, verdict)
  BY Concluded
<1>b. /\ carried \in Event
      /\ \A i \in done : resolved(i) \in Event /\ events'[i] = Append(events[i], resolved(i))
      /\ \A i \in L \ done : events'[i] = Append(events[i], carried)
      /\ \A i \in Items \ L : events'[i] = events[i]
  BY <1>a DEF Noted
<1>3. \A i \in done : item'[i].state = "closed" /\ item'[i].link = verdict[i]
  <2> SUFFICES ASSUME NEW i \in done
               PROVE  item'[i].state = "closed" /\ item'[i].link = verdict[i]
    OBVIOUS
  <2>1. item[i] \in Row
    BY <1>1, <1>2
  <2>2. item'[i] = [item[i] EXCEPT !.state = "closed", !.link = verdict[i]]
    BY <1>a DEF Settled
  <2> QED BY <2>1, <2>2 DEF Row
<1>4. \A i \in Items \ done :
         /\ item'[i].state = item[i].state /\ item'[i].title = item[i].title
         /\ item'[i].link = item[i].link
         /\ item'[i].rounds = IF item[i].state = "open" THEN item[i].rounds + 1 ELSE item[i].rounds
  <2> SUFFICES ASSUME NEW i \in Items \ done
               PROVE  /\ item'[i].state = item[i].state /\ item'[i].title = item[i].title
                      /\ item'[i].link = item[i].link
                      /\ item'[i].rounds = IF item[i].state = "open" THEN item[i].rounds + 1
                                           ELSE item[i].rounds
    OBVIOUS
  <2>1. item[i] \in Row
    BY <1>1
  <2>2. item'[i] = IF item[i].state = "open"
                   THEN [item[i] EXCEPT !.rounds = @ + 1] ELSE item[i]
    BY <1>a DEF Settled
  <2> QED BY <2>1, <2>2 DEF Row
<1>5. Free' \subseteq Free /\ Open' \subseteq Open \ done
  BY <1>3, <1>4 DEF Free, Open
<1>6. FreeIsNew'
  <2>1. \A i \in Free' : events'[i] = << >>
    BY <1>5, <1>b DEF RowInv, FreeIsNew, Free
  <2>2. PICK s \in Settlement : /\ settle' = [settle EXCEPT ![r] = s]
                                /\ s.items \subseteq {i \in Items : item'[i].state = "open"}
    BY Concluded
  <2>3. \A q \in Recaps : settle'[q].items \cap Free' = {}
    BY <1>5, <2>2 DEF RowInv, FreeIsNew, Free, TypeOK
  <2> QED BY <2>1, <2>3 DEF FreeIsNew
<1>7. NoDuplicateOpen'
  BY <1>4, <1>5 DEF RowInv, NoDuplicateOpen, Open
<1>8. CarriedIsCounted'
  <2>1. ASSUME NEW i \in Open'
        PROVE  Cardinality(OfKind(events'[i], "carried")) < item'[i].rounds
    <3>1. i \in Open /\ i \in Items \ done
      BY <1>5 DEF Open
    <3>2. item'[i].rounds = item[i].rounds + 1 /\ item[i].rounds \in Nat
      BY <1>1, <1>4, <3>1 DEF Open, Row
    <3>3. /\ Cardinality(OfKind(events[i], "carried")) < item[i].rounds
          /\ Cardinality(OfKind(events[i], "carried")) \in Nat
      BY <1>1, <3>1, InWords, CountIsNat DEF RowInv
    <3>4. CASE i \in L
      <4>1. Cardinality(OfKind(events'[i], "carried")) =
               Cardinality(OfKind(events[i], "carried")) + 1
        <5>1. carried.kind = "carried" /\ events'[i] = Append(events[i], carried)
          BY <1>b, <3>1, <3>4
        <5> HIDE DEF carried
        <5> QED BY <1>1, <1>b, <3>1, <5>1, CountAdded DEF Open
      <4> QED BY <3>2, <3>3, <4>1
    <3>5. CASE i \notin L
      <4>1. events'[i] = events[i]
        BY <1>b, <3>1, <3>5
      <4> QED BY <3>2, <3>3, <4>1
    <3> QED BY <3>4, <3>5
  <2> QED BY <2>1, InWordsNext
<1>9. LinkIsLastVerdict'
  <2>1. ASSUME NEW i \in done, item'[i].link # None
        PROVE  LastNames(events'[i], item'[i].link)
    <3>1. PICK e \in Event : e = resolved(i) /\ events'[i] = Append(events[i], e)
      BY <1>b
    <3>2. e.kind = "resolved" /\ e.source = item'[i].link
      BY <1>3, <2>1, <3>1 DEF Cited
    <3>3. events[i] \in Seq(Event)
      BY <1>1, <1>2
    <3> QED BY <3>1, <3>2, <3>3, LastAdded
  <2>2. ASSUME NEW i \in Items \ done, item'[i].link # None
        PROVE  LastNames(events'[i], item'[i].link)
    <3>1. item'[i].link = item[i].link /\ LastNames(events[i], item[i].link)
      BY <1>4, <2>2, InWords DEF RowInv
    <3>2. CASE i \in L
      <4>1. carried \in Event /\ events'[i] = Append(events[i], carried) /\ carried.kind # "resolved"
        BY <1>b, <3>2
      <4> HIDE DEF carried
      <4> QED BY <1>1, <3>1, <4>1, LastAdded
    <3>3. CASE i \notin L
      BY <1>b, <3>1, <3>3
    <3> QED BY <3>2, <3>3
  <2> QED BY <2>1, <2>2, InWordsNext
<1> QED BY <1>6, <1>7, <1>8, <1>9 DEF RowInv

\* The events of what wakes up are neither carried nor resolved.
LEMMA Wakes ==
    ASSUME TypeOK, NEW r \in Recaps, Wake(r)
    PROVE  /\ events' \in [Items -> Seq(Event)]
           /\ \A i \in Items : \/ events'[i] = events[i]
                               \/ /\ i \in settle[r].items
                                  /\ \E e \in Event : /\ e.kind = "wake"
                                                      /\ events'[i] = Append(events[i], e)
<1>0. PICK S \in SUBSET settle[r].items :
        \E best \in [S -> settle[r].refs \cup {r}] :
          events' = [i \in Items |->
                     IF i \in S /\ WakeNew(i, best[i])
                     THEN Append(events[i], [kind |-> "wake", source |-> best[i]])
                     ELSE events[i]]
  BY DEF Wake
<1>1. PICK best \in [S -> settle[r].refs \cup {r}] :
        events' = [i \in Items |->
                     IF i \in S /\ WakeNew(i, best[i])
                     THEN Append(events[i], [kind |-> "wake", source |-> best[i]])
                     ELSE events[i]]
  BY <1>0
<1>2. settle[r].refs \subseteq Sources
  BY DEF TypeOK, Settlement
<1>3. \A i \in S : [kind |-> "wake", source |-> best[i]] \in Event
  BY <1>2 DEF Event, Sources
<1>4. \A i \in Items : events[i] \in Seq(Event)
  BY DEF TypeOK
<1>5. \A i \in Items : \/ events'[i] = events[i]
                       \/ /\ i \in settle[r].items
                          /\ \E e \in Event : /\ e.kind = "wake"
                                              /\ events'[i] = Append(events[i], e)
  BY <1>1, <1>3
<1>6. ASSUME NEW i \in Items PROVE events'[i] \in Seq(Event)
  <2>1. \A t \in Seq(Event) : \A e \in Event : Append(t, e) \in Seq(Event)
    OBVIOUS
  <2>2. events[i] \in Seq(Event)
    BY <1>4
  <2>3. CASE events'[i] = events[i]
    BY <2>2, <2>3, Zenon
  <2>4. ASSUME NEW e \in Event, events'[i] = Append(events[i], e)
        PROVE  events'[i] \in Seq(Event)
    <3>1. Append(events[i], e) \in Seq(Event)
      BY <2>1, <2>2
    <3> QED BY <2>4, <3>1, Zenon
  <2> QED BY <1>5, <2>3, <2>4
<1> QED BY <1>1, <1>5, <1>6

LEMMA WakeKeepsRows ==
    ASSUME TypeOK, RowInv, NEW r \in Recaps, Wake(r)
    PROVE  RowInv'
<1>1. item' = item /\ settle' = [settle EXCEPT ![r] = Idle("done")] /\ Idle("done").items = {}
  BY DEF Wake, Idle
<1>2. Free' = Free /\ Open' = Open
  BY <1>1 DEF Free, Open
<1>3. ASSUME NEW i \in Items
      PROVE  /\ Cardinality(OfKind(events'[i], "carried")) = Cardinality(OfKind(events[i], "carried"))
             /\ LastNames(events[i], item[i].link) => LastNames(events'[i], item[i].link)
  <2>1. CASE events'[i] = events[i]
    BY <2>1
  <2>2. ASSUME NEW e \in Event, e.kind = "wake", events'[i] = Append(events[i], e)
        PROVE  /\ Cardinality(OfKind(events'[i], "carried")) = Cardinality(OfKind(events[i], "carried"))
               /\ LastNames(events[i], item[i].link) => LastNames(events'[i], item[i].link)
    <3>1. events[i] \in Seq(Event)
      BY DEF TypeOK
    <3> QED BY <2>2, <3>1, CountAdded, CountIsNat, LastAdded
  <2> QED BY <2>1, <2>2, Wakes
<1>4. FreeIsNew'
  <2>1. \A i \in Free : events'[i] = events[i]
    BY Wakes DEF RowInv, FreeIsNew, Free
  <2>2. \A q \in Recaps : settle'[q].items \subseteq settle[q].items
    BY <1>1 DEF TypeOK
  <2> QED BY <1>2, <2>1, <2>2 DEF RowInv, FreeIsNew
<1>5. NoDuplicateOpen'
  BY <1>1, <1>2 DEF RowInv, NoDuplicateOpen
<1>6. CarriedIsCounted' /\ LinkIsLastVerdict'
  BY <1>1, <1>2, <1>3, InWords, InWordsNext DEF RowInv, Open
<1> QED BY <1>4, <1>5, <1>6 DEF RowInv

\* A person closes an item or changes its status.
LEMMA PersonKeepsRows ==
    ASSUME TypeOK, RowInv, NEW i \in Open, UNCHANGED <<events, settle>>,
           \/ item' = [item EXCEPT ![i].state = "closed"]
           \/ \E b \in BOOLEAN : item' = [item EXCEPT ![i].waiting = b]
    PROVE  RowInv'
<1>1. \A j \in Items : /\ item'[j].title = item[j].title /\ item'[j].rounds = item[j].rounds
                       /\ item'[j].link = item[j].link
                       /\ item'[j].state = "open" => item[j].state = "open"
                       /\ item'[j].state = "free" => item[j].state = "free"
  <2>1. item \in [Items -> Row] /\ i \in Items /\ item[i].state = "open"
    BY DEF TypeOK, Open
  <2>2. CASE item' = [item EXCEPT ![i].state = "closed"]
    BY <2>1, <2>2 DEF Row
  <2>3. ASSUME NEW b \in BOOLEAN, item' = [item EXCEPT ![i].waiting = b]
        PROVE  \A j \in Items : /\ item'[j].title = item[j].title
                                /\ item'[j].rounds = item[j].rounds
                                /\ item'[j].link = item[j].link
                                /\ item'[j].state = item[j].state
    BY <2>1, <2>3 DEF Row
  <2> QED BY <2>2, <2>3
<1>2. Open' \subseteq Open /\ Free' \subseteq Free /\ Open \subseteq Items
  BY <1>1 DEF Open, Free
<1>3. FreeIsNew'
  BY <1>2 DEF RowInv, FreeIsNew
<1>4. NoDuplicateOpen'
  BY <1>1, <1>2 DEF RowInv, NoDuplicateOpen
<1>5. CarriedIsCounted' /\ LinkIsLastVerdict'
  BY <1>1, <1>2, InWords, InWordsNext DEF RowInv
<1> QED BY <1>3, <1>4, <1>5 DEF RowInv

\* Nothing is written; a settlement may begin or be lost.
LEMMA SameRows ==
    ASSUME TypeOK, RowInv, UNCHANGED <<item, events>>,
           \A r \in Recaps : settle'[r].items \cap Free = {}
    PROVE  RowInv'
<1>1. Open' = Open /\ Free' = Free
  BY DEF Open, Free
<1>2. FreeIsNew' /\ NoDuplicateOpen'
  BY <1>1 DEF RowInv, FreeIsNew, NoDuplicateOpen
<1>3. CarriedIsCounted' /\ LinkIsLastVerdict'
  BY <1>1, InWords, InWordsNext DEF RowInv
<1> QED BY <1>2, <1>3 DEF RowInv

-----------------------------------------------------------------------------
(* Types.                                                                  *)

LEMMA InitType == Init => TypeOK
<1> SUFFICES ASSUME Init PROVE TypeOK
  OBVIOUS
<1>1. (CHOOSE t \in Titles : TRUE) \in Titles
  OBVIOUS
<1>2. item \in [Items -> Row]
  BY <1>1 DEF Init, Row
<1>3. events \in [Items -> Seq(Event)]
  BY DEF Init
<1>4. gen \in [Gens -> Gen]
  BY DEF Init, Gen, IdleGen, Ages
<1>5. settle \in [Recaps -> Settlement]
  BY DEF Init, Idle, Settlement
<1> QED BY <1>2, <1>3, <1>4, <1>5 DEF Init, TypeOK

\* A record with one field changed.
LEMMA Changed ==
    /\ \A x \in Row : [x EXCEPT !.state = "closed"] \in Row
    /\ \A x \in Row, b \in BOOLEAN : [x EXCEPT !.waiting = b] \in Row
    /\ \A x \in Gen, a \in Ages : [x EXCEPT !.age = a] \in Gen
    /\ \A x \in Gen : [x EXCEPT !.stage = "matching"] \in Gen
    /\ \A T \in SUBSET Titles : [stage |-> "asking", age |-> 0, titles |-> T] \in Gen
<1>1. \A x \in Row : [x EXCEPT !.state = "closed"] \in Row
  BY DEF Row
<1>2. \A x \in Row, b \in BOOLEAN : [x EXCEPT !.waiting = b] \in Row
  BY DEF Row
<1>3. \A x \in Gen, a \in Ages : [x EXCEPT !.age = a] \in Gen
  BY DEF Gen
<1>4. \A x \in Gen : [x EXCEPT !.stage = "matching"] \in Gen
  BY DEF Gen
<1>5. \A T \in SUBSET Titles : [stage |-> "asking", age |-> 0, titles |-> T] \in Gen
  BY DEF Gen, Ages
<1> QED BY <1>1, <1>2, <1>3, <1>4, <1>5

LEMMA TypeStep == TypeOK /\ [Next]_vars => TypeOK'
<1> SUFFICES ASSUME TypeOK, [Next]_vars PROVE TypeOK'
  OBVIOUS
<1>1. /\ item \in [Items -> Row] /\ events \in [Items -> Seq(Event)]
      /\ cache \in Cached \cup {None}
      /\ gen \in [Gens -> Gen] /\ settle \in [Recaps -> Settlement]
      /\ settled \subseteq Titles /\ overtaken \in [Gens -> SUBSET Titles]
      /\ revived \subseteq Titles
  BY DEF TypeOK
<1>2. IdleGen \in Gen /\ Idle("done") \in Settlement /\ Idle("none") \in Settlement
  BY DEF IdleGen, Gen, Ages, Idle, Settlement
<1>3. \A a \in Ages : Older(a) \in Ages
  BY DEF Ages, Older
<1>4. ASSUME Tick PROVE TypeOK'
  <2>1. cache' \in Cached \cup {None}
    <3>1. CASE cache = None
      BY <1>4, <3>1 DEF Tick
    <3>2. CASE cache # None
      <4>1. cache' = [cache EXCEPT !.age = Older(@)] /\ cache \in Cached
        BY <1>1, <1>4, <3>2 DEF Tick
      <4> QED BY <1>3, <4>1 DEF Cached
    <3> QED BY <3>1, <3>2
  <2>2. gen' \in [Gens -> Gen]
    <3>1. ASSUME NEW g \in Gens PROVE [gen[g] EXCEPT !.age = Older(@)] \in Gen
      <4>1. gen[g] \in Gen /\ gen[g].age \in Ages
        BY <1>1 DEF Gen
      <4> QED BY <1>3, <4>1, Changed
    <3> QED BY <1>1, <1>4, <3>1 DEF Tick
  <2> QED BY <1>1, <1>4, <2>1, <2>2 DEF Tick, closings, TypeOK
<1>5. ASSUME NEW i \in Items, Close(i) PROVE TypeOK'
  <2>1. item[i] \in Row /\ [item[i] EXCEPT !.state = "closed"] \in Row
    BY <1>1, Changed
  <2>2. item' \in [Items -> Row]
    BY <1>1, <1>5, <2>1 DEF Close
  <2>3. overtaken' \in [Gens -> SUBSET Titles] /\ revived' \subseteq Titles
    BY <1>1, <1>5, <2>1 DEF Close, Overtake, Row
  <2> QED BY <1>1, <1>5, <2>2, <2>3 DEF Close, TypeOK
<1>6. ASSUME NEW i \in Items, SetStatus(i) PROVE TypeOK'
  <2>1. PICK b \in BOOLEAN : item' = [item EXCEPT ![i].waiting = b]
    BY <1>6 DEF SetStatus
  <2>2. [item[i] EXCEPT !.waiting = b] \in Row
    BY <1>1, Changed
  <2>3. item' \in [Items -> Row]
    BY <1>1, <2>1, <2>2
  <2> QED BY <1>1, <1>6, <2>3 DEF SetStatus, TypeOK
<1>7. ASSUME NEW g \in Gens, GenStart(g) PROVE TypeOK'
  <2>1. {item[i].title : i \in Carry} \subseteq Titles
    <3>1. \A i \in Carry : item[i] \in Row
      BY <1>1 DEF Carry, Open
    <3> QED BY <3>1 DEF Row
  <2>2. [stage |-> "asking", age |-> 0, titles |-> {item[i].title : i \in Carry}] \in Gen
    BY <2>1, Changed
  <2> QED BY <1>1, <1>7, <2>2 DEF GenStart, closings, TypeOK
<1>8. ASSUME NEW g \in Gens, GenAnswer(g) PROVE TypeOK'
  <2>1. ASSUME NEW fresh \in SUBSET Titles, Persist(gen[g].titles, fresh),
               NEW T \in Cut(gen[g].titles, fresh),
               gen' = [gen EXCEPT ![g] = [stage |-> "matching", titles |-> T, age |-> 0]],
               settled' = settled \ fresh
        PROVE  TypeOK'
    <3>1. gen[g] \in Gen
      BY <1>1
    <3>2. T \subseteq Titles
      BY <3>1, <2>1 DEF Cut, Gen
    <3>3. [stage |-> "matching", titles |-> T, age |-> 0] \in Gen
      BY <3>2 DEF Gen, Ages
    <3>4. item' \in [Items -> Row]
      BY <2>1, Inserts
    <3>5. gen' \in [Gens -> Gen]
      BY <1>1, <2>1, <3>3
    <3>6. settled' \subseteq Titles
      BY <1>1, <2>1
    <3>7. /\ events' = events /\ cache' = cache /\ settle' = settle
          /\ overtaken' = overtaken /\ revived' = revived
      BY <1>8 DEF GenAnswer
    <3> QED BY <1>1, <3>4, <3>5, <3>6, <3>7 DEF TypeOK
  <2>2. ASSUME gen' = [gen EXCEPT ![g].stage = "matching"], UNCHANGED <<item, settled>>
        PROVE  TypeOK'
    <3>1. [gen[g] EXCEPT !.stage = "matching"] \in Gen
      BY <1>1, Changed
    <3>2. gen' \in [Gens -> Gen]
      BY <1>1, <2>2, <3>1
    <3> QED BY <1>1, <1>8, <2>2, <3>2 DEF GenAnswer, TypeOK
  <2> QED BY <1>8, <2>1, <2>2 DEF GenAnswer
<1>9. ASSUME NEW g \in Gens, GenStore(g) PROVE TypeOK'
  <2>1. [entries |-> gen[g].titles, age |-> gen[g].age] \in Cached
    BY <1>1 DEF Gen, Cached
  <2>2. overtaken' \in [Gens -> SUBSET Titles] /\ revived' \subseteq Titles
    BY <1>1, <1>9 DEF GenStore
  <2> QED BY <1>1, <1>2, <1>9, <2>1, <2>2 DEF GenStore, TypeOK
<1>10. ASSUME NEW r, NEW L, NEW refs, NEW verdict, Verdict(r, L, refs, verdict),
              Conclude(r, L, refs, verdict), cache' \in {None, cache}, gen' = gen,
              overtaken' = overtaken, revived' \subseteq revived
       PROVE  TypeOK'
  <2>1. /\ item' \in [Items -> Row] /\ events' \in [Items -> Seq(Event)]
        /\ settled' = settled \cup {item[i].title : i \in DOMAIN verdict}
        /\ \E s \in Settlement : settle' = [settle EXCEPT ![r] = s]
    <3>1. Verdict(r, L, refs, verdict) /\ Conclude(r, L, refs, verdict)
      BY <1>10
    <3>2. /\ item' \in [Items -> Row] /\ events' \in [Items -> Seq(Event)]
          /\ settled' = settled \cup {item[i].title : i \in DOMAIN verdict}
      BY <3>1, Concluded
    <3>3. PICK s \in Settlement : settle' = [settle EXCEPT ![r] = s]
      BY <3>1, Concluded
    <3> QED BY <3>2, <3>3
  <2>2. settled' \subseteq Titles
    <3>1. \A i \in DOMAIN verdict : item[i] \in Row
      BY <1>1, <1>10 DEF Verdict
    <3> QED BY <1>1, <2>1, <3>1 DEF Row
  <2>3. settle' \in [Recaps -> Settlement]
    BY <1>1, <2>1
  <2> QED BY <1>1, <1>10, <2>1, <2>2, <2>3 DEF TypeOK
<1>11. ASSUME NEW r \in Recaps, SettleStart(r) PROVE TypeOK'
  <2>1. PICK refs \in Decisions[r] :
          \/ settle' = [settle EXCEPT ![r] = Idle("done")] /\ UNCHANGED <<item, events, settled>>
          \/ /\ settle' = [settle EXCEPT ![r] = [stage |-> "judging", items |-> Open,
                                                 refs |-> refs]]
             /\ UNCHANGED <<item, events, settled>>
          \/ Conclude(r, Open, refs, << >>)
    BY <1>11 DEF SettleStart
  <2>2. refs \in SUBSET Sources /\ Verdict(r, Open, refs, << >>)
    BY StartVerdict
  <2>3. [stage |-> "judging", items |-> Open, refs |-> refs] \in Settlement
    <3>1. Open \in SUBSET Items
      BY DEF Open
    <3> QED BY <2>2, <3>1 DEF Settlement
  <2>4. /\ cache' = None /\ gen' = gen
        /\ overtaken' = overtaken /\ revived' = {}
    BY <1>11 DEF SettleStart
  <2>5. CASE Conclude(r, Open, refs, << >>)
    BY <1>10, <2>2, <2>4, <2>5
  <2>6. ASSUME UNCHANGED <<item, events, settled>>,
               NEW s \in Settlement, settle' = [settle EXCEPT ![r] = s]
        PROVE  TypeOK'
    <3>1. settle' \in [Recaps -> Settlement]
      BY <1>1, <2>6
    <3>2. item' = item /\ events' = events /\ settled' = settled
      BY <2>6
    <3> QED BY <1>1, <2>4, <3>1, <3>2 DEF TypeOK
  <2> QED BY <1>2, <2>1, <2>3, <2>5, <2>6
<1>12. ASSUME NEW r \in Recaps, SettleAnswer(r) PROVE TypeOK'
  <2>1. PICK S \in SUBSET settle[r].items :
          \E verdict \in [S -> settle[r].refs \cup {None}] :
             Conclude(r, settle[r].items, settle[r].refs, verdict)
    BY <1>12 DEF SettleAnswer
  <2>2. PICK verdict \in [S -> settle[r].refs \cup {None}] :
             Conclude(r, settle[r].items, settle[r].refs, verdict)
    BY <2>1
  <2>3. Verdict(r, settle[r].items, settle[r].refs, verdict)
    BY AnswerVerdict
  <2>4. /\ cache' = cache /\ gen' = gen
        /\ overtaken' = overtaken /\ revived' = revived
    BY <1>12 DEF SettleAnswer
  <2> QED BY <1>10, <2>2, <2>3, <2>4
<1>13. ASSUME NEW r \in Recaps, Wake(r) PROVE TypeOK'
  <2>1. events' \in [Items -> Seq(Event)]
    BY <1>13, Wakes
  <2> QED BY <1>1, <1>2, <1>13, <2>1 DEF Wake, closings, TypeOK
<1>14. ASSUME Restart PROVE TypeOK'
  <2>1. gen' \in [Gens -> Gen] /\ settle' \in [Recaps -> Settlement]
    BY <1>1, <1>2, <1>14 DEF Restart
  <2> QED BY <1>1, <1>14, <2>1 DEF Restart, TypeOK
<1>15. CASE UNCHANGED vars
  BY <1>15 DEF vars, closings, TypeOK
<1> QED BY <1>4, <1>5, <1>6, <1>7, <1>8, <1>9, <1>11, <1>12, <1>13, <1>14, <1>15 DEF Next

\* No step writes what is not of its type, whatever overlaps with it.
THEOREM TypeCorrect == Spec => []TypeOK
<1>1. Init => TypeOK
  BY InitType
<1> QED BY <1>1, TypeStep, PTL DEF Spec

-----------------------------------------------------------------------------
(* Every step keeps the rows, and accounts for what the cache lists.       *)

\* A request that is under way lists what is open, what a settlement has closed,
\* or what a person has closed under its hands.
GensListed ==
    \A g \in Gens : gen[g].titles \subseteq OpenTitles \cup settled \cup overtaken[g]

AgendaInv == TypeOK /\ RowInv /\ GensListed /\ RevivedByOverlapOnly

LEMMA RowStep == TypeOK /\ RowInv /\ [Next]_vars => RowInv'
<1> SUFFICES ASSUME TypeOK, RowInv, [Next]_vars PROVE RowInv'
  OBVIOUS
<1>1. \A r \in Recaps : settle[r].items \cap Free = {}
  BY DEF RowInv, FreeIsNew
<1>2. ASSUME UNCHANGED <<item, events, settle>> PROVE RowInv'
  BY <1>1, <1>2, SameRows
<1>3. ASSUME Tick PROVE RowInv'
  BY <1>2, <1>3 DEF Tick
<1>4. ASSUME NEW i \in Items, Close(i) PROVE RowInv'
  BY <1>4, PersonKeepsRows DEF Close
<1>5. ASSUME NEW i \in Items, SetStatus(i) PROVE RowInv'
  BY <1>5, PersonKeepsRows DEF SetStatus
<1>6. ASSUME NEW g \in Gens, GenStart(g) PROVE RowInv'
  BY <1>2, <1>6 DEF GenStart
<1>7. ASSUME NEW g \in Gens, GenAnswer(g) PROVE RowInv'
  <2>1. UNCHANGED <<events, settle>>
    BY <1>7 DEF GenAnswer
  <2>2. ASSUME NEW fresh \in SUBSET Titles, Persist(gen[g].titles, fresh) PROVE RowInv'
    BY <2>1, <2>2, PersistKeepsRows
  <2>3. CASE UNCHANGED item
    BY <1>2, <2>1, <2>3
  <2> QED BY <1>7, <2>2, <2>3 DEF GenAnswer
<1>8. ASSUME NEW g \in Gens, GenStore(g) PROVE RowInv'
  BY <1>2, <1>8 DEF GenStore
<1>9. ASSUME NEW r \in Recaps, SettleStart(r) PROVE RowInv'
  <2>1. PICK refs \in Decisions[r] :
          \/ settle' = [settle EXCEPT ![r] = Idle("done")] /\ UNCHANGED <<item, events>>
          \/ /\ settle' = [settle EXCEPT ![r] = [stage |-> "judging", items |-> Open,
                                                 refs |-> refs]]
             /\ UNCHANGED <<item, events>>
          \/ Conclude(r, Open, refs, << >>)
    BY <1>9 DEF SettleStart
  <2>2. Open \cap Free = {} /\ Idle("done").items = {}
    BY DEF Open, Free, Idle
  <2>3. CASE Conclude(r, Open, refs, << >>)
    BY <2>2, <2>3, StartVerdict, ConcludeKeepsRows
  <2>4. ASSUME NEW s \in Settlement, s.items \cap Free = {}, UNCHANGED <<item, events>>,
               settle' = [settle EXCEPT ![r] = s]
        PROVE  RowInv'
    <3>1. settle \in [Recaps -> Settlement]
      BY DEF TypeOK
    <3>2. \A q \in Recaps : settle'[q].items \cap Free = {}
      BY <1>1, <2>4, <3>1
    <3> QED BY <2>4, <3>2, SameRows
  <2>5. CASE settle' = [settle EXCEPT ![r] = Idle("done")] /\ UNCHANGED <<item, events>>
    <3>1. Idle("done") \in Settlement
      BY DEF Idle, Settlement
    <3> QED BY <2>2, <2>4, <2>5, <3>1
  <2>6. CASE /\ settle' = [settle EXCEPT ![r] = [stage |-> "judging", items |-> Open,
                                                 refs |-> refs]]
             /\ UNCHANGED <<item, events>>
    <3>1. refs \in SUBSET Sources /\ Open \in SUBSET Items
      BY StartVerdict DEF Open
    <3>2. PICK s \in Settlement : s = [stage |-> "judging", items |-> Open, refs |-> refs]
      BY <3>1 DEF Settlement
    <3>3. s.items \cap Free = {}
      BY <2>2, <3>2
    <3> QED BY <2>4, <2>6, <3>2, <3>3
  <2> QED BY <2>1, <2>3, <2>5, <2>6
<1>10. ASSUME NEW r \in Recaps, SettleAnswer(r) PROVE RowInv'
  <2>1. PICK S \in SUBSET settle[r].items :
          \E verdict \in [S -> settle[r].refs \cup {None}] :
             Conclude(r, settle[r].items, settle[r].refs, verdict)
    BY <1>10 DEF SettleAnswer
  <2>2. PICK verdict \in [S -> settle[r].refs \cup {None}] :
             Conclude(r, settle[r].items, settle[r].refs, verdict)
    BY <2>1
  <2>3. Verdict(r, settle[r].items, settle[r].refs, verdict)
    BY AnswerVerdict
  <2> QED BY <1>1, <2>2, <2>3, ConcludeKeepsRows
<1>11. ASSUME NEW r \in Recaps, Wake(r) PROVE RowInv'
  BY <1>11, WakeKeepsRows
<1>12. ASSUME Restart PROVE RowInv'
  <2>1. UNCHANGED <<item, events>> /\ Idle("done").items = {}
    BY <1>12 DEF Restart, Idle
  <2>2. \A r \in Recaps : settle'[r].items \cap Free = {}
    BY <1>1, <1>12, <2>1 DEF Restart
  <2> QED BY <2>1, <2>2, SameRows
<1>13. CASE UNCHANGED vars
  BY <1>2, <1>13 DEF vars
<1> QED BY <1>3, <1>4, <1>5, <1>6, <1>7, <1>8, <1>9, <1>10, <1>11, <1>12, <1>13 DEF Next

\* Every request and the cache list what they did, when no title that was open or
\* settled ceases to be either.
LEMMA StillListed ==
    ASSUME TypeOK, GensListed, RevivedByOverlapOnly,
           OpenTitles \cup settled \subseteq OpenTitles' \cup settled',
           cache' = None \/ (cache' = cache /\ revived' = revived),
           \A g \in Gens : /\ overtaken[g] \subseteq overtaken'[g]
                          /\ gen'[g].titles \subseteq gen[g].titles \cup OpenTitles'
    PROVE  GensListed' /\ RevivedByOverlapOnly'
<1>1. ASSUME NEW g \in Gens
      PROVE  gen'[g].titles \subseteq OpenTitles' \cup settled' \cup overtaken'[g]
  BY DEF GensListed
<1>2. GensListed'
  BY <1>1 DEF GensListed
<1> QED BY <1>2 DEF RevivedByOverlapOnly

\* A settlement accounts for what it closes.
LEMMA ConcludeSettles ==
    ASSUME TypeOK, NEW r, NEW L, NEW refs, NEW verdict,
           Verdict(r, L, refs, verdict), Conclude(r, L, refs, verdict)
    PROVE  OpenTitles \cup settled \subseteq OpenTitles' \cup settled'
<1>1. Settled(verdict) /\ settled' = settled \cup {item[i].title : i \in DOMAIN verdict}
  BY Concluded
<1>2. ASSUME NEW i \in Open, i \notin DOMAIN verdict
      PROVE  i \in Open' /\ item'[i].title = item[i].title
  <2>1. item[i] \in Row /\ i \in Items /\ item[i].state = "open"
    BY DEF TypeOK, Open
  <2>2. item'[i] = [item[i] EXCEPT !.rounds = @ + 1]
    BY <1>1, <1>2, <2>1 DEF Settled
  <2>3. item'[i].state = "open" /\ item'[i].title = item[i].title
    BY <2>1, <2>2 DEF Row
  <2> QED BY <2>1, <2>3 DEF Open
<1> QED BY <1>1, <1>2 DEF OpenTitles

LEMMA ListedStep ==
    TypeOK /\ GensListed /\ RevivedByOverlapOnly /\ [Next]_vars
        => GensListed' /\ RevivedByOverlapOnly'
<1> SUFFICES ASSUME TypeOK, GensListed, RevivedByOverlapOnly, [Next]_vars
             PROVE  GensListed' /\ RevivedByOverlapOnly'
  OBVIOUS
<1>1. gen \in [Gens -> Gen] /\ cache \in Cached \cup {None} /\ item \in [Items -> Row]
      /\ overtaken \in [Gens -> SUBSET Titles]
  BY DEF TypeOK
<1>2. ASSUME UNCHANGED <<item, settled, overtaken, gen>>,
             cache' = None \/ (cache' = cache /\ revived' = revived)
      PROVE  GensListed' /\ RevivedByOverlapOnly'
  BY <1>2, StillListed DEF OpenTitles, Open
<1>3. ASSUME Tick PROVE GensListed' /\ RevivedByOverlapOnly'
  <2>1. OpenTitles' = OpenTitles /\ UNCHANGED closings
    BY <1>3 DEF Tick, OpenTitles, Open
  <2>2. ASSUME NEW g \in Gens PROVE gen'[g].titles = gen[g].titles
    <3>1. gen[g] \in Gen
      BY <1>1
    <3>2. gen'[g] = IF gen[g].stage = "matching" THEN [gen[g] EXCEPT !.age = Older(@)]
                    ELSE gen[g]
      BY <1>3 DEF Tick
    <3> QED BY <3>1, <3>2 DEF Gen
  <2>3. cache' # None => cache # None /\ cache'.entries = cache.entries
    <3>1. cache' = IF cache = None THEN None ELSE [cache EXCEPT !.age = Older(@)]
      BY <1>3 DEF Tick
    <3> QED BY <1>1, <3>1 DEF Cached
  <2>4. GensListed'
    BY <2>1, <2>2 DEF GensListed, closings
  <2> QED BY <2>1, <2>3, <2>4 DEF RevivedByOverlapOnly, closings
<1>4. ASSUME NEW i \in Items, Close(i) PROVE GensListed' /\ RevivedByOverlapOnly'
  <2>1. cache' = None /\ gen' = gen
    BY <1>4 DEF Close
  <2>2. ASSUME NEW j \in Open, j # i PROVE j \in Open' /\ item'[j].title = item[j].title
    BY <1>1, <1>4, <2>2 DEF Close, Open
  <2>3. OpenTitles \subseteq OpenTitles' \cup {item[i].title}
    BY <2>2 DEF OpenTitles
  <2>4. ASSUME NEW g \in Gens
        PROVE  gen[g].titles \subseteq OpenTitles' \cup settled' \cup overtaken'[g]
    <3>1. settled' = settled /\ overtaken[g] \subseteq overtaken'[g]
      BY <1>1, <1>4 DEF Close, Overtake
    <3>2. item[i].title \in gen[g].titles => item[i].title \in overtaken'[g]
      BY <1>1, <1>4 DEF Close, Overtake
    <3> QED BY <2>3, <3>1, <3>2 DEF GensListed
  <2>5. GensListed'
    BY <2>1, <2>4 DEF GensListed
  <2> QED BY <2>1, <2>5 DEF RevivedByOverlapOnly
<1>5. ASSUME NEW i \in Items, SetStatus(i) PROVE GensListed' /\ RevivedByOverlapOnly'
  <2>1. PICK b \in BOOLEAN : item' = [item EXCEPT ![i].waiting = b]
    BY <1>5 DEF SetStatus
  <2>2. \A j \in Items : item'[j].state = item[j].state /\ item'[j].title = item[j].title
    BY <1>1, <2>1 DEF Row
  <2>3. OpenTitles' = OpenTitles
    BY <2>2 DEF OpenTitles, Open
  <2>4. cache' = None /\ gen' = gen /\ settled' = settled /\ overtaken' = overtaken
    BY <1>5 DEF SetStatus
  <2> QED BY <2>3, <2>4, StillListed
<1>6. ASSUME NEW g \in Gens, GenStart(g) PROVE GensListed' /\ RevivedByOverlapOnly'
  <2>1. item' = item /\ UNCHANGED closings /\ cache' = cache /\ OpenTitles' = OpenTitles
    BY <1>6 DEF GenStart, OpenTitles, Open
  <2>2. {item[i].title : i \in Carry} \subseteq OpenTitles
    BY DEF Carry, OpenTitles
  <2>3. \A h \in Gens : gen'[h].titles \subseteq gen[h].titles \cup OpenTitles
    BY <1>1, <1>6, <2>2 DEF GenStart
  <2> QED BY <2>1, <2>3, StillListed DEF closings
<1>7. ASSUME NEW g \in Gens, GenAnswer(g) PROVE GensListed' /\ RevivedByOverlapOnly'
  <2>1. cache' = cache /\ overtaken' = overtaken /\ revived' = revived
    BY <1>7 DEF GenAnswer
  <2>2. ASSUME NEW fresh \in SUBSET Titles, Persist(gen[g].titles, fresh),
               NEW T \in Cut(gen[g].titles, fresh),
               gen' = [gen EXCEPT ![g] = [stage |-> "matching", titles |-> T, age |-> 0]],
               settled' = settled \ fresh
        PROVE  GensListed' /\ RevivedByOverlapOnly'
    <3>1. OpenTitles \cup fresh \subseteq OpenTitles'
      BY <2>2, InsertsOpen
    <3>2. T \subseteq gen[g].titles \cup fresh
      BY DEF Cut
    <3>3. \A h \in Gens : gen'[h].titles \subseteq gen[h].titles \cup OpenTitles'
      BY <1>1, <2>2, <3>1, <3>2
    <3>4. OpenTitles \cup settled \subseteq OpenTitles' \cup settled'
      BY <2>2, <3>1
    <3> QED BY <2>1, <3>3, <3>4, StillListed
  <2>3. ASSUME gen' = [gen EXCEPT ![g].stage = "matching"], UNCHANGED <<item, settled>>
        PROVE  GensListed' /\ RevivedByOverlapOnly'
    <3>1. \A h \in Gens : gen'[h].titles = gen[h].titles
      BY <1>1, <2>3 DEF Gen
    <3>2. OpenTitles' = OpenTitles /\ settled' = settled
      BY <2>3 DEF OpenTitles, Open
    <3> QED BY <2>1, <3>1, <3>2, StillListed
  <2> QED BY <1>7, <2>2, <2>3 DEF GenAnswer
<1>8. ASSUME NEW g \in Gens, GenStore(g) PROVE GensListed' /\ RevivedByOverlapOnly'
  <2>1. OpenTitles' = OpenTitles /\ settled' = settled /\ revived' = overtaken[g]
    BY <1>8 DEF GenStore, OpenTitles, Open
  <2>2. cache'.entries = gen[g].titles
    BY <1>8 DEF GenStore
  <2>3. ASSUME NEW h \in Gens
        PROVE  gen'[h].titles \subseteq OpenTitles' \cup settled' \cup overtaken'[h]
    <3>1. h = g => gen'[h].titles = {}
      BY <1>1, <1>8 DEF GenStore, IdleGen
    <3>2. h # g => gen'[h] = gen[h] /\ overtaken'[h] = overtaken[h]
      BY <1>1, <1>8 DEF GenStore
    <3> QED BY <2>1, <3>1, <3>2 DEF GensListed
  <2>4. GensListed'
    BY <2>3 DEF GensListed
  <2> QED BY <2>1, <2>2, <2>4 DEF GensListed, RevivedByOverlapOnly
<1>9. ASSUME NEW r \in Recaps, SettleStart(r) PROVE GensListed' /\ RevivedByOverlapOnly'
  <2>1. cache' = None /\ gen' = gen /\ overtaken' = overtaken
    BY <1>9 DEF SettleStart
  <2>2. ASSUME NEW refs \in Decisions[r], Conclude(r, Open, refs, << >>)
        PROVE  GensListed' /\ RevivedByOverlapOnly'
    <3>1. OpenTitles \cup settled \subseteq OpenTitles' \cup settled'
      BY <2>2, StartVerdict, ConcludeSettles
    <3> QED BY <2>1, <3>1, StillListed
  <2>3. CASE UNCHANGED <<item, settled>>
    BY <1>2, <2>1, <2>3
  <2> QED BY <1>9, <2>2, <2>3 DEF SettleStart
<1>10. ASSUME NEW r \in Recaps, SettleAnswer(r) PROVE GensListed' /\ RevivedByOverlapOnly'
  <2>1. PICK S \in SUBSET settle[r].items :
          \E verdict \in [S -> settle[r].refs \cup {None}] :
             Conclude(r, settle[r].items, settle[r].refs, verdict)
    BY <1>10 DEF SettleAnswer
  <2>2. PICK verdict \in [S -> settle[r].refs \cup {None}] :
             Conclude(r, settle[r].items, settle[r].refs, verdict)
    BY <2>1
  <2>3. Verdict(r, settle[r].items, settle[r].refs, verdict)
    BY AnswerVerdict
  <2>4. OpenTitles \cup settled \subseteq OpenTitles' \cup settled'
    BY <2>2, <2>3, ConcludeSettles
  <2>5. /\ cache' = cache /\ gen' = gen
        /\ overtaken' = overtaken /\ revived' = revived
    BY <1>10 DEF SettleAnswer
  <2> QED BY <2>4, <2>5, StillListed
<1>11. ASSUME NEW r \in Recaps, Wake(r) PROVE GensListed' /\ RevivedByOverlapOnly'
  BY <1>2, <1>11 DEF Wake, closings
<1>12. ASSUME Restart PROVE GensListed' /\ RevivedByOverlapOnly'
  <2>1. cache' = None /\ \A g \in Gens : gen'[g].titles = {}
    BY <1>12 DEF Restart, IdleGen
  <2> QED BY <2>1 DEF GensListed, RevivedByOverlapOnly
<1>13. CASE UNCHANGED vars
  BY <1>2, <1>13 DEF vars, closings
<1> QED BY <1>3, <1>4, <1>5, <1>6, <1>7, <1>8, <1>9, <1>10, <1>11, <1>12, <1>13 DEF Next

LEMMA AgendaInit == Init => AgendaInv
<1> SUFFICES ASSUME Init PROVE AgendaInv
  OBVIOUS
<1>1. Open = {} /\ \A i \in Items : events[i] = << >> /\ item[i].link = None
  BY DEF Init, Open
<1>2. FreeIsNew
  BY <1>1 DEF Init, FreeIsNew, Free, Idle
<1>3. NoDuplicateOpen /\ CarriedIsCounted /\ LinkIsLastVerdict
  BY <1>1 DEF NoDuplicateOpen, CarriedIsCounted, LinkIsLastVerdict
<1>4. GensListed /\ RevivedByOverlapOnly
  BY DEF Init, IdleGen, GensListed, RevivedByOverlapOnly
<1> QED BY <1>2, <1>3, <1>4, InitType DEF AgendaInv, RowInv

LEMMA AgendaHolds == Spec => []AgendaInv
<1>1. AgendaInv /\ [Next]_vars => AgendaInv'
  BY TypeStep, RowStep, ListedStep DEF AgendaInv
<1> QED BY <1>1, AgendaInit, PTL DEF Spec

\* No two open items of a meeting have one title, however many requests for
\* its agenda overlap (persistNewAgendaItems reads the titles again).
THEOREM TitlesAreApart == Spec => []NoDuplicateOpen
<1>1. AgendaInv => NoDuplicateOpen
  BY DEF AgendaInv, RowInv
<1> QED BY <1>1, AgendaHolds, PTL

\* What an open item shows as carried over is never more than the meetings it
\* counts, however many settlements await the AI at once (settleAgendaAfterRecap).
THEOREM MeetingsAreCounted == Spec => []CarriedIsCounted
<1>1. AgendaInv => CarriedIsCounted
  BY DEF AgendaInv, RowInv
<1> QED BY <1>1, AgendaHolds, PTL

\* The record an item shows as the one that closed it is the one its last
\* resolved event names, also if several settlements closed it.
THEOREM LastVerdictStands == Spec => []LinkIsLastVerdict
<1>1. AgendaInv => LinkIsLastVerdict
  BY DEF AgendaInv, RowInv
<1> QED BY <1>1, AgendaHolds, PTL

\* A closed item comes back into the cached agenda in one way only, however many
\* requests, closings and settlements overlap: with a request that had read it and
\* was under way when a person closed it (generateAgenda's await).
THEOREM ClosingsStand == Spec => []RevivedByOverlapOnly
<1>1. AgendaInv => RevivedByOverlapOnly
  BY DEF AgendaInv
<1> QED BY <1>1, AgendaHolds, PTL
=============================================================================

------------------------- MODULE LiveCaption_proofs -------------------------
(***************************************************************************)
(* What holds of the captions of a microphone for any number of words and  *)
(* of sessions, and any backlog.                                           *)
(***************************************************************************)
EXTENDS LiveCaption, WellFoundedInduction, TLAPS

USE LiveCaptionAssumption

-----------------------------------------------------------------------------
(* The invariant.                                                          *)

\* No word of session s has reached the service.
Early(s) == buffer[s] = {} /\ items[s] = <<>>

\* A session that has not begun, or not been set up, and the one of the socket.
Stages ==
    \A s \in Sessions :
        /\ Running(s) => live = s
        /\ state[s] = "none" => socket[s] = "none"
        /\ state[s] \in {"none", "connecting"} => Early(s)
        /\ state[s] = "ready" => pending[s] = <<>>
        /\ Early(s) \/ pending[s] = <<>>

\* The service shows only what it has, and the open segment is of what it has.
InHand ==
    \A s \in Sessions : /\ unshown[s] \subseteq UnderWay(s)
                        /\ segment[s] \subseteq UnderWay(s) \cap seen

\* The words of session s, as far as they are not lost.
Own(s) ==
    Elements(pending[s]) \cup UnderWay(s) \cup UNION {r.words : r \in {q \in rows : q.session = s}}

\* No word is of two sessions, or of the future.
WordsApart ==
    /\ \A s \in Sessions : Own(s) \subseteq 1 .. spoken
    /\ \A r, s \in Sessions : r # s => Own(r) \cap Own(s) = {}

\* What waits has not been shown.
Unseen ==
    /\ seen \subseteq 1 .. spoken
    /\ \A s \in Sessions : (unshown[s] \cup Elements(pending[s])) \cap seen = {}

\* No word is in two segments.
SegmentsApart ==
    \A s \in Sessions : \A i \in DOMAIN items[s] :
        /\ items[s][i] \cap buffer[s] = {}
        /\ \A j \in DOMAIN items[s] : i # j => items[s][i] \cap items[s][j] = {}

\* Written, or thrown away as noise.
Settled == Recorded \cup junk

\* The service has done with what it returned a transcript of, and the deltas
\* are written when the session ends.
RowsDone ==
    \A r \in rows : /\ r.by # "deltas" => r.words \cap UnderWay(r.session) = {}
                    /\ r.by = "deltas" => state[r.session] = "closed"
                    /\ state[r.session] \in {"ready", "closed"}

\* What the service is at is not shown yet, or in the segment, or accounted for.
Accounted ==
    \A s \in Sessions : state[s] = "ready" =>
        UnderWay(s) \subseteq unshown[s] \cup segment[s] \cup adrift \cup Settled

\* The client believes in a session that has ended only if it was idle.
Believed == on => /\ live # 0 /\ state[live] \in {"ready", "closed"}
                  /\ state[live] = "closed" => live \in idled

CaptionInv ==
    /\ TypeOK /\ Stages
    /\ InHand /\ WordsApart /\ Unseen /\ SegmentsApart
    /\ RowsDone /\ TwiceIfTorn
    /\ Accounted /\ ShownIsKept
    /\ Believed /\ GapIfIdled

-----------------------------------------------------------------------------
(* Queues.                                                                 *)

LEMMA Appended ==
    ASSUME NEW S, NEW q \in Seq(S), NEW x \in S
    PROVE  /\ Append(q, x) \in Seq(S) /\ Len(Append(q, x)) = Len(q) + 1
           /\ Elements(Append(q, x)) = Elements(q) \cup {x}
<1>1. /\ DOMAIN q = 1 .. Len(q) /\ Len(q) \in Nat /\ DOMAIN Append(q, x) = 1 .. Len(q) + 1
      /\ \A i \in 1 .. Len(q) : Append(q, x)[i] = q[i]
      /\ Append(q, x)[Len(q) + 1] = x
  OBVIOUS
<1>2. Elements(Append(q, x)) = Elements(q) \cup {x}
  BY <1>1 DEF Elements
<1> QED BY <1>2

LEMMA Taken ==
    ASSUME NEW S, NEW q \in Seq(S), q # <<>>
    PROVE  /\ Head(q) \in S /\ Tail(q) \in Seq(S) /\ Len(q) = Len(Tail(q)) + 1
           /\ Elements(q) = {Head(q)} \cup Elements(Tail(q))
           /\ DOMAIN Tail(q) = 1 .. Len(q) - 1 /\ DOMAIN q = 1 .. Len(q)
           /\ Head(q) = q[1] /\ \A i \in DOMAIN Tail(q) : Tail(q)[i] = q[i + 1]
<1>1. /\ DOMAIN q = 1 .. Len(q) /\ Len(q) \in Nat \ {0} /\ DOMAIN Tail(q) = 1 .. Len(q) - 1
      /\ Head(q) = q[1] /\ \A i \in 1 .. Len(q) - 1 : Tail(q)[i] = q[i + 1]
      /\ Head(q) \in S /\ Tail(q) \in Seq(S) /\ Len(Tail(q)) = Len(q) - 1
  OBVIOUS
<1>2. Elements(q) \subseteq {Head(q)} \cup Elements(Tail(q))
  <2> SUFFICES ASSUME NEW i \in 1 .. Len(q)
               PROVE  q[i] = Head(q) \/ \E j \in DOMAIN Tail(q) : Tail(q)[j] = q[i]
    BY <1>1 DEF Elements
  <2>1. CASE i = 1
    BY <1>1, <2>1
  <2>2. CASE i # 1
    <3>1. i - 1 \in 1 .. Len(q) - 1 /\ (i - 1) + 1 = i
      BY <1>1, <2>2
    <3> QED BY <1>1, <3>1
  <2> QED BY <2>1, <2>2
<1>3. {Head(q)} \cup Elements(Tail(q)) \subseteq Elements(q)
  BY <1>1 DEF Elements
<1> QED BY <1>1, <1>2, <1>3

LEMMA EmptyQueue == Elements(<<>>) = {}
  BY DEF Elements

LEMMA ElementsType ==
    ASSUME NEW S, NEW q \in Seq(S) PROVE Elements(q) \subseteq S
  BY DEF Elements

-----------------------------------------------------------------------------
(* Types.                                                                  *)

LEMMA EndedType ==
    ASSUME TypeOK, NEW s \in Sessions, Ended(s)
    PROVE  /\ state' \in [Sessions -> {"none", "connecting", "ready", "closed"}]
           /\ socket' \in [Sessions -> {"none", "open", "closing", "shut"}]
           /\ rows' \subseteq Row /\ junk' \subseteq Words
           /\ segment' \in [Sessions -> SUBSET Words]
<1>1. segment[s] \subseteq Words
  BY DEF TypeOK
<1>2. [words |-> Salvaged(s), by |-> "deltas", session |-> s] \in Row
  BY <1>1 DEF Salvaged, Row
<1>3. rows' \subseteq Row /\ junk' \subseteq Words
  BY <1>1, <1>2 DEF Ended, Finalized, Salvaged, TypeOK
<1>4. segment' \in [Sessions -> SUBSET Words]
  BY DEF Ended, TypeOK
<1> QED BY <1>3, <1>4 DEF Ended, TypeOK

LEMMA CommittedType ==
    ASSUME TypeOK, NEW s \in Sessions, Committed(s)
    PROVE  /\ buffer' \in [Sessions -> SUBSET Words]
           /\ items' \in [Sessions -> Seq(SUBSET Words)]
<1>1. buffer[s] \in SUBSET Words /\ items[s] \in Seq(SUBSET Words)
  BY DEF TypeOK
<1>2. Append(items[s], buffer[s]) \in Seq(SUBSET Words)
  BY <1>1, Appended
<1> QED BY <1>2 DEF Committed, TypeOK

LEMMA SmallestNat ==
    ASSUME NEW S \in SUBSET Nat, S # {}
    PROVE  \E n \in S : \A m \in S : n <= m
<1>1. PICK n \in S : \A m \in S : ~(<<m, n>> \in OpToRel(<, Nat))
  BY WFMin, NatLessThanWellFounded, Zenon
<1>2. \A m \in S : ~(m < n)
  BY <1>1, Zenon DEF OpToRel
<1> QED BY <1>2

\* The word of a delta is one that waits for it: there is a least.
LEMMA DeltaWord ==
    ASSUME TypeOK, NEW s \in Sessions, Delta(s)
    PROVE  \E w \in unshown[s] :
              /\ unshown' = [unshown EXCEPT ![s] = @ \ {w}]
              /\ segment' = [segment EXCEPT ![s] = @ \cup {w}]
              /\ seen' = seen \cup {w}
              /\ adrift' = IF state[s] = "closed" THEN adrift \cup {w} ELSE adrift
<1>1. unshown[s] \subseteq Nat /\ unshown[s] # {}
  BY DEF TypeOK, Words, Delta
<1>2. PICK w \in unshown[s] : \A u \in unshown[s] : w <= u
  BY <1>1, SmallestNat
<1>3. (CHOOSE v \in unshown[s] : \A u \in unshown[s] : v <= u) \in unshown[s]
  BY <1>2
<1> QED BY <1>3 DEF Delta

LEMMA TypeInit == Init => TypeOK
<1> SUFFICES ASSUME Init PROVE TypeOK
  OBVIOUS
<1>1. pending \in [Sessions -> Seq(Words)] /\ \A s \in Sessions : Len(pending[s]) <= Backlog
  BY DEF Init
<1>2. items \in [Sessions -> Seq(SUBSET Words)]
  BY DEF Init
<1>3. /\ state \in [Sessions -> {"none", "connecting", "ready", "closed"}]
      /\ socket \in [Sessions -> {"none", "open", "closing", "shut"}]
      /\ segment \in [Sessions -> SUBSET Words] /\ buffer \in [Sessions -> SUBSET Words]
      /\ unshown \in [Sessions -> SUBSET Words]
  BY DEF Init
<1>4. /\ spoken \in 0 .. MaxWords /\ live \in 0 .. MaxSessions /\ on \in BOOLEAN
      /\ rows \subseteq Row /\ junk \subseteq Words /\ seen \subseteq Words /\ adrift \subseteq seen
      /\ cut \subseteq Words /\ unheard \subseteq Sessions \X Words /\ idled \subseteq Sessions
  <2>1. spoken = 0 /\ live = 0 /\ on = FALSE /\ rows = {} /\ junk = {} /\ seen = {} /\ adrift = {}
        /\ cut = {} /\ unheard = {} /\ idled = {}
    BY DEF Init
  <2>2. spoken \in 0 .. MaxWords /\ live \in 0 .. MaxSessions
    BY <2>1
  <2> QED BY <2>1, <2>2
<1> QED BY <1>1, <1>2, <1>3, <1>4 DEF TypeOK

LEMMA TypeStep == TypeOK /\ InHand /\ [Next]_vars => TypeOK'
<1> SUFFICES ASSUME TypeOK, InHand, [Next]_vars PROVE TypeOK'
  OBVIOUS
<1>1. /\ spoken \in 0 .. MaxWords /\ live \in 0 .. MaxSessions /\ on \in BOOLEAN
      /\ rows \subseteq Row /\ junk \subseteq Words /\ seen \subseteq Words /\ adrift \subseteq seen
      /\ cut \subseteq Words /\ unheard \subseteq Sessions \X Words /\ idled \subseteq Sessions
  BY DEF TypeOK
<1>2. /\ pending \in [Sessions -> Seq(Words)] /\ items \in [Sessions -> Seq(SUBSET Words)]
      /\ \A s \in Sessions : Len(pending[s]) <= Backlog
      /\ state \in [Sessions -> {"none", "connecting", "ready", "closed"}]
      /\ socket \in [Sessions -> {"none", "open", "closing", "shut"}]
      /\ segment \in [Sessions -> SUBSET Words] /\ buffer \in [Sessions -> SUBSET Words]
      /\ unshown \in [Sessions -> SUBSET Words]
  BY DEF TypeOK
<1>3. live # 0 => live \in Sessions
  BY <1>1 DEF Sessions
<1>4. ASSUME NEW s \in Sessions, Ended(s), UNCHANGED <<spoken, pending, service, seen, adrift, cut, unheard>>,
             live' \in {0, live}, on' \in BOOLEAN, idled' \subseteq Sessions
      PROVE  TypeOK'
  <2>1. /\ state' \in [Sessions -> {"none", "connecting", "ready", "closed"}]
        /\ socket' \in [Sessions -> {"none", "open", "closing", "shut"}]
        /\ rows' \subseteq Row /\ junk' \subseteq Words
        /\ segment' \in [Sessions -> SUBSET Words]
    BY <1>4, EndedType
  <2>2. live' \in 0 .. MaxSessions
    BY <1>1, <1>4
  <2> QED BY <1>1, <1>2, <1>4, <2>1, <2>2 DEF TypeOK, service
<1>5. ASSUME NothingEnds, UNCHANGED <<spoken, pending, service, seen, adrift, cut, unheard, idled>>,
             live' \in {0, live}, on' \in BOOLEAN
      PROVE  TypeOK'
  <2>1. live' \in 0 .. MaxSessions
    BY <1>1, <1>5
  <2> QED BY <1>1, <1>2, <1>5, <2>1 DEF TypeOK, service, NothingEnds
<1>6. ASSUME Stop PROVE TypeOK'
  BY <1>3, <1>4, <1>5, <1>6, <1>1 DEF Stop, history
<1>7. ASSUME Idle PROVE TypeOK'
  BY <1>1, <1>3, <1>4, <1>7 DEF Idle
<1>8. ASSUME NEW s \in Sessions, Error(s) PROVE TypeOK'
  BY <1>1, <1>4, <1>5, <1>8 DEF Error, history
<1>9. ASSUME NEW s \in Sessions, Start(s) PROVE TypeOK'
  <2>1. /\ state' \in [Sessions -> {"none", "connecting", "ready", "closed"}]
        /\ socket' \in [Sessions -> {"none", "open", "closing", "shut"}]
        /\ live' \in 0 .. MaxSessions
    BY <1>2, <1>9 DEF Start, Sessions
  <2> QED BY <1>1, <1>2, <1>9, <2>1 DEF Start, TypeOK, service, history
<1>10. ASSUME Speak PROVE TypeOK'
  <2>1. /\ live \in Sessions /\ spoken' = spoken + 1 /\ spoken' \in 0 .. MaxWords
        /\ spoken + 1 \in Words
    BY <1>1, <1>3, <1>10 DEF Speak, Words
  <2>2. UNCHANGED <<live, on, state, socket, segment, rows, junk, seen, adrift, cut, idled>>
    BY <1>10 DEF Speak
  <2>3. ASSUME pending' = [pending EXCEPT ![live] = NewestKept(Append(@, spoken + 1))],
               UNCHANGED <<service, unheard>>
        PROVE  TypeOK'
    <3> DEFINE q == Append(pending[live], spoken + 1)
    <3>1. /\ pending[live] \in Seq(Words) /\ Len(pending[live]) <= Backlog
          /\ Len(pending[live]) \in Nat
      BY <1>2, <2>1
    <3>2. q \in Seq(Words) /\ Len(q) = Len(pending[live]) + 1
      BY <2>1, <3>1, Appended
    <3>3. NewestKept(q) \in Seq(Words) /\ Len(NewestKept(q)) <= Backlog
      <4>1. CASE Len(q) > Backlog
        <5>1. q # <<>>
          BY <4>1
        <5>2. Tail(q) \in Seq(Words) /\ Len(q) = Len(Tail(q)) + 1 /\ Len(Tail(q)) \in Nat
          BY <3>2, <5>1, Taken
        <5>3. Len(Tail(q)) <= Backlog
          BY <3>1, <3>2, <5>2
        <5> QED BY <4>1, <5>2, <5>3 DEF NewestKept
      <4>2. CASE ~(Len(q) > Backlog)
        BY <3>1, <3>2, <4>2 DEF NewestKept
      <4> QED BY <4>1, <4>2
    <3> HIDE DEF q
    <3>4. pending' = [pending EXCEPT ![live] = NewestKept(q)]
      BY <2>3 DEF q
    <3>5. pending' \in [Sessions -> Seq(Words)] /\ \A s \in Sessions : Len(pending'[s]) <= Backlog
      BY <1>2, <3>3, <3>4
    <3> QED BY <1>1, <1>2, <2>1, <2>2, <2>3, <3>5 DEF TypeOK, service
  <2>4. ASSUME buffer' = [buffer EXCEPT ![live] = @ \cup {spoken + 1}],
               unshown' = [unshown EXCEPT ![live] = @ \cup {spoken + 1}],
               UNCHANGED <<pending, items, unheard>>
        PROVE  TypeOK'
    <3>1. buffer' \in [Sessions -> SUBSET Words] /\ unshown' \in [Sessions -> SUBSET Words]
      BY <1>2, <2>1, <2>4
    <3> QED BY <1>1, <1>2, <2>1, <2>2, <2>4, <3>1 DEF TypeOK
  <2>5. ASSUME unheard' = IF on THEN unheard \cup {<<live, spoken + 1>>} ELSE unheard,
               UNCHANGED <<pending, service>>
        PROVE  TypeOK'
    <3>1. unheard' \subseteq Sessions \X Words
      BY <1>1, <2>1, <2>5
    <3> QED BY <1>1, <1>2, <2>1, <2>2, <2>5, <3>1 DEF TypeOK, service
  <2> QED BY <1>10, <2>3, <2>4, <2>5 DEF Speak
<1>11. ASSUME Commit PROVE TypeOK'
  <2>1. live \in Sessions /\ Committed(live)
    BY <1>3, <1>11 DEF Commit
  <2>2. /\ buffer' \in [Sessions -> SUBSET Words]
        /\ items' \in [Sessions -> Seq(SUBSET Words)]
    BY <2>1, CommittedType
  <2> QED BY <1>1, <1>2, <1>11, <2>2 DEF Commit, TypeOK, history
<1>12. ASSUME NEW s \in Sessions, Updated(s) PROVE TypeOK'
  <2>1. Elements(pending[s]) \subseteq Words
    BY <1>2, ElementsType
  <2>2. /\ state' \in [Sessions -> {"none", "connecting", "ready", "closed"}]
        /\ buffer' \in [Sessions -> SUBSET Words] /\ unshown' \in [Sessions -> SUBSET Words]
    BY <1>2, <1>12, <2>1 DEF Updated
  <2>3. pending' \in [Sessions -> Seq(Words)] /\ \A t \in Sessions : Len(pending'[t]) <= Backlog
    BY <1>2, <1>12 DEF Updated
  <2> QED BY <1>1, <1>2, <1>12, <2>2, <2>3 DEF Updated, TypeOK, history
<1>13. ASSUME NEW s \in Sessions, Delta(s) PROVE TypeOK'
  <2>1. PICK w \in unshown[s] :
          /\ unshown' = [unshown EXCEPT ![s] = @ \ {w}]
          /\ segment' = [segment EXCEPT ![s] = @ \cup {w}]
          /\ seen' = seen \cup {w}
          /\ adrift' = IF state[s] = "closed" THEN adrift \cup {w} ELSE adrift
    BY <1>13, DeltaWord
  <2>2. /\ unshown' \in [Sessions -> SUBSET Words] /\ segment' \in [Sessions -> SUBSET Words]
        /\ seen' \subseteq Words /\ adrift' \subseteq seen'
    BY <1>1, <1>2, <2>1
  <2>3. /\ buffer' \in [Sessions -> SUBSET Words]
        /\ items' \in [Sessions -> Seq(SUBSET Words)]
    BY <1>2, <1>13, CommittedType DEF Delta
  <2> QED BY <1>1, <1>2, <1>13, <2>2, <2>3 DEF Delta, TypeOK
<1>14. ASSUME NEW s \in Sessions, Completed(s) PROVE TypeOK'
  <2>1. items[s] # <<>> /\ items[s] \in Seq(SUBSET Words)
    BY <1>2, <1>14 DEF Completed
  <2>2. Head(items[s]) \in SUBSET Words /\ Tail(items[s]) \in Seq(SUBSET Words)
    BY <2>1, Taken
  <2>3. \A by \in {"late", "transcript"} :
           [words |-> Head(items[s]), by |-> by, session |-> s] \in Row
    BY <2>2 DEF Row
  <2>4. rows' \subseteq Row /\ junk' \subseteq Words
    BY <1>1, <1>14, <2>2, <2>3 DEF Completed, Finalized
  <2>5. items' \in [Sessions -> Seq(SUBSET Words)] /\ segment' \in [Sessions -> SUBSET Words]
    BY <1>2, <1>14, <2>2 DEF Completed, SegmentAfter
  <2>6. adrift' \subseteq seen'
    BY <1>1, <1>14 DEF Completed, InHand
  <2> QED BY <1>1, <1>2, <1>14, <2>4, <2>5, <2>6 DEF Completed, TypeOK
<1>15. ASSUME NEW s \in Sessions, Shut(s) PROVE TypeOK'
  <2>1. \A q \in Seq(SUBSET Words) : UNION Elements(q) \subseteq Words
    BY ElementsType
  <2>2. UnderWay(s) \subseteq Words
    BY <1>2, <2>1 DEF UnderWay
  <2>3. cut' \subseteq Words /\ on' \in BOOLEAN
    BY <1>1, <1>15, <2>2 DEF Shut, CloseTells
  <2>4. /\ state' \in [Sessions -> {"none", "connecting", "ready", "closed"}]
        /\ socket' \in [Sessions -> {"none", "open", "closing", "shut"}]
    BY <1>2, <1>15 DEF Shut
  <2> QED BY <1>1, <1>2, <1>15, <2>3, <2>4 DEF Shut, TypeOK, service
<1>16. CASE UNCHANGED vars
  BY <1>16 DEF vars, TypeOK
<1> QED BY <1>6, <1>7, <1>8, <1>9, <1>10, <1>11, <1>12, <1>13, <1>14, <1>15, <1>16 DEF Next

-----------------------------------------------------------------------------
(* Where the words are.                                                    *)

RowWords(s) == UNION {r.words : r \in {q \in rows : q.session = s}}

WordPart == InHand /\ WordsApart /\ Unseen /\ SegmentsApart

LEMMA OwnIs == \A s : Own(s) = Elements(pending[s]) \cup UnderWay(s) \cup RowWords(s)
  BY DEF Own, RowWords

LEMMA OwnNext ==
    /\ \A s : Own(s)' = Elements(pending'[s]) \cup UnderWay(s)' \cup RowWords(s)'
    /\ \A s : UnderWay(s)' = buffer'[s] \cup UNION Elements(items'[s])
  BY DEF Own, RowWords, UnderWay, Elements

\* Words do not go from one session to another.
LEMMA NothingStrays ==
    ASSUME WordsApart, spoken' = spoken, \A s \in Sessions : Own(s)' \subseteq Own(s)
    PROVE  WordsApart'
  BY DEF WordsApart

LEMMA CommittedKeeps ==
    ASSUME TypeOK, SegmentsApart, NEW s \in Sessions, Committed(s)
    PROVE  /\ \A t \in Sessions : UnderWay(t)' = UnderWay(t)
           /\ SegmentsApart'
<1>1. /\ items \in [Sessions -> Seq(SUBSET Words)] /\ buffer \in [Sessions -> SUBSET Words]
  BY DEF TypeOK
<1>2. CASE UNCHANGED <<buffer, items>>
  BY <1>2 DEF SegmentsApart, UnderWay, Elements
<1>3. CASE /\ items' = [items EXCEPT ![s] = Append(@, buffer[s])]
           /\ buffer' = [buffer EXCEPT ![s] = {}]
  <2> DEFINE q == items[s]
             b == buffer[s]
  <2>1. q \in Seq(SUBSET Words) /\ b \in SUBSET Words
    BY <1>1
  <2>2. /\ items'[s] = Append(q, b) /\ buffer'[s] = {}
        /\ \A t \in Sessions \ {s} : items'[t] = items[t] /\ buffer'[t] = buffer[t]
    BY <1>1, <1>3
  <2>3. Elements(Append(q, b)) = Elements(q) \cup {b}
    BY <2>1, Appended
  <2>4. UnderWay(s)' = UnderWay(s)
    BY <2>2, <2>3, OwnNext DEF UnderWay
  <2>5. \A t \in Sessions \ {s} : UnderWay(t)' = UnderWay(t)
    BY <2>2, OwnNext DEF UnderWay
  <2>6. /\ DOMAIN q = 1 .. Len(q) /\ Len(q) \in Nat /\ DOMAIN Append(q, b) = 1 .. Len(q) + 1
        /\ \A i \in 1 .. Len(q) : Append(q, b)[i] = q[i]
        /\ Append(q, b)[Len(q) + 1] = b
    BY <2>1
  <2>7. /\ \A i \in DOMAIN q : q[i] \cap b = {}
        /\ \A i, j \in DOMAIN q : i # j => q[i] \cap q[j] = {}
    BY DEF SegmentsApart
  <2> HIDE DEF q, b
  <2>8. \A i, j \in DOMAIN Append(q, b) : i # j => Append(q, b)[i] \cap Append(q, b)[j] = {}
    BY <2>6, <2>7
  <2>9. SegmentsApart'
    BY <2>2, <2>8 DEF SegmentsApart
  <2> QED BY <2>4, <2>5, <2>9
<1> QED BY <1>2, <1>3 DEF Committed

\* The session ends: what was open is written, and stays where it was.
LEMMA EndedWords ==
    ASSUME TypeOK, WordPart, NEW s \in Sessions, Ended(s),
           UNCHANGED <<spoken, pending, buffer, unshown, items, seen>>
    PROVE  WordPart'
<1>1. \A t \in Sessions : UnderWay(t)' = UnderWay(t)
  BY OwnNext DEF UnderWay
<1>2. /\ \A t \in Sessions : segment'[t] \subseteq segment[t]
      /\ \/ rows' = rows
         \/ rows' = rows \cup {[words |-> segment[s], by |-> "deltas", session |-> s]}
  BY DEF Ended, Salvaged, Finalized, TypeOK
<1>3. InHand'
  BY <1>1, <1>2 DEF WordPart, InHand
<1>4. segment[s] \subseteq UnderWay(s)
  BY DEF WordPart, InHand
<1>5. \A t \in Sessions : RowWords(t)' \subseteq RowWords(t) \cup UnderWay(t)
  BY <1>2, <1>4 DEF RowWords
<1>6. WordsApart'
  BY <1>1, <1>5, OwnIs, OwnNext, NothingStrays DEF WordPart
<1>7. Unseen' /\ SegmentsApart'
  BY DEF WordPart, Unseen, SegmentsApart
<1> QED BY <1>3, <1>6, <1>7 DEF WordPart

LEMMA SameWords ==
    ASSUME WordPart, UNCHANGED <<spoken, pending, segment, buffer, unshown, items, rows, seen>>
    PROVE  WordPart'
  BY DEF WordPart, InHand, WordsApart, Unseen, SegmentsApart, Own, UnderWay, Elements

\* The next word waits for the session, or goes to the service, or is lost.
LEMMA SpeakWords ==
    ASSUME TypeOK, Stages, WordPart, Speak
    PROVE  WordPart'
<1> DEFINE w == spoken + 1
<1>l. PICK l \in Sessions : l = live
  BY DEF Speak, TypeOK, Sessions
<1>1. /\ spoken' = w /\ spoken \in Nat
      /\ segment' = segment /\ rows' = rows /\ seen' = seen
  BY DEF Speak, TypeOK, Sessions
<1>2. /\ items \in [Sessions -> Seq(SUBSET Words)] /\ buffer \in [Sessions -> SUBSET Words]
      /\ pending \in [Sessions -> Seq(Words)] /\ unshown \in [Sessions -> SUBSET Words]
      /\ w \in Words
  BY DEF Speak, TypeOK, Words
<1>0. w \notin 1 .. spoken /\ 1 .. spoken \subseteq 1 .. w /\ w \in 1 .. w
  BY <1>1
<1> HIDE DEF w
<1>3. \A t \in Sessions : RowWords(t)' = RowWords(t)
  BY <1>1 DEF RowWords
<1>4. ASSUME \A t \in Sessions \ {l} : Own(t)' \subseteq Own(t),
             Own(l)' \subseteq Own(l) \cup {w}
      PROVE  WordsApart'
  <2>1. \A t \in Sessions : Own(t) \subseteq 1 .. spoken
    BY DEF WordPart, WordsApart
  <2>2. ASSUME NEW t \in Sessions PROVE Own(t)' \subseteq 1 .. spoken'
    <3>1. Own(t)' \subseteq Own(t) \cup {w}
      BY <1>4
    <3> QED BY <1>0, <1>1, <2>1, <3>1
  <2>3. \A t \in Sessions : w \notin Own(t)
    BY <1>0, <2>1
  <2>4. \A r, t \in Sessions : r # t => Own(r) \cap Own(t) = {}
    BY DEF WordPart, WordsApart
  <2>5. ASSUME NEW r \in Sessions, NEW t \in Sessions, r # t PROVE Own(r)' \cap Own(t)' = {}
    <3>1. Own(r) \cap Own(t) = {} /\ w \notin Own(r) /\ w \notin Own(t)
      BY <2>3, <2>4, <2>5
    <3>2. \/ Own(r)' \subseteq Own(r) /\ Own(t)' \subseteq Own(t) \cup {w}
          \/ Own(t)' \subseteq Own(t) /\ Own(r)' \subseteq Own(r) \cup {w}
      BY <1>4, <2>5
    <3> QED BY <3>1, <3>2
  <2> QED BY <2>2, <2>5 DEF WordsApart
<1>5. seen' \subseteq 1 .. spoken' /\ w \notin seen
  BY <1>0, <1>1 DEF WordPart, Unseen
<1>6. CASE /\ pending' = [pending EXCEPT ![l] = NewestKept(Append(@, w))]
           /\ UNCHANGED service
  <2>1. pending[l] \in Seq(Words)
    BY <1>1, <1>2
  <2>2. Elements(Append(pending[l], w)) = Elements(pending[l]) \cup {w}
        /\ Append(pending[l], w) \in Seq(Words) /\ Append(pending[l], w) # <<>>
    <3>1. Len(Append(pending[l], w)) = Len(pending[l]) + 1 /\ Len(pending[l]) \in Nat
      BY <1>2, <2>1, Appended
    <3>2. Append(pending[l], w) # <<>>
      BY <3>1
    <3> QED BY <1>2, <2>1, <3>2, Appended
  <2>3. Elements(NewestKept(Append(pending[l], w))) \subseteq Elements(pending[l]) \cup {w}
    BY <2>2, Taken DEF NewestKept
  <2>4. \A t \in Sessions : UnderWay(t)' = UnderWay(t)
    BY <1>6, OwnNext DEF UnderWay, service
  <2>5. /\ Elements(pending'[l]) \subseteq Elements(pending[l]) \cup {w}
        /\ \A t \in Sessions \ {l} : pending'[t] = pending[t]
    BY <1>1, <1>2, <1>6, <2>3
  <2>6. WordsApart'
    BY <1>3, <1>4, <2>4, <2>5, OwnIs, OwnNext
  <2>7. InHand' /\ SegmentsApart'
    BY <1>1, <1>6, <2>4 DEF WordPart, InHand, SegmentsApart, service
  <2>8. \A t \in Sessions : (unshown'[t] \cup Elements(pending'[t])) \cap seen' = {}
    BY <1>1, <1>5, <1>6, <2>5 DEF WordPart, Unseen, service
  <2> QED BY <1>5, <2>6, <2>7, <2>8 DEF WordPart, Unseen
<1>7. CASE /\ buffer' = [buffer EXCEPT ![l] = @ \cup {w}]
           /\ unshown' = [unshown EXCEPT ![l] = @ \cup {w}]
           /\ UNCHANGED <<pending, items>>
  <2>1. /\ UnderWay(l)' = UnderWay(l) \cup {w}
        /\ \A t \in Sessions \ {l} : UnderWay(t)' = UnderWay(t)
    BY <1>1, <1>2, <1>7, OwnNext DEF UnderWay
  <2>2. WordsApart'
    BY <1>3, <1>4, <1>7, <2>1, OwnIs, OwnNext
  <2>3. /\ unshown'[l] = unshown[l] \cup {w} /\ buffer'[l] = buffer[l] \cup {w}
        /\ \A t \in Sessions \ {l} : unshown'[t] = unshown[t] /\ buffer'[t] = buffer[t]
    BY <1>1, <1>2, <1>7
  <2>4. InHand'
    BY <1>1, <2>1, <2>3 DEF WordPart, InHand
  <2>5. \A t \in Sessions : (unshown'[t] \cup Elements(pending'[t])) \cap seen' = {}
    BY <1>1, <1>5, <1>7, <2>3 DEF WordPart, Unseen
  <2>6. \A i \in DOMAIN items[l] : w \notin items[l][i]
    <3>1. \A i \in DOMAIN items[l] : items[l][i] \subseteq UnderWay(l)
      BY DEF UnderWay, Elements
    <3>2. UnderWay(l) \subseteq 1 .. spoken
      BY <1>1, OwnIs DEF WordPart, WordsApart
    <3> QED BY <1>0, <3>1, <3>2
  <2>7. SegmentsApart'
    BY <1>7, <2>3, <2>6 DEF WordPart, SegmentsApart
  <2> QED BY <1>5, <2>2, <2>4, <2>5, <2>7 DEF WordPart, Unseen
<1>8. CASE UNCHANGED <<pending, service>>
  <2>1. \A t \in Sessions : UnderWay(t)' = UnderWay(t)
    BY <1>8, OwnNext DEF UnderWay, service
  <2>2. WordsApart'
    BY <1>3, <1>4, <1>8, <2>1, OwnIs, OwnNext
  <2>3. InHand' /\ SegmentsApart'
    BY <1>1, <1>8, <2>1 DEF WordPart, InHand, SegmentsApart, service
  <2>4. \A t \in Sessions : (unshown'[t] \cup Elements(pending'[t])) \cap seen' = {}
    BY <1>1, <1>8 DEF WordPart, Unseen, service
  <2> QED BY <1>5, <2>2, <2>3, <2>4 DEF WordPart, Unseen
<1> QED BY <1>6, <1>7, <1>8, <1>l DEF Speak, w

LEMMA CommitWords ==
    ASSUME TypeOK, WordPart, NEW s \in Sessions, Committed(s),
           UNCHANGED <<spoken, pending, segment, unshown, rows, seen>>
    PROVE  WordPart'
<1>1. (\A t \in Sessions : UnderWay(t)' = UnderWay(t)) /\ SegmentsApart'
  BY CommittedKeeps DEF WordPart
<1>2. \A t \in Sessions : RowWords(t)' = RowWords(t)
  BY DEF RowWords
<1>3. WordsApart'
  BY <1>1, <1>2, OwnIs, OwnNext, NothingStrays DEF WordPart
<1>4. InHand' /\ Unseen'
  BY <1>1 DEF WordPart, InHand, Unseen
<1> QED BY <1>1, <1>3, <1>4 DEF WordPart

\* What waited for the session goes to the service.
LEMMA UpdatedWords ==
    ASSUME TypeOK, Stages, WordPart, NEW s \in Sessions, Updated(s)
    PROVE  WordPart'
<1>1. /\ items \in [Sessions -> Seq(SUBSET Words)] /\ buffer \in [Sessions -> SUBSET Words]
      /\ pending \in [Sessions -> Seq(Words)] /\ unshown \in [Sessions -> SUBSET Words]
  BY DEF TypeOK
<1>2. /\ UNCHANGED <<spoken, segment, items, rows, seen>>
      /\ pending'[s] = <<>> /\ buffer'[s] = Elements(pending[s])
      /\ unshown'[s] = Elements(pending[s])
      /\ \A t \in Sessions \ {s} : /\ pending'[t] = pending[t] /\ buffer'[t] = buffer[t]
                                   /\ unshown'[t] = unshown[t]
      /\ buffer[s] = {} /\ items[s] = <<>>
  BY <1>1 DEF Updated, Stages, Early
<1>3. /\ UnderWay(s) = {} /\ UnderWay(s)' = Elements(pending[s])
      /\ \A t \in Sessions \ {s} : UnderWay(t)' = UnderWay(t)
  BY <1>2, EmptyQueue, OwnNext DEF UnderWay
<1>4. \A t \in Sessions : RowWords(t)' = RowWords(t)
  BY <1>2 DEF RowWords
<1>5. \A t \in Sessions : Own(t)' \subseteq Own(t)
  BY <1>2, <1>3, <1>4, OwnIs, OwnNext, EmptyQueue
<1>6. WordsApart'
  BY <1>2, <1>5, NothingStrays DEF WordPart
<1>7. segment[s] = {}
  BY <1>3 DEF WordPart, InHand
<1>8. InHand'
  BY <1>2, <1>3, <1>7 DEF WordPart, InHand
<1>9. Unseen'
  BY <1>2, EmptyQueue DEF WordPart, Unseen
<1>10. SegmentsApart'
  BY <1>2 DEF WordPart, SegmentsApart
<1> QED BY <1>6, <1>8, <1>9, <1>10 DEF WordPart

\* What a delta shows is the session's own, so nobody else has yet to show it.
LEMMA DeltaWords ==
    ASSUME TypeOK, Stages, WordPart, NEW s \in Sessions, Delta(s)
    PROVE  WordPart'
<1>1. PICK w \in unshown[s] :
        /\ unshown' = [unshown EXCEPT ![s] = @ \ {w}]
        /\ segment' = [segment EXCEPT ![s] = @ \cup {w}]
        /\ seen' = seen \cup {w}
  BY DeltaWord
<1>2. /\ UNCHANGED <<spoken, pending, rows>>
      /\ UNCHANGED <<buffer, items>> \/ Committed(s)
  BY DEF Delta
<1>3. (\A t \in Sessions : UnderWay(t)' = UnderWay(t)) /\ SegmentsApart'
  <2>1. CASE Committed(s)
    BY <2>1, CommittedKeeps DEF WordPart
  <2>2. CASE UNCHANGED <<buffer, items>>
    BY <2>2, OwnNext DEF WordPart, SegmentsApart, UnderWay
  <2> QED BY <1>2, <2>1, <2>2
<1>4. \A t \in Sessions : RowWords(t)' = RowWords(t)
  BY <1>2 DEF RowWords
<1>5. WordsApart'
  BY <1>2, <1>3, <1>4, OwnIs, OwnNext, NothingStrays DEF WordPart
<1>6. /\ unshown'[s] = unshown[s] \ {w} /\ segment'[s] = segment[s] \cup {w}
      /\ \A t \in Sessions \ {s} : unshown'[t] = unshown[t] /\ segment'[t] = segment[t]
  BY <1>1 DEF TypeOK
<1>7. w \in UnderWay(s)
  BY DEF WordPart, InHand
<1>8. InHand'
  BY <1>1, <1>3, <1>6, <1>7 DEF WordPart, InHand
<1>9. w \in Own(s) /\ w \in 1 .. spoken
  BY <1>7, OwnIs DEF WordPart, WordsApart
<1>10. \A t \in Sessions \ {s} : w \notin unshown[t] \cup Elements(pending[t])
  <2> SUFFICES ASSUME NEW t \in Sessions \ {s} PROVE w \notin unshown[t] \cup Elements(pending[t])
    OBVIOUS
  <2>1. unshown[t] \cup Elements(pending[t]) \subseteq Own(t)
    BY OwnIs DEF WordPart, InHand
  <2>2. Own(s) \cap Own(t) = {}
    BY DEF WordPart, WordsApart
  <2> QED BY <1>9, <2>1, <2>2
<1>11. Elements(pending[s]) = {}
  <2>1. UnderWay(s) # {}
    BY <1>7
  <2>2. ~Early(s)
    BY <2>1, EmptyQueue DEF Early, UnderWay
  <2> QED BY <2>2, EmptyQueue DEF Stages
<1>12. Unseen'
  BY <1>1, <1>2, <1>6, <1>9, <1>10, <1>11 DEF WordPart, Unseen
<1> QED BY <1>3, <1>5, <1>8, <1>12 DEF WordPart

\* The segment that has its transcript leaves the service.
LEMMA CompletedTakes ==
    ASSUME TypeOK, WordPart, NEW s \in Sessions, Completed(s)
    PROVE  LET W == Head(items[s])
           IN  /\ UnderWay(s) = W \cup UnderWay(s)' /\ W \cap UnderWay(s)' = {}
               /\ \A t \in Sessions \ {s} : UnderWay(t)' = UnderWay(t)
               /\ SegmentsApart'
<1> DEFINE q == items[s]
           W == Head(items[s])
<1>1. /\ items \in [Sessions -> Seq(SUBSET Words)] /\ q # <<>> /\ q \in Seq(SUBSET Words)
  BY DEF TypeOK, Completed
<1>2. /\ items'[s] = Tail(q) /\ buffer' = buffer
      /\ \A t \in Sessions \ {s} : items'[t] = items[t]
  BY <1>1 DEF Completed
<1>3. /\ Elements(q) = {W} \cup Elements(Tail(q))
      /\ DOMAIN Tail(q) = 1 .. Len(q) - 1 /\ DOMAIN q = 1 .. Len(q) /\ Len(q) \in Nat \ {0}
      /\ W = q[1] /\ \A i \in DOMAIN Tail(q) : Tail(q)[i] = q[i + 1]
  BY <1>1, Taken
<1>4. /\ \A i \in DOMAIN q : q[i] \cap buffer[s] = {}
      /\ \A i, j \in DOMAIN q : i # j => q[i] \cap q[j] = {}
  BY DEF WordPart, SegmentsApart
<1> HIDE DEF q, W
<1>5. \A i \in DOMAIN Tail(q) : i + 1 \in DOMAIN q /\ i + 1 # 1
  BY <1>3
<1>6. /\ \A i \in DOMAIN Tail(q) : W \cap Tail(q)[i] = {} /\ Tail(q)[i] \cap buffer[s] = {}
      /\ W \cap buffer[s] = {}
  BY <1>3, <1>4, <1>5
<1>7. \A i, j \in DOMAIN Tail(q) : i # j => Tail(q)[i] \cap Tail(q)[j] = {}
  <2> SUFFICES ASSUME NEW i \in DOMAIN Tail(q), NEW j \in DOMAIN Tail(q), i # j
               PROVE  Tail(q)[i] \cap Tail(q)[j] = {}
    OBVIOUS
  <2>1. i + 1 # j + 1
    BY <1>3
  <2> QED BY <1>3, <1>4, <1>5, <2>1
<1>8. UnderWay(s)' = buffer[s] \cup UNION Elements(Tail(q))
  BY <1>2, OwnNext
<1>9. UnderWay(s) = W \cup UnderWay(s)'
  BY <1>3, <1>8 DEF UnderWay, q
<1>10. W \cap UnderWay(s)' = {}
  BY <1>6, <1>8 DEF Elements
<1>11. \A t \in Sessions \ {s} : UnderWay(t)' = UnderWay(t)
  BY <1>2, OwnNext DEF UnderWay
<1>12. SegmentsApart'
  BY <1>2, <1>6, <1>7 DEF WordPart, SegmentsApart
<1> QED BY <1>9, <1>10, <1>11, <1>12 DEF W

LEMMA CompletedWords ==
    ASSUME TypeOK, WordPart, NEW s \in Sessions, Completed(s)
    PROVE  WordPart'
<1>1. PICK W : /\ UnderWay(s) = W \cup UnderWay(s)' /\ W \cap UnderWay(s)' = {}
               /\ \A t \in Sessions \ {s} : UnderWay(t)' = UnderWay(t)
               /\ SegmentsApart' /\ W = Head(items[s])
  BY CompletedTakes
<1>2. /\ UNCHANGED <<spoken, pending, unshown, seen>> /\ W \cap unshown[s] = {}
      /\ (rows' = rows \/ \E r : r.words = W /\ r.session = s /\ rows' = rows \cup {r})
      /\ segment'[s] = {} /\ \A t \in Sessions \ {s} : segment'[t] = segment[t]
  <2>1. /\ UNCHANGED <<spoken, pending, unshown, seen>> /\ W \cap unshown[s] = {}
        /\ segment' = [segment EXCEPT ![s] = {}]
    BY <1>1 DEF Completed, SegmentAfter
  <2>2. rows' = rows \/ \E r : r.words = W /\ r.session = s /\ rows' = rows \cup {r}
    <3>1. rows' = rows \/ \E by : rows' = rows \cup {[words |-> W, by |-> by, session |-> s]}
      BY <1>1 DEF Completed, Finalized
    <3> QED BY <3>1
  <2>3. segment'[s] = {} /\ \A t \in Sessions \ {s} : segment'[t] = segment[t]
    BY <2>1 DEF TypeOK
  <2> QED BY <2>1, <2>2, <2>3
<1>3. \A t \in Sessions : RowWords(t)' \subseteq RowWords(t) \cup UnderWay(t)
  BY <1>1, <1>2 DEF RowWords
<1>4. WordsApart'
  BY <1>1, <1>2, <1>3, OwnIs, OwnNext, NothingStrays DEF WordPart
<1>5. InHand'
  BY <1>1, <1>2 DEF WordPart, InHand
<1>6. Unseen'
  BY <1>2 DEF WordPart, Unseen
<1> QED BY <1>1, <1>4, <1>5, <1>6 DEF WordPart

LEMMA WordStep == TypeOK /\ Stages /\ WordPart /\ [Next]_vars => WordPart'
<1> SUFFICES ASSUME TypeOK, Stages, WordPart, [Next]_vars PROVE WordPart'
  OBVIOUS
<1>1. live # 0 => live \in Sessions
  BY DEF TypeOK, Sessions
<1>2. ASSUME NothingEnds, UNCHANGED <<spoken, pending, service, seen>> PROVE WordPart'
  BY <1>2, SameWords DEF NothingEnds, service
<1>3. ASSUME NEW s \in Sessions, Ended(s), UNCHANGED <<spoken, pending, service, seen>>
      PROVE  WordPart'
  BY <1>3, EndedWords DEF service
<1>4. CASE Stop
  BY <1>1, <1>2, <1>3, <1>4 DEF Stop
<1>5. CASE Idle
  BY <1>1, <1>3, <1>5 DEF Idle
<1>6. ASSUME NEW s \in Sessions, Start(s) PROVE WordPart'
  BY <1>6, SameWords DEF Start, service
<1>7. CASE Speak
  BY <1>7, SpeakWords
<1>8. CASE Commit
  BY <1>1, <1>8, CommitWords DEF Commit
<1>9. ASSUME NEW s \in Sessions, Updated(s) PROVE WordPart'
  BY <1>9, UpdatedWords
<1>10. ASSUME NEW s \in Sessions, Delta(s) PROVE WordPart'
  BY <1>10, DeltaWords
<1>11. ASSUME NEW s \in Sessions, Completed(s) PROVE WordPart'
  BY <1>11, CompletedWords
<1>12. ASSUME NEW s \in Sessions, Error(s) PROVE WordPart'
  BY <1>2, <1>3, <1>12 DEF Error
<1>13. ASSUME NEW s \in Sessions, Shut(s) PROVE WordPart'
  BY <1>13, SameWords DEF Shut, service
<1>14. CASE UNCHANGED vars
  BY <1>14, SameWords DEF vars
<1> QED BY <1>4, <1>5, <1>6, <1>7, <1>8, <1>9, <1>10, <1>11, <1>12, <1>13, <1>14 DEF Next

-----------------------------------------------------------------------------
(* What becomes of the sessions.                                           *)

LEMMA EndedState ==
    ASSUME TypeOK, NEW s \in Sessions, Ended(s)
    PROVE  /\ state'[s] = "closed" /\ \A t \in Sessions \ {s} : state'[t] = state[t]
           /\ \A t \in Sessions : socket'[t] = "none" <=> socket[t] = "none"
  BY DEF Ended, TypeOK

LEMMA StagesStep == TypeOK /\ Stages /\ InHand /\ [Next]_vars => Stages'
<1> SUFFICES ASSUME TypeOK, Stages, InHand, [Next]_vars PROVE Stages'
  OBVIOUS
<1> DEFINE St == {"none", "connecting", "ready", "closed"}
<1>0. /\ state \in [Sessions -> St] /\ socket \in [Sessions -> {"none", "open", "closing", "shut"}]
      /\ 0 \notin Sessions /\ (live # 0 => live \in Sessions) /\ (live' # 0 => live' \in Sessions)
      /\ pending \in [Sessions -> Seq(Words)]
  <2>1. TypeOK'
    BY TypeStep
  <2>2. 0 \notin Sessions /\ (live # 0 => live \in Sessions)
    BY DEF TypeOK, Sessions
  <2>3. live' # 0 => live' \in Sessions
    BY <2>1 DEF TypeOK, Sessions
  <2> QED BY <2>2, <2>3 DEF TypeOK
<1>1. \A s \in Sessions :
         /\ state[s] \in {"connecting", "ready"} => live = s
         /\ state[s] = "none" => socket[s] = "none"
         /\ state[s] \in {"none", "connecting"} => buffer[s] = {} /\ items[s] = <<>>
         /\ state[s] = "ready" => pending[s] = <<>>
         /\ (buffer[s] = {} /\ items[s] = <<>>) \/ pending[s] = <<>>
  BY <1>0 DEF Stages, Running, Early
<1>2. ASSUME \A s \in Sessions :
               /\ state'[s] \in {"connecting", "ready"} => live' = s
               /\ state'[s] = "none" => socket'[s] = "none"
               /\ state'[s] \in {"none", "connecting"} => buffer'[s] = {} /\ items'[s] = <<>>
               /\ state'[s] = "ready" => pending'[s] = <<>>
               /\ (buffer'[s] = {} /\ items'[s] = <<>>) \/ pending'[s] = <<>>
      PROVE  Stages'
  BY <1>2 DEF Stages, Running, Early
<1>3. ASSUME NEW s \in Sessions, Ended(s), UNCHANGED <<pending, service>>,
             live' = live \/ live = s
      PROVE  Stages'
  <2>1. /\ state'[s] = "closed" /\ \A t \in Sessions \ {s} : state'[t] = state[t]
        /\ \A t \in Sessions : socket'[t] = "none" <=> socket[t] = "none"
    BY <1>3, EndedState
  <2> QED BY <1>1, <1>2, <1>3, <2>1 DEF service
<1>4. ASSUME UNCHANGED <<state, socket, pending, service>>,
             \A s \in Sessions : Running(s) => live' = s
      PROVE  Stages'
  BY <1>0, <1>1, <1>2, <1>4 DEF service, Running
<1>5. ASSUME Stop PROVE Stages'
  BY <1>0, <1>1, <1>3, <1>4, <1>5 DEF Stop, NothingEnds, Running
<1>6. ASSUME Idle PROVE Stages'
  BY <1>0, <1>3, <1>6 DEF Idle
<1>7. ASSUME NEW s \in Sessions, Start(s) PROVE Stages'
  <2>1. /\ state'[s] = "connecting" /\ socket'[s] = "open" /\ live' = s /\ live = 0
        /\ \A t \in Sessions \ {s} : state'[t] = state[t] /\ socket'[t] = socket[t]
        /\ UNCHANGED <<pending, buffer, items>> /\ state[s] = "none"
    BY <1>0, <1>7 DEF Start, service
  <2> QED BY <1>0, <1>1, <1>2, <2>1
<1>8. ASSUME Speak PROVE Stages'
  <2>1. PICK l \in Sessions : l = live
    BY <1>0, <1>8 DEF Speak
  <2>2. UNCHANGED <<live, state, socket>>
    BY <1>8 DEF Speak
  <2>3. CASE state[l] = "connecting"
    <3>1. UNCHANGED <<buffer, items>> /\ \A t \in Sessions \ {l} : pending'[t] = pending[t]
      BY <1>0, <1>8, <2>1, <2>3 DEF Speak, service
    <3> QED BY <1>1, <1>2, <2>2, <2>3, <3>1
  <2>4. CASE state[l] = "ready"
    <3>1. UNCHANGED <<pending, items>> /\ \A t \in Sessions \ {l} : buffer'[t] = buffer[t]
      BY <1>0, <1>8, <2>1, <2>4 DEF Speak, TypeOK
    <3> QED BY <1>1, <1>2, <2>2, <2>4, <3>1
  <2>5. CASE state[l] = "closed"
    BY <1>1, <1>2, <1>8, <2>1, <2>2, <2>5 DEF Speak, service
  <2> QED BY <1>8, <2>1, <2>3, <2>4, <2>5 DEF Speak
<1>9. ASSUME NEW s \in Sessions, Committed(s), UNCHANGED <<live, state, socket, pending>>
      PROVE  Stages'
  <2>1. \A t \in Sessions \ {s} : buffer'[t] = buffer[t] /\ items'[t] = items[t]
    BY <1>9 DEF Committed, TypeOK
  <2>2. CASE buffer[s] = {}
    <3>1. UNCHANGED <<buffer, items>>
      BY <1>9, <2>2 DEF Committed
    <3> QED BY <1>1, <1>2, <1>9, <3>1
  <2>3. CASE buffer[s] # {}
    BY <1>1, <1>2, <1>9, <2>1, <2>3
  <2> QED BY <2>2, <2>3
<1>10. ASSUME Commit PROVE Stages'
  BY <1>0, <1>9, <1>10 DEF Commit
<1>11. ASSUME NEW s \in Sessions, Updated(s) PROVE Stages'
  <2>1. /\ state'[s] = "ready" /\ pending'[s] = <<>> /\ live' = live /\ socket' = socket
        /\ \A t \in Sessions \ {s} : /\ state'[t] = state[t] /\ pending'[t] = pending[t]
                                     /\ buffer'[t] = buffer[t]
        /\ items' = items /\ state[s] = "connecting"
    BY <1>0, <1>11 DEF Updated, TypeOK
  <2> QED BY <1>1, <1>2, <2>1
<1>12. ASSUME NEW s \in Sessions, Delta(s) PROVE Stages'
  <2>1. UNCHANGED <<live, state, socket, pending>>
    BY <1>12 DEF Delta
  <2>2. CASE Committed(s)
    BY <1>9, <2>1, <2>2
  <2>3. CASE UNCHANGED <<buffer, items>>
    BY <1>1, <1>2, <2>1, <2>3
  <2> QED BY <1>12, <2>2, <2>3 DEF Delta
<1>13. ASSUME NEW s \in Sessions, Completed(s) PROVE Stages'
  <2>1. /\ UNCHANGED <<live, state, socket, pending, buffer>> /\ items[s] # <<>>
        /\ \A t \in Sessions \ {s} : items'[t] = items[t]
    BY <1>13 DEF Completed, TypeOK
  <2> QED BY <1>1, <1>2, <2>1
<1>14. ASSUME NEW s \in Sessions, Error(s) PROVE Stages'
  BY <1>3, <1>4, <1>14 DEF Error, NothingEnds, Stages
<1>15. ASSUME NEW s \in Sessions, Shut(s) PROVE Stages'
  <2>1. /\ state'[s] = "closed" /\ \A t \in Sessions \ {s} : state'[t] = state[t] /\ socket'[t] = socket[t]
        /\ UNCHANGED <<live, pending, buffer, items>>
    BY <1>0, <1>15 DEF Shut, service
  <2> QED BY <1>1, <1>2, <2>1
<1>16. CASE UNCHANGED vars
  BY <1>4, <1>16 DEF vars, service, Stages
<1> QED BY <1>5, <1>6, <1>7, <1>8, <1>10, <1>11, <1>12, <1>13, <1>14, <1>15, <1>16 DEF Next

-----------------------------------------------------------------------------
(* The minutes.                                                            *)

\* A session that was set up stays so, and one that has ended has ended.
LEMMA StateGrows ==
    ASSUME TypeOK, [Next]_vars
    PROVE  \A t \in Sessions : /\ state[t] \in {"ready", "closed"} => state'[t] \in {"ready", "closed"}
                               /\ state[t] = "closed" => state'[t] = "closed"
<1>1. /\ state \in [Sessions -> {"none", "connecting", "ready", "closed"}]
      /\ live # 0 => live \in Sessions
  BY DEF TypeOK, Sessions
<1>2. ASSUME NEW s \in Sessions, Ended(s)
      PROVE  \A t \in Sessions : state'[t] = IF t = s THEN "closed" ELSE state[t]
  BY <1>1, <1>2 DEF Ended
<1>3. ASSUME NEW s \in Sessions, NEW x \in {"connecting", "ready", "closed"},
             state' = [state EXCEPT ![s] = x], x = "connecting" => state[s] = "none",
             x = "ready" => state[s] = "connecting"
      PROVE  \A t \in Sessions :
                /\ state[t] \in {"ready", "closed"} => state'[t] \in {"ready", "closed"}
                /\ state[t] = "closed" => state'[t] = "closed"
  BY <1>1, <1>3
<1>4. CASE Stop
  BY <1>1, <1>2, <1>4 DEF Stop, NothingEnds, Running
<1>5. CASE Idle
  BY <1>1, <1>2, <1>5 DEF Idle
<1>6. CASE UNCHANGED state
  BY <1>6
<1>7. CASE Speak
  BY <1>6, <1>7 DEF Speak
<1>8. CASE Commit
  BY <1>6, <1>8 DEF Commit
<1>9. CASE UNCHANGED vars
  BY <1>6, <1>9 DEF vars
<1>10. CASE \E s \in Sessions : Start(s) \/ Updated(s) \/ Shut(s)
  BY <1>3, <1>10 DEF Start, Updated, Shut
<1>11. CASE \E s \in Sessions : Delta(s) \/ Completed(s)
  BY <1>6, <1>11 DEF Delta, Completed
<1>12. CASE \E s \in Sessions : Error(s)
  BY <1>2, <1>12 DEF Error, NothingEnds
<1> QED BY <1>4, <1>5, <1>7, <1>8, <1>9, <1>10, <1>11, <1>12 DEF Next

LEMMA RowsAreRows ==
    TypeOK => \A r \in rows : /\ r.session \in Sessions /\ r.words \subseteq RowWords(r.session)
                              /\ r.by \in {"transcript", "late", "deltas"}
  BY DEF TypeOK, Row, RowWords

\* No row is written, and the service takes up nothing that has been.
LEMMA SameRows ==
    ASSUME TypeOK, RowsDone, TwiceIfTorn, [Next]_vars, rows' = rows,
           \A t \in Sessions : UnderWay(t)' \cap RowWords(t) \subseteq UnderWay(t)
    PROVE  RowsDone' /\ TwiceIfTorn'
<1>1. TwiceIfTorn'
  BY DEF TwiceIfTorn
<1>2. ASSUME NEW r \in rows
      PROVE  /\ r.by # "deltas" => r.words \cap UnderWay(r.session)' = {}
             /\ r.by = "deltas" => state'[r.session] = "closed"
             /\ state'[r.session] \in {"ready", "closed"}
  <2>1. r.session \in Sessions /\ r.words \subseteq RowWords(r.session)
    BY RowsAreRows
  <2>2. /\ r.by # "deltas" => r.words \cap UnderWay(r.session) = {}
        /\ r.by = "deltas" => state[r.session] = "closed"
        /\ state[r.session] \in {"ready", "closed"}
    BY DEF RowsDone
  <2> QED BY <2>1, <2>2, StateGrows
<1>3. RowsDone'
  BY <1>2, OwnNext DEF RowsDone
<1> QED BY <1>1, <1>3

\* One row is added, of words that session s has in hand.
LEMMA OneMoreRow ==
    ASSUME TypeOK, WordsApart, TwiceIfTorn, NEW s \in Sessions, NEW q,
           q.session = s, q.words \subseteq UnderWay(s), rows' = rows \cup {q},
           \A r \in rows : r.session = s => r.words \cap q.words = {} \/ {r.by, q.by} = {"deltas", "late"}
    PROVE  TwiceIfTorn'
<1>1. ASSUME NEW r \in rows, r.words \cap q.words # {}
      PROVE  r.session = s /\ {r.by, q.by} = {"deltas", "late"}
  <2>1. r.session \in Sessions /\ r.words \subseteq RowWords(r.session)
    BY RowsAreRows
  <2>2. r.words \subseteq Own(r.session) /\ q.words \subseteq Own(s)
    BY <2>1, OwnIs
  <2>3. r.session = s
    BY <1>1, <2>1, <2>2 DEF WordsApart
  <2> QED BY <1>1, <2>3
<1> QED BY <1>1 DEF TwiceIfTorn

LEMMA RowStep ==
    TypeOK /\ Stages /\ WordPart /\ RowsDone /\ TwiceIfTorn /\ [Next]_vars
      => RowsDone' /\ TwiceIfTorn'
<1> SUFFICES ASSUME TypeOK, Stages, WordPart, RowsDone, TwiceIfTorn, [Next]_vars
             PROVE  RowsDone' /\ TwiceIfTorn'
  OBVIOUS
<1>1. live # 0 => live \in Sessions
  BY DEF TypeOK, Sessions
<1>2. ASSUME UNCHANGED <<rows, buffer, items>> PROVE RowsDone' /\ TwiceIfTorn'
  BY <1>2, SameRows, OwnNext DEF UnderWay
<1>3. ASSUME NEW s \in Sessions, Ended(s), Running(s), UNCHANGED service
      PROVE  RowsDone' /\ TwiceIfTorn'
  <2>1. CASE segment[s] = {}
    BY <1>2, <1>3, <2>1 DEF Ended, Salvaged, service
  <2>3. CASE rows' = rows
    BY <1>2, <1>3, <2>3 DEF service
  <2>2. CASE segment[s] # {} /\ rows' # rows
    <3>1. PICK q : q = [words |-> segment[s], by |-> "deltas", session |-> s]
      OBVIOUS
    <3>2. /\ rows' = rows \cup {q} /\ q.session = s /\ q.words = segment[s] /\ q.by = "deltas"
          /\ q.words \subseteq UnderWay(s) /\ state[s] # "closed"
      BY <1>3, <2>2, <3>1 DEF Ended, Salvaged, Finalized, Running, WordPart, InHand
    <3>3. \A t \in Sessions : UnderWay(t)' = UnderWay(t)
      BY <1>3, OwnNext DEF UnderWay, service
    <3>4. \A r \in rows : r.session = s => r.words \cap q.words = {}
      BY <3>2 DEF RowsDone
    <3>5. TwiceIfTorn'
      BY <3>2, <3>4, OneMoreRow DEF WordPart
    <3>6. state'[s] = "closed"
      BY <1>3, EndedState
    <3>7. ASSUME NEW r \in rows \cup {q}
          PROVE  /\ r.by # "deltas" => r.words \cap UnderWay(r.session)' = {}
                 /\ r.by = "deltas" => state'[r.session] = "closed"
                 /\ state'[r.session] \in {"ready", "closed"}
      <4>1. CASE r \in rows
        BY <3>3, <4>1, RowsAreRows, StateGrows DEF RowsDone
      <4>2. CASE r = q
        BY <3>2, <3>6, <4>2
      <4> QED BY <4>1, <4>2
    <3> QED BY <3>2, <3>5, <3>7 DEF RowsDone
  <2> QED BY <2>1, <2>2, <2>3
<1>4. ASSUME NothingEnds, UNCHANGED service PROVE RowsDone' /\ TwiceIfTorn'
  BY <1>2, <1>4 DEF NothingEnds, service
<1>5. CASE Stop
  BY <1>1, <1>3, <1>4, <1>5 DEF Stop
<1>6. CASE Idle
  BY <1>1, <1>3, <1>6 DEF Idle, Running
<1>7. ASSUME NEW s \in Sessions, Start(s) PROVE RowsDone' /\ TwiceIfTorn'
  BY <1>2, <1>7 DEF Start, service
<1>8. CASE Speak
  <2>1. PICK l \in Sessions : l = live
    BY <1>1, <1>8 DEF Speak
  <2>2. rows' = rows
    BY <1>8 DEF Speak
  <2>3. CASE UNCHANGED <<buffer, items>>
    BY <1>2, <2>2, <2>3
  <2>4. CASE UNCHANGED items /\ buffer' = [buffer EXCEPT ![l] = @ \cup {spoken + 1}]
    <3>1. \A t \in Sessions : UnderWay(t)' \subseteq UnderWay(t) \cup {spoken + 1}
      BY <2>4, OwnNext DEF UnderWay, TypeOK
    <3>2. spoken + 1 \notin 1 .. spoken
      BY DEF TypeOK
    <3>3. \A t \in Sessions : RowWords(t) \subseteq 1 .. spoken
      BY OwnIs DEF WordPart, WordsApart
    <3> QED BY <2>2, <3>1, <3>2, <3>3, SameRows
  <2> QED BY <1>8, <2>1, <2>3, <2>4 DEF Speak, service
<1>9. ASSUME NEW s \in Sessions, Committed(s), rows' = rows PROVE RowsDone' /\ TwiceIfTorn'
  BY <1>9, CommittedKeeps, SameRows DEF WordPart
<1>10. CASE Commit
  BY <1>1, <1>9, <1>10 DEF Commit
<1>11. ASSUME NEW s \in Sessions, Updated(s) PROVE RowsDone' /\ TwiceIfTorn'
  <2>1. /\ rows' = rows /\ items' = items /\ state[s] = "connecting"
        /\ \A t \in Sessions \ {s} : buffer'[t] = buffer[t]
    BY <1>11 DEF Updated, TypeOK
  <2>2. RowWords(s) = {}
    BY <2>1 DEF RowWords, RowsDone
  <2>3. \A t \in Sessions : UnderWay(t)' \cap RowWords(t) \subseteq UnderWay(t)
    BY <2>1, <2>2, OwnNext DEF UnderWay
  <2> QED BY <2>1, <2>3, SameRows
<1>12. ASSUME NEW s \in Sessions, Delta(s) PROVE RowsDone' /\ TwiceIfTorn'
  BY <1>2, <1>9, <1>12 DEF Delta
<1>13. ASSUME NEW s \in Sessions, Completed(s) PROVE RowsDone' /\ TwiceIfTorn'
  <2>1. PICK W : /\ UnderWay(s) = W \cup UnderWay(s)' /\ W \cap UnderWay(s)' = {}
                 /\ \A t \in Sessions \ {s} : UnderWay(t)' = UnderWay(t)
                 /\ W = Head(items[s])
    BY <1>13, CompletedTakes
  <2> DEFINE by == IF state[s] = "closed" THEN "late" ELSE "transcript"
  <2>9. Finalized(W, by, s)
    BY <1>13, <2>1 DEF Completed
  <2>10. CASE rows' = rows
    BY <2>1, <2>10, SameRows
  <2>11. ASSUME rows' # rows PROVE RowsDone' /\ TwiceIfTorn'
    <3>2. PICK q : q = [words |-> W, by |-> by,
                        session |-> s]
      OBVIOUS
    <3>3. /\ rows' = rows \cup {q} /\ q.session = s /\ q.words = W
          /\ q.by # "deltas" /\ (state[s] = "closed" => q.by = "late")
      BY <2>9, <2>11, <3>2 DEF Finalized
    <3>4. items[s] # <<>> /\ state' = state /\ state[s] \in {"ready", "closed"}
      BY <1>13 DEF Completed, Stages, Early, TypeOK
    <3>5. ASSUME NEW r \in rows, r.session = s
          PROVE  r.words \cap q.words = {} \/ {r.by, q.by} = {"deltas", "late"}
      <4>1. CASE r.by = "deltas"
        BY <3>3, <3>5, <4>1 DEF RowsDone
      <4>2. CASE r.by # "deltas"
        BY <2>1, <3>3, <3>5, <4>2 DEF RowsDone
      <4> QED BY <4>1, <4>2
    <3>6. TwiceIfTorn'
      BY <2>1, <3>3, <3>5, OneMoreRow DEF WordPart
    <3>7. ASSUME NEW r \in rows \cup {q}
          PROVE  /\ r.by # "deltas" => r.words \cap UnderWay(r.session)' = {}
                 /\ r.by = "deltas" => state'[r.session] = "closed"
                 /\ state'[r.session] \in {"ready", "closed"}
      <4>1. CASE r \in rows
        <5>1. r.session \in Sessions /\ UnderWay(r.session)' \subseteq UnderWay(r.session)
          BY <2>1, <4>1, RowsAreRows
        <5> QED BY <3>4, <4>1, <5>1 DEF RowsDone
      <4>2. CASE r = q
        BY <2>1, <3>3, <3>4, <4>2
      <4> QED BY <4>1, <4>2
    <3>8. RowsDone'
      BY <3>3, <3>7 DEF RowsDone
    <3> QED BY <3>6, <3>8
  <2> QED BY <2>10, <2>11
<1>14. ASSUME NEW s \in Sessions, Error(s) PROVE RowsDone' /\ TwiceIfTorn'
  BY <1>3, <1>4, <1>14 DEF Error
<1>15. ASSUME NEW s \in Sessions, Shut(s) PROVE RowsDone' /\ TwiceIfTorn'
  BY <1>2, <1>15 DEF Shut, service
<1>16. CASE UNCHANGED vars
  BY <1>2, <1>16 DEF vars
<1> QED BY <1>5, <1>6, <1>7, <1>8, <1>10, <1>11, <1>12, <1>13, <1>14, <1>15, <1>16 DEF Next

-----------------------------------------------------------------------------
(* What was shown.                                                         *)

KeptPart == Accounted /\ ShownIsKept

\* The conditions under which a step that shows nothing keeps what was shown.
LEMMA StillKept ==
    ASSUME KeptPart, seen' = seen, rows \subseteq rows', junk \subseteq junk',
           adrift \subseteq adrift', cut \subseteq cut',
           \A t \in Sessions : state'[t] = "ready" =>
               UnderWay(t)' \subseteq unshown'[t] \cup segment'[t] \cup adrift' \cup Settled',
           \A t \in Sessions : state[t] = "ready" =>
               \/ state'[t] = "ready" /\ UnderWay(t) \cap seen \subseteq UnderWay(t)' \cup Settled'
               \/ UnderWay(t) \cap seen \subseteq Settled' \cup adrift' \cup cut'
    PROVE  KeptPart'
<1>1. Settled \subseteq Settled'
  BY DEF Settled, Recorded
<1>2. Accounted'
  BY OwnNext DEF Accounted
<1>3. ASSUME NEW w \in seen
      PROVE  \/ w \in Settled' \cup adrift' \cup cut'
             \/ \E t \in Sessions : state'[t] = "ready" /\ w \in UnderWay(t)'
  <2>1. CASE w \in Settled \cup adrift \cup cut
    BY <1>1, <2>1
  <2>2. CASE \E t \in Sessions : state[t] = "ready" /\ w \in UnderWay(t)
    BY <2>2
  <2> QED BY <2>1, <2>2 DEF KeptPart, ShownIsKept, Settled
<1>4. ShownIsKept'
  <2> SUFFICES ASSUME NEW w \in seen
               PROVE  \/ w \in Recorded' \cup junk' \cup adrift' \cup cut'
                      \/ \E t \in Sessions : state'[t] = "ready" /\ w \in UnderWay(t)'
    BY DEF ShownIsKept
  <2> QED BY <1>3 DEF Settled
<1> QED BY <1>2, <1>4 DEF KeptPart

LEMMA KeptStep == TypeOK /\ Stages /\ WordPart /\ KeptPart /\ [Next]_vars => KeptPart'
<1> SUFFICES ASSUME TypeOK, Stages, WordPart, KeptPart, [Next]_vars PROVE KeptPart'
  OBVIOUS
<1>1. /\ live # 0 => live \in Sessions
      /\ state \in [Sessions -> {"none", "connecting", "ready", "closed"}]
  BY DEF TypeOK, Sessions
<1>2. /\ \A t \in Sessions : unshown[t] \cap seen = {}
      /\ \A t \in Sessions : state[t] = "ready" =>
             UnderWay(t) \subseteq unshown[t] \cup segment[t] \cup adrift \cup Settled
  BY DEF WordPart, Unseen, KeptPart, Accounted
<1>3. ASSUME UNCHANGED <<service, segment, seen, rows, junk, adrift, cut>>,
             \A t \in Sessions : state'[t] = "ready" <=> state[t] = "ready"
      PROVE  KeptPart'
  <2>1. (\A t \in Sessions : UnderWay(t)' = UnderWay(t)) /\ Settled' = Settled
    BY <1>3, OwnNext DEF UnderWay, service, Settled, Recorded
  <2> QED BY <1>2, <1>3, <2>1, StillKept DEF service
<1>4. ASSUME NEW s \in Sessions, Ended(s), UNCHANGED <<service, seen, adrift, cut>>
      PROVE  KeptPart'
  <2>1. /\ state'[s] = "closed" /\ \A t \in Sessions \ {s} : state'[t] = state[t]
    BY <1>4, EndedState
  <2>2. /\ \A t \in Sessions : UnderWay(t)' = UnderWay(t)
        /\ \A t \in Sessions \ {s} : segment'[t] = segment[t]
        /\ unshown' = unshown /\ rows \subseteq rows' /\ junk \subseteq junk'
    BY <1>4, OwnNext DEF UnderWay, service, Ended, Finalized, TypeOK
  <2>3. Settled \subseteq Settled' /\ segment[s] \subseteq Settled'
    <3>1. CASE segment[s] = {}
      BY <2>2, <3>1 DEF Settled, Recorded
    <3>2. CASE segment[s] # {}
      <4>1. PICK q : q = [words |-> segment[s], by |-> "deltas", session |-> s]
        OBVIOUS
      <4>2. (rows' = rows \cup {q} /\ q.words = segment[s]) \/ junk' = junk \cup segment[s]
        BY <1>4, <3>2, <4>1 DEF Ended, Salvaged, Finalized
      <4> QED BY <2>2, <4>2 DEF Settled, Recorded
    <3> QED BY <3>1, <3>2
  <2> QED BY <1>2, <1>4, <2>1, <2>2, <2>3, StillKept
<1>5. ASSUME NothingEnds, UNCHANGED <<service, seen, adrift, cut>> PROVE KeptPart'
  BY <1>3, <1>5 DEF NothingEnds
<1>6. CASE Stop
  BY <1>1, <1>4, <1>5, <1>6 DEF Stop, history
<1>7. CASE Idle
  BY <1>1, <1>4, <1>7 DEF Idle
<1>8. ASSUME NEW s \in Sessions, Start(s) PROVE KeptPart'
  <2>1. \A t \in Sessions : state'[t] = "ready" <=> state[t] = "ready"
    BY <1>1, <1>8 DEF Start
  <2> QED BY <1>3, <1>8, <2>1 DEF Start, history
<1>9. CASE Speak
  <2>1. PICK l \in Sessions : l = live
    BY <1>1, <1>9 DEF Speak
  <2>2. UNCHANGED <<state, segment, seen, rows, junk, adrift, cut>>
    BY <1>9 DEF Speak
  <2>3. CASE UNCHANGED service
    BY <1>3, <2>2, <2>3
  <2>4. CASE /\ buffer' = [buffer EXCEPT ![l] = @ \cup {spoken + 1}]
             /\ unshown' = [unshown EXCEPT ![l] = @ \cup {spoken + 1}]
             /\ items' = items
    <3>1. /\ buffer'[l] = buffer[l] \cup {spoken + 1} /\ unshown'[l] = unshown[l] \cup {spoken + 1}
          /\ \A t \in Sessions \ {l} : buffer'[t] = buffer[t] /\ unshown'[t] = unshown[t]
      BY <2>4 DEF TypeOK
    <3>2. /\ UnderWay(l)' = UnderWay(l) \cup {spoken + 1}
          /\ \A t \in Sessions \ {l} : UnderWay(t)' = UnderWay(t)
      BY <2>4, <3>1, OwnNext DEF UnderWay
    <3>3. Settled' = Settled
      BY <2>2 DEF Settled, Recorded
    <3> QED BY <1>2, <2>2, <3>1, <3>2, <3>3, StillKept
  <2> QED BY <1>9, <2>1, <2>3, <2>4 DEF Speak
<1>10. CASE Commit
  <2>1. PICK l \in Sessions : l = live
    BY <1>1, <1>10 DEF Commit
  <2>2. \A t \in Sessions : UnderWay(t)' = UnderWay(t)
    BY <1>10, <2>1, CommittedKeeps DEF Commit, WordPart
  <2>3. UNCHANGED <<state, segment, unshown, seen, rows, junk, adrift, cut>> /\ Settled' = Settled
    BY <1>10 DEF Commit, history, Settled, Recorded
  <2> QED BY <1>2, <2>2, <2>3, StillKept
<1>11. ASSUME NEW s \in Sessions, Updated(s) PROVE KeptPart'
  <2>1. /\ UNCHANGED <<segment, items, seen, rows, junk, adrift, cut>> /\ state[s] = "connecting"
        /\ buffer'[s] = Elements(pending[s]) /\ unshown'[s] = Elements(pending[s])
        /\ items[s] = <<>>
        /\ \A t \in Sessions \ {s} : /\ state'[t] = state[t] /\ buffer'[t] = buffer[t]
                                     /\ unshown'[t] = unshown[t]
    BY <1>11 DEF Updated, history, TypeOK, Stages, Early
  <2>2. UnderWay(s)' = unshown'[s] /\ \A t \in Sessions \ {s} : UnderWay(t)' = UnderWay(t)
    BY <2>1, OwnNext, EmptyQueue DEF UnderWay
  <2>3. Settled' = Settled
    BY <2>1 DEF Settled, Recorded
  <2> QED BY <1>2, <2>1, <2>2, <2>3, StillKept
<1>12. ASSUME NEW s \in Sessions, Delta(s) PROVE KeptPart'
  <2>1. PICK w \in unshown[s] :
          /\ unshown' = [unshown EXCEPT ![s] = @ \ {w}]
          /\ segment' = [segment EXCEPT ![s] = @ \cup {w}]
          /\ seen' = seen \cup {w}
          /\ adrift' = IF state[s] = "closed" THEN adrift \cup {w} ELSE adrift
    BY <1>12, DeltaWord
  <2>2. UNCHANGED <<state, rows, junk, cut>> /\ Settled' = Settled
    BY <1>12 DEF Delta, Settled, Recorded
  <2>3. \A t \in Sessions : UnderWay(t)' = UnderWay(t)
    <3>1. CASE Committed(s)
      BY <3>1, CommittedKeeps DEF WordPart
    <3>2. CASE UNCHANGED <<buffer, items>>
      BY <3>2, OwnNext DEF UnderWay
    <3> QED BY <1>12, <3>1, <3>2 DEF Delta
  <2>4. /\ unshown'[s] = unshown[s] \ {w} /\ segment'[s] = segment[s] \cup {w}
        /\ \A t \in Sessions \ {s} : unshown'[t] = unshown[t] /\ segment'[t] = segment[t]
    BY <2>1 DEF TypeOK
  <2>5. adrift \subseteq adrift'
    BY <2>1
  <2>6. Accounted'
    BY <1>2, <2>2, <2>3, <2>4, <2>5, OwnNext DEF Accounted
  <2>7. w \in UnderWay(s)
    BY DEF WordPart, InHand
  <2>8. state[s] \in {"ready", "closed"}
    <3>1. ~Early(s)
      BY <2>7, EmptyQueue DEF Early, UnderWay
    <3> QED BY <1>1, <3>1 DEF Stages
  <2>9. ASSUME NEW v \in seen'
        PROVE  \/ v \in Settled' \cup adrift' \cup cut'
               \/ \E t \in Sessions : state'[t] = "ready" /\ v \in UnderWay(t)'
    <3>1. CASE v = w
      BY <2>1, <2>2, <2>3, <2>7, <2>8, <3>1
    <3>2. CASE v \in seen
      BY <2>2, <2>3, <2>5, <3>2 DEF KeptPart, ShownIsKept, Settled
    <3> QED BY <2>1, <3>1, <3>2
  <2>10. ShownIsKept'
    BY <2>9 DEF ShownIsKept, Settled
  <2> QED BY <2>6, <2>10 DEF KeptPart
<1>13. ASSUME NEW s \in Sessions, Completed(s) PROVE KeptPart'
  <2>1. PICK W : /\ UnderWay(s) = W \cup UnderWay(s)'
                 /\ \A t \in Sessions \ {s} : UnderWay(t)' = UnderWay(t)
                 /\ W = Head(items[s])
    BY <1>13, CompletedTakes
  <2>2. /\ UNCHANGED <<state, unshown, seen, cut>> /\ adrift' = adrift \cup (segment[s] \ W)
        /\ \A t \in Sessions \ {s} : segment'[t] = segment[t]
    BY <1>13, <2>1 DEF Completed, TypeOK
  <2>3. PICK q : q.words = W /\ ((rows' = rows \cup {q} /\ junk' = junk)
                                  \/ (rows' = rows /\ junk' = junk \cup W))
    <3>1. PICK by : Finalized(W, by, s)
      BY <1>13, <2>1 DEF Completed
    <3>2. PICK q : q = [words |-> W, by |-> by, session |-> s]
      OBVIOUS
    <3> QED BY <3>1, <3>2 DEF Finalized
  <2>4. Settled' = Settled \cup W /\ rows \subseteq rows' /\ junk \subseteq junk'
    BY <2>3 DEF Settled, Recorded
  <2> QED BY <1>2, <2>1, <2>2, <2>4, StillKept
<1>14. ASSUME NEW s \in Sessions, Error(s) PROVE KeptPart'
  BY <1>4, <1>5, <1>14 DEF Error, history
<1>15. ASSUME NEW s \in Sessions, Shut(s) PROVE KeptPart'
  <2>1. /\ UNCHANGED <<service, segment, seen, rows, junk, adrift>> /\ cut \subseteq cut'
        /\ (state[s] = "ready" => UnderWay(s) \subseteq cut')
        /\ state'[s] = "closed" /\ \A t \in Sessions \ {s} : state'[t] = state[t]
    BY <1>1, <1>15 DEF Shut, Running, Sessions
  <2>2. (\A t \in Sessions : UnderWay(t)' = UnderWay(t)) /\ Settled' = Settled
    BY <2>1, OwnNext DEF UnderWay, service, Settled, Recorded
  <2> QED BY <1>2, <2>1, <2>2, StillKept DEF service
<1>16. CASE UNCHANGED vars
  BY <1>3, <1>16 DEF vars, service
<1> QED BY <1>6, <1>7, <1>8, <1>9, <1>10, <1>11, <1>12, <1>13, <1>14, <1>15, <1>16 DEF Next

-----------------------------------------------------------------------------
(* What the client believes.                                               *)

LEMMA BelievedStep ==
    TypeOK /\ Stages /\ Believed /\ GapIfIdled /\ [Next]_vars => Believed' /\ GapIfIdled'
<1> SUFFICES ASSUME TypeOK, Stages, Believed, GapIfIdled, [Next]_vars
             PROVE  Believed' /\ GapIfIdled'
  OBVIOUS
<1>1. /\ live # 0 => live \in Sessions
      /\ 0 \notin Sessions
      /\ state \in [Sessions -> {"none", "connecting", "ready", "closed"}]
      /\ \A s \in Sessions : /\ state[s] \in {"connecting", "ready"} => live = s
                             /\ state[s] = "none" => socket[s] = "none"
  BY DEF TypeOK, Sessions, Stages, Running
<1>2. ASSUME on' = FALSE, UNCHANGED <<unheard, idled>> PROVE Believed' /\ GapIfIdled'
  BY <1>2 DEF Believed, GapIfIdled
<1>3. ASSUME UNCHANGED <<live, on, state, unheard, idled>> PROVE Believed' /\ GapIfIdled'
  BY <1>3 DEF Believed, GapIfIdled
<1>4. CASE Stop
  BY <1>2, <1>4 DEF Stop, history
<1>5. CASE Idle
  <2>1. PICK l \in Sessions : l = live
    BY <1>1, <1>5 DEF Idle
  <2>2. idled' = idled \cup {l} /\ state'[l] = "closed" /\ UNCHANGED <<live, on, unheard>>
    BY <1>5, <2>1, EndedState DEF Idle
  <2> QED BY <2>1, <2>2 DEF Believed, GapIfIdled
<1>6. ASSUME NEW s \in Sessions, Start(s) PROVE Believed' /\ GapIfIdled'
  <2>1. on = FALSE /\ UNCHANGED <<on, unheard, idled>>
    BY <1>6 DEF Start, history, Believed, TypeOK
  <2> QED BY <1>2, <2>1
<1>7. CASE Speak
  <2>1. UNCHANGED <<live, on, state, idled>>
    BY <1>7 DEF Speak
  <2>2. CASE unheard' = unheard
    BY <1>3, <2>1, <2>2
  <2>3. CASE state[live] = "closed" /\ unheard' = IF on THEN unheard \cup {<<live, spoken + 1>>} ELSE unheard
    BY <1>7, <2>1, <2>3 DEF Speak, Believed, GapIfIdled
  <2> QED BY <1>7, <2>2, <2>3 DEF Speak
<1>8. CASE Commit
  BY <1>3, <1>8 DEF Commit, history
<1>9. ASSUME NEW s \in Sessions, Updated(s) PROVE Believed' /\ GapIfIdled'
  <2>1. /\ live = s /\ live' = live /\ state'[s] = "ready" /\ UNCHANGED <<unheard, idled>>
    BY <1>1, <1>9 DEF Updated, history
  <2> QED BY <1>1, <2>1 DEF Believed, GapIfIdled
<1>10. ASSUME NEW s \in Sessions, Delta(s) PROVE Believed' /\ GapIfIdled'
  BY <1>3, <1>10 DEF Delta
<1>11. ASSUME NEW s \in Sessions, Completed(s) PROVE Believed' /\ GapIfIdled'
  BY <1>3, <1>11 DEF Completed
<1>12. ASSUME NEW s \in Sessions, Error(s) PROVE Believed' /\ GapIfIdled'
  BY <1>2, <1>12 DEF Error, history
<1>13. ASSUME NEW s \in Sessions, Shut(s) PROVE Believed' /\ GapIfIdled'
  <2>1. CASE Running(s)
    BY <1>2, <1>13, <2>1 DEF Shut, CloseTells
  <2>2. CASE ~Running(s)
    <3>1. state[s] = "closed"
      BY <1>1, <1>13, <2>2 DEF Shut, Listens, Running
    <3>2. state' = state
      BY <1>1, <1>13, <3>1 DEF Shut
    <3> QED BY <1>3, <1>13, <2>2, <3>2 DEF Shut, CloseTells
  <2> QED BY <2>1, <2>2
<1>14. CASE UNCHANGED vars
  BY <1>3, <1>14 DEF vars
<1> QED BY <1>4, <1>5, <1>6, <1>7, <1>8, <1>9, <1>10, <1>11, <1>12, <1>13, <1>14 DEF Next

-----------------------------------------------------------------------------
(* The theorems.                                                           *)

LEMMA CaptionInit == Init => CaptionInv
<1> SUFFICES ASSUME Init PROVE CaptionInv
  OBVIOUS
<1>1. /\ spoken = 0 /\ live = 0 /\ on = FALSE /\ rows = {} /\ junk = {} /\ seen = {} /\ unheard = {}
      /\ \A s \in Sessions : /\ state[s] = "none" /\ socket[s] = "none"
                             /\ pending[s] = <<>> /\ items[s] = <<>>
                             /\ segment[s] = {} /\ buffer[s] = {} /\ unshown[s] = {}
  BY DEF Init
<1>2. \A s \in Sessions : UnderWay(s) = {} /\ RowWords(s) = {} /\ Own(s) = {}
  BY <1>1, EmptyQueue, OwnIs DEF UnderWay, RowWords
<1>3. Stages
  BY <1>1 DEF Stages, Running, Early
<1>4. InHand /\ WordsApart /\ Unseen /\ SegmentsApart
  BY <1>1, <1>2, EmptyQueue DEF InHand, WordsApart, Unseen, SegmentsApart
<1>5. RowsDone /\ TwiceIfTorn /\ Accounted /\ ShownIsKept /\ Believed /\ GapIfIdled
  BY <1>1 DEF RowsDone, TwiceIfTorn, Accounted, ShownIsKept, Believed, GapIfIdled
<1> QED BY <1>3, <1>4, <1>5, TypeInit DEF CaptionInv

LEMMA CaptionHolds == Spec => []CaptionInv
<1>1. CaptionInv /\ [Next]_vars => CaptionInv'
  BY TypeStep, StagesStep, WordStep, RowStep, KeptStep, BelievedStep
     DEF CaptionInv, WordPart, KeptPart
<1> QED BY <1>1, CaptionInit, PTL DEF Spec

\* No step writes what is not of its type, and the backlog keeps to its limit.
THEOREM TypeCorrect == Spec => []TypeOK
<1>1. CaptionInv => TypeOK
  BY DEF CaptionInv
<1> QED BY <1>1, CaptionHolds, PTL

\* What was shown as a caption is in the minutes, unless its line was taken for noise
\* (stt-live.ts, finalize), the service is still at it, closed the socket on it, or it
\* came after its segment had ended.
THEOREM CaptionsAreKept == Spec => []ShownIsKept
<1>1. CaptionInv => ShownIsKept
  BY DEF CaptionInv
<1> QED BY <1>1, CaptionHolds, PTL

\* No word is in the minutes twice but for a session that ended with its segment
\* open and had its transcript afterwards.
THEOREM TwiceOnlyIfTorn == Spec => []TwiceIfTorn
<1>1. CaptionInv => TwiceIfTorn
  BY DEF CaptionInv
<1> QED BY <1>1, CaptionHolds, PTL

\* The client speaks to a closed session in the belief that it is heard only
\* if the session was closed for want of audio.
THEOREM GapsAreIdle == Spec => []GapIfIdled
<1>1. CaptionInv => GapIfIdled
  BY DEF CaptionInv
<1> QED BY <1>1, CaptionHolds, PTL
=============================================================================

------------------------------ MODULE Handover ------------------------------
(***************************************************************************)
(* The handovers of one group between shifts (server/src/handover.ts).     *)
(* A draft is made from what was said since the last handover, the author  *)
(* works on it and publishes it, the others sign it, possibly with a line  *)
(* on what they have understood, which the AI then compares with the       *)
(* original.  Two hours later a sweep tells the author who has not signed. *)
(***************************************************************************)
EXTENDS Integers, FiniteSets, Group

CONSTANTS
    Author,         \* who writes the handovers
    Msgs,           \* messages of the group, in the order of their ids
    Hands,          \* ids of handovers, in the order of AUTOINCREMENT
    Notes,          \* lines on what was understood; each is submitted once
    None,           \* not yet, or nothing
    FirstWindow,    \* how far back the first draft looks: 12 hours
    Limit,          \* how many messages a draft is made from: 120
    EscalateAfter,  \* 2 hours
    Expiry,         \* 3 days
    MaxTime         \* bound: the clock stops

ASSUME HandoverAssumption ==
    /\ Author \in People
    /\ Hands \subseteq Nat /\ Msgs \subseteq Nat
    /\ None \notin Int \cup Notes
    /\ {FirstWindow, Limit, EscalateAfter, Expiry, MaxTime} \subseteq Nat

VARIABLES
    now,        \* the clock, in the seconds of the database
    said,       \* said[m]: when message m was written
    screen,     \* the draft the author works on, or None
    hand,       \* hand[h]: row h of handovers
    ack,        \* ack[h][p]: the row of p in handover_acks
    checks,     \* the echoCheck calls under way: <<handover, person, note>>
    notices,    \* notices[h]: how many alarms the author got about h
    overtaken   \* history: acknowledgements whose note was replaced while an
                \* older one was being compared

handoverVars == <<now, members, said, screen, hand, ack, checks, notices, overtaken>>

Times == 0 .. MaxTime

\* A draft, or what is published of it: the messages it was made from, and when
\* they were read.  By hand, or by the rule that stands in for the AI, none.
Draft == [from : Int, at : Times, seen : SUBSET Msgs, source : {"ai", "rule", "hand"}]

Row == [at : Times \cup {None}, draft : Draft, escalated : BOOLEAN]

\* echo names the note whose comparison was stored.
Ack == [signed : BOOLEAN, note : Notes \cup {None}, verdict : {None, "ok", "mismatch"},
        echo : Notes \cup {None}]

HandoverTypeOK ==
    /\ now \in Times
    /\ members \subseteq People
    /\ said \in [Msgs -> Times \cup {None}]
    /\ screen = None \/ (screen \in Draft /\ Cardinality(screen.seen) <= Limit)
    /\ hand \in [Hands -> Row]
    /\ ack \in [Hands -> [People -> Ack]]
    /\ checks \subseteq Hands \X People \X Notes
    /\ notices \in [Hands -> Nat]
    /\ overtaken \subseteq Hands \X People

ByHand == [from |-> 0, at |-> 0, seen |-> {}, source |-> "hand"]
Unsigned == [signed |-> FALSE, note |-> None, verdict |-> None, echo |-> None]

HandoverInit ==
    /\ now = 0
    /\ members \in {S \in SUBSET People : Author \in S}
    /\ said = [m \in Msgs |-> None]
    /\ screen = None
    /\ hand = [h \in Hands |-> [at |-> None, draft |-> ByHand, escalated |-> FALSE]]
    /\ ack = [h \in Hands |-> [p \in People |-> Unsigned]]
    /\ checks = {}
    /\ notices = [h \in Hands |-> 0]
    /\ overtaken = {}

Published == {h \in Hands : hand[h].at # None}
Said == {m \in Msgs : said[m] # None}
Signers(h) == {p \in People : ack[h][p].signed}

-----------------------------------------------------------------------------
(* The group.                                                              *)

SecondPasses ==
    /\ now < MaxTime
    /\ now' = now + 1
    /\ UNCHANGED <<members, said, screen, hand, ack, checks, notices, overtaken>>

\* Messages get their ids in turn.
Say(m) ==
    /\ m \notin Said
    /\ \A n \in Msgs : n < m => n \in Said
    /\ said' = [said EXCEPT ![m] = now]
    /\ UNCHANGED <<now, members, screen, hand, ack, checks, notices, overtaken>>

ReaderJoins(p) ==
    /\ Joins(p)
    /\ UNCHANGED <<now, said, screen, hand, ack, checks, notices, overtaken>>

ReaderLeaves(p) ==
    /\ Leaves(p) /\ p # Author
    /\ UNCHANGED <<now, said, screen, hand, ack, checks, notices, overtaken>>

-----------------------------------------------------------------------------
(* The author.                                                             *)

\* Mutant: every draft looks back over the last twelve hours.
TwelveHours == now - FirstWindow

\* windowStart
WindowStart ==
    IF Published = {} THEN now - FirstWindow
    ELSE CHOOSE t \in {hand[h].at : h \in Published} :
             \A h \in Published : hand[h].at <= t

\* Mutant: there is no limit.
Everything(S) == S

\* ORDER BY m.id DESC LIMIT 120
Newest(S) == {m \in S : Cardinality({n \in S : n > m}) < Limit}

\* draftHandover: what it is made from is read before the AI is asked.  If there is
\* no AI, or it fails, the rule makes the draft from decisions and open todos, which
\* are left out, and from no message.
MakeDraft ==
    LET since == WindowStart
        read == Newest({m \in Said : said[m] > since})
    IN  screen' \in {[from |-> since, at |-> now, seen |-> read, source |-> "ai"],
                    [from |-> since, at |-> now, seen |-> {}, source |-> "rule"]}
    /\ UNCHANGED <<now, members, said, hand, ack, checks, notices, overtaken>>

\* publishHandover; the author may have written it without a draft.
Publish(h) ==
    /\ h \notin Published
    /\ \A i \in Hands : i < h => i \in Published
    /\ hand' = [hand EXCEPT ![h].at = now,
                            ![h].draft = IF screen = None THEN ByHand ELSE screen]
    /\ screen' = None
    /\ UNCHANGED <<now, members, said, ack, checks, notices, overtaken>>

-----------------------------------------------------------------------------
(* The readers.                                                            *)

\* Mutant: a new note leaves the verdict on the one before it.
NotedOver(a, n) == [a EXCEPT !.signed = TRUE, !.note = n]

\* The verdict is reset with the note.
Noted(a, n) == [a EXCEPT !.signed = TRUE, !.note = n, !.verdict = None, !.echo = None]

\* ackHandover, which may be called again to add a note or to replace it.
SignPlain(h, p) ==
    /\ h \in Published /\ p \in members
    /\ ack' = [ack EXCEPT ![h][p].signed = TRUE]
    /\ UNCHANGED <<now, members, said, screen, hand, checks, notices, overtaken>>

SignWith(h, p, n) ==
    /\ h \in Published /\ p \in members
    /\ \A i \in Hands, q \in People : ack[i][q].note # n /\ <<i, q, n>> \notin checks
    /\ ack' = [ack EXCEPT ![h][p] = Noted(@, n)]
    /\ checks' = checks \cup {<<h, p, n>>}
    /\ overtaken' = IF \E k \in Notes : <<h, p, k>> \in checks
                    THEN overtaken \cup {<<h, p>>} ELSE overtaken
    /\ UNCHANGED <<now, members, said, screen, hand, notices>>

\* echoCheck has its answer: it is stored, whatever the note is by now.
EchoAnswer(h, p, n) ==
    /\ <<h, p, n>> \in checks
    /\ checks' = checks \ {<<h, p, n>>}
    /\ \E v \in {"ok", "mismatch"} :
           ack' = [ack EXCEPT ![h][p].verdict = v, ![h][p].echo = n]
    /\ UNCHANGED <<now, members, said, screen, hand, notices, overtaken>>

\* A call of the AI fails, or the server restarts.
EchoFails ==
    /\ \E S \in SUBSET checks : S # {} /\ checks' = checks \ S
    /\ UNCHANGED <<now, members, said, screen, hand, ack, notices, overtaken>>

-----------------------------------------------------------------------------
(* sweepHandoverEscalations.                                               *)

Escalates(h) ==
    /\ h \in Published /\ ~hand[h].escalated
    /\ now - hand[h].at > EscalateAfter
    /\ now - hand[h].at < Expiry

Missing(h) == (members \ {Author}) \ Signers(h)

\* Mutant: a handover is marked only when nobody is missing.
DoneIfSigned(h) == Missing(h) = {}

\* A handover is looked at once, whether or not somebody is missing.
Done(h) == TRUE

SweepEscalations ==
    /\ \E h \in Hands : Escalates(h)
    /\ hand' = [h \in Hands |-> IF Escalates(h) /\ Done(h) THEN [hand[h] EXCEPT !.escalated = TRUE]
                                ELSE hand[h]]
    /\ notices' = [h \in Hands |-> IF Escalates(h) /\ Missing(h) # {}
                                   THEN notices[h] + 1 ELSE notices[h]]
    /\ UNCHANGED <<now, members, said, screen, ack, checks, overtaken>>

HandoverNext ==
    \/ SecondPasses \/ MakeDraft \/ EchoFails \/ SweepEscalations
    \/ \E m \in Msgs : Say(m)
    \/ \E p \in People : ReaderJoins(p) \/ ReaderLeaves(p)
    \/ \E h \in Hands : \/ Publish(h)
                        \/ \E p \in People : \/ SignPlain(h, p)
                                             \/ \E n \in Notes : \/ SignWith(h, p, n)
                                                                 \/ EchoAnswer(h, p, n)

HandoverSpec == HandoverInit /\ [][HandoverNext]_handoverVars

-----------------------------------------------------------------------------
(* Properties.                                                             *)

\* The verdict shown beside a note is about that note, unless the note replaced
\* one whose comparison was under way (its answer is stored all the same).
VerdictIsOfNote ==
    \A h \in Hands, p \in People :
        ack[h][p].verdict # None => ack[h][p].echo = ack[h][p].note \/ <<h, p>> \in overtaken

\* The handover whose window a message falls in: the first one published
\* when it had been said or later.
Covers(h, m) ==
    /\ m \in Said /\ h \in Published
    /\ said[m] <= hand[h].at
    /\ \A i \in Published : i < h => hand[i].at < said[m]

\* A shift loses a message only if its handover was written by hand or, while the AI
\* did not answer, by the rule, if it was said once the draft had been read from the
\* group and before it was published, if as many newer ones were taken, or if no
\* handover had ever been written and it was older than twelve hours.  No draft looks
\* for it again.
LossIsExplained ==
    \A h \in Hands, m \in Msgs :
        Covers(h, m) =>
            LET d == hand[h].draft
            IN  \/ m \in d.seen
                \/ d.source \in {"hand", "rule"}
                \/ said[m] >= d.at
                \/ Cardinality(d.seen) = Limit /\ \A n \in d.seen : n > m
                \/ said[m] <= d.from /\ \A i \in Published : h <= i

\* The author is alarmed at most once about a handover, by all sweeps together,
\* whoever joins, leaves or signs between two of them.
AlarmedOnce == \A h \in Hands : notices[h] <= 1
=============================================================================

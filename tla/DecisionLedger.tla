--------------------------- MODULE DecisionLedger ---------------------------
(***************************************************************************)
(* The decision ledger of one meeting: the meeting_recaps rows and their   *)
(* decision lines, the signatures (decision_acks), the corrections and     *)
(* withdrawals (decision_revisions, decision_state), the cancelling of an  *)
(* AI-recorded decision, and the three reminders that ask people to sign   *)
(* (server/src/recap.ts and the routes of server/src/meetings.ts).         *)
(*                                                                         *)
(* A line is a pair <<recap, index>>.  A sentence is a member of Texts;    *)
(* its "why" is abstracted to whether an edit changes it.  Every handler   *)
(* runs to its end without an await, so each is one action.  Time is a     *)
(* clock of days, far coarser than the sweeps' intervals of ten minutes    *)
(* and one hour: every sweep runs at least once a day.                     *)
(***************************************************************************)
EXTENDS Naturals, Sequences, Functions

CONSTANTS
    Recaps,     \* ids of recap rows
    MaxLines,   \* bound: decisions in one recap
    Texts,      \* sentences
    NoText,     \* NULL
    People,     \* the meeting's participants, the AI aside
    Host,       \* host_id
    Managers,   \* those canManageMeeting allows to correct and withdraw
    SoftAfter,  \* DECISION_REMIND_MS, in days
    SoftUntil,  \* 7 days
    AutoEvery,  \* ackAutoRemindHours, in days
    AutoUntil,  \* 14 days
    Never,      \* no decision_ack_autoremind row
    MaxAge,     \* bound: days a recap is followed for
    MaxRevs     \* bound: corrections and withdrawals of one recap

ASSUME LedgerAssumption ==
    /\ NoText \notin Texts
    /\ Host \in Managers
    /\ Managers \subseteq People
    /\ MaxLines \in Nat
    /\ SoftAfter \in Nat /\ SoftUntil \in Nat
    /\ AutoEvery \in Nat \ {0} /\ AutoUntil \in Nat
    /\ Never \notin Nat
    /\ MaxAge \in Nat /\ MaxRevs \in Nat

Lines == Recaps \X (0 .. MaxLines - 1)

VARIABLES
    source,     \* source[r]: "none" before the row exists, "gone" after
    count,      \* the number of its decisions
    born,       \* created_at
    cited,      \* rows of other tables that refer to the recap
    text,       \* text[l]: the sentence of the line
    withdrawn,  \* decision_state
    revs,       \* decision_revisions, oldest first
    acks,       \* who has a decision_acks row
    drawn,      \* whose row has a drawn signature or a note
    softSent,   \* softSent[r]: who has a decision_remind_sent row
    autoLast,   \* MAX(sent_at) in decision_ack_autoremind, or Never
    cooling,    \* lines in the in-memory manual-reminder cooldown
    now,        \* the day
    swept,      \* the sweeps that have run today
    version,    \* history: how often the line's sentence has changed
    signed,     \* history: <<l, p, v, d>>: a signature of p arrived while line l was
                \* at version v; d: with a drawing or a note
    quiet,      \* history: days somebody has gone unasked to sign a line that stands
    nagged,     \* history: soft reminders of r to p since its last new sentence
    torn        \* recaps whose cancellation failed half-way

rowVars == <<source, count, born, cited>>
lineVars == <<text, withdrawn, revs, version>>
ackVars == <<acks, drawn, signed>>
remindVars == <<softSent, autoLast, cooling, quiet, nagged>>
timeVars == <<now, swept>>
vars == <<rowVars, lineVars, ackVars, remindVars, timeVars, torn>>

Sources == {"none", "call", "auto", "manual", "gone"}

Revision == [kind : {"edit", "withdraw"}, prev : Texts, next : Texts \union {NoText},
             acks : SUBSET People, version : Nat]

TypeOK ==
    /\ source \in [Recaps -> Sources]
    /\ count \in [Recaps -> 0 .. MaxLines]
    /\ born \in [Recaps -> Nat]
    /\ cited \in SUBSET Recaps
    /\ text \in [Lines -> Texts \union {NoText}]
    /\ withdrawn \in [Lines -> BOOLEAN]
    /\ revs \in [Lines -> Seq(Revision)]
    /\ acks \in [Lines -> SUBSET People]
    /\ drawn \in [Lines -> SUBSET People]
    /\ softSent \in [Recaps -> SUBSET People]
    /\ autoLast \in [Lines -> Nat \union {Never}]
    /\ cooling \in SUBSET Lines
    /\ now \in Nat
    /\ swept \in SUBSET {"soft", "auto"}
    /\ version \in [Lines -> Nat]
    /\ signed \in SUBSET (Lines \X People \X Nat \X BOOLEAN)
    /\ quiet \in [Lines -> Nat]
    /\ nagged \in [Recaps -> [People -> Nat]]
    /\ torn \in SUBSET Recaps

Init ==
    /\ source = [r \in Recaps |-> "none"]
    /\ count = [r \in Recaps |-> 0]
    /\ born = [r \in Recaps |-> 0]
    /\ cited = {}
    /\ text = [l \in Lines |-> NoText]
    /\ withdrawn = [l \in Lines |-> FALSE]
    /\ revs = [l \in Lines |-> <<>>]
    /\ acks = [l \in Lines |-> {}]
    /\ drawn = [l \in Lines |-> {}]
    /\ softSent = [r \in Recaps |-> {}]
    /\ autoLast = [l \in Lines |-> Never]
    /\ cooling = {}
    /\ now = 0
    /\ swept = {}
    /\ version = [l \in Lines |-> 0]
    /\ signed = {}
    /\ quiet = [l \in Lines |-> 0]
    /\ nagged = [r \in Recaps |-> [p \in People |-> 0]]
    /\ torn = {}

-----------------------------------------------------------------------------
(* Recording and citing.                                                   *)

Exists(r) == source[r] \in {"call", "auto", "manual"}

\* The decisions of recap r: the handlers refuse an index out of range.
IsLine(l) == Exists(l[1]) /\ l[2] < count[l[1]]

LinesOf(r) == {l \in Lines : l[1] = r /\ l[2] < count[r]}

\* A call's recap, an AI judgement or a person puts decisions in the ledger;
\* the last two always one.
Record(r, kind, n) ==
    /\ source[r] = "none"
    /\ kind = "call" \/ n = 1
    /\ source' = [source EXCEPT ![r] = kind]
    /\ count' = [count EXCEPT ![r] = n]
    /\ born' = [born EXCEPT ![r] = now]
    /\ \E t \in Texts :
           text' = [l \in Lines |-> IF l[1] = r /\ l[2] < n THEN t ELSE text[l]]
    /\ UNCHANGED <<cited, withdrawn, revs, version, ackVars, remindVars, timeVars, torn>>

\* A published file revision names the decision as its basis, or an agenda
\* event the recap that settled it: foreign keys without ON DELETE.
Cite(r) ==
    /\ Exists(r)
    /\ cited' = cited \union {r}
    /\ UNCHANGED <<source, count, born, lineVars, ackVars, remindVars, timeVars, torn>>

-----------------------------------------------------------------------------
(* Signing.                                                                *)

\* ackDecision: INSERT OR IGNORE, whatever the line's state, and an UPDATE with
\* the drawn signature or the note if there is one.  The request names the line
\* only, whichever of its sentences was on the screen.
Ack(p, l, d) ==
    /\ IsLine(l)
    /\ acks' = [acks EXCEPT ![l] = @ \union {p}]
    /\ drawn' = IF d THEN [drawn EXCEPT ![l] = @ \union {p}] ELSE drawn
    /\ signed' = signed \union {<<l, p, version[l], d>>}
    /\ UNCHANGED <<rowVars, lineVars, remindVars, timeVars, torn>>

-----------------------------------------------------------------------------
(* Correcting and withdrawing.                                             *)

AddLength(h, n) == n + Len(h)

\* How many corrections and withdrawals the recap has seen.
Revisions(r) == FoldFunctionOnSet(AddLength, 0, revs, LinesOf(r))

\* Mutant: a line withdrawn already is corrected or withdrawn again.
CorrectableAgain(p, l) == p \in Managers /\ IsLine(l) /\ Revisions(l[1]) < MaxRevs

\* What correcting and withdrawing ask of a line first: the reason the request
\* must give is always given here.
Correctable(p, l) ==
    /\ p \in Managers /\ IsLine(l) /\ ~withdrawn[l]
    /\ Revisions(l[1]) < MaxRevs

\* Mutant: the signatures are looked up after they have been deleted.
ReviseNoSnapshot(l, kind, next, snapshot) ==
    revs' = [revs EXCEPT ![l] = Append(@,
        [kind |-> kind, prev |-> text[l], next |-> next, acks |-> {}, version |-> version[l]])]

\* INSERT INTO decision_revisions.  The snapshot has the name and the time of
\* each signature, not what was drawn or noted with it.
Revise(l, kind, next, snapshot) ==
    revs' = [revs EXCEPT ![l] = Append(@,
        [kind |-> kind, prev |-> text[l], next |-> next, acks |-> snapshot, version |-> version[l]])]

\* The line's signatures are deleted and the recap's soft reminder starts over.
ResetSignatures(l) ==
    /\ acks' = [acks EXCEPT ![l] = {}]
    /\ drawn' = [drawn EXCEPT ![l] = {}]
    /\ softSent' = [softSent EXCEPT ![l[1]] = {}]
    /\ nagged' = [nagged EXCEPT ![l[1]] = [q \in People |-> 0]]

\* editDecision with a new sentence: the names of those who signed move into the
\* revision, their rows are deleted, and everyone is asked to sign anew.
EditText(p, l, t) ==
    /\ Correctable(p, l) /\ t # text[l]
    /\ Revise(l, "edit", t, acks[l])
    /\ ResetSignatures(l)
    /\ text' = [text EXCEPT ![l] = t]
    /\ version' = [version EXCEPT ![l] = @ + 1]
    /\ quiet' = [quiet EXCEPT ![l] = 0]
    /\ UNCHANGED <<rowVars, withdrawn, signed, autoLast, cooling, timeVars, torn>>

\* editDecision with a new "why" only: a revision, and the signatures stay.
EditWhy(p, l) ==
    /\ Correctable(p, l)
    /\ Revise(l, "edit", text[l], acks[l])
    /\ UNCHANGED <<rowVars, text, withdrawn, version, ackVars, remindVars, timeVars, torn>>

\* withdrawDecision: a state, not a deletion; it takes no snapshot.
Withdraw(p, l) ==
    /\ Correctable(p, l)
    /\ Revise(l, "withdraw", NoText, {})
    /\ withdrawn' = [withdrawn EXCEPT ![l] = TRUE]
    /\ UNCHANGED <<rowVars, text, version, ackVars, remindVars, timeVars, torn>>

\* The rows the route for cancelling an AI record deletes first, one statement
\* after the other and outside any transaction.
DropRows(r) ==
    /\ acks' = [l \in Lines |-> IF l[1] = r THEN {} ELSE acks[l]]
    /\ drawn' = [l \in Lines |-> IF l[1] = r THEN {} ELSE drawn[l]]
    /\ softSent' = [softSent EXCEPT ![r] = {}]
    /\ autoLast' = [l \in Lines |-> IF l[1] = r THEN Never ELSE autoLast[l]]
    /\ quiet' = [l \in Lines |-> IF l[1] = r THEN 0 ELSE quiet[l]]
    /\ nagged' = [nagged EXCEPT ![r] = [p \in People |-> 0]]
    /\ UNCHANGED cooling

\* ... and then the recap, which takes its revisions with it.
CancelAuto(r) ==
    /\ source[r] = "auto" /\ r \notin cited
    /\ DropRows(r)
    /\ source' = [source EXCEPT ![r] = "gone"]
    /\ revs' = [l \in Lines |-> IF l[1] = r THEN <<>> ELSE revs[l]]
    /\ signed' = {e \in signed : e[1][1] # r}
    /\ UNCHANGED <<count, born, cited, text, withdrawn, version, timeVars, torn>>

\* A foreign key stops the last statement: the record stays, its rows do not.
CancelAutoFails(r) ==
    /\ source[r] = "auto" /\ r \in cited
    /\ DropRows(r)
    /\ torn' = torn \union {r}
    /\ UNCHANGED <<rowVars, lineVars, signed, timeVars>>

-----------------------------------------------------------------------------
(* Reminding.                                                              *)

Age(r) == now - born[r]

HasAcked(r) == UNION {acks[l] : l \in LinesOf(r)}

\* Those runDecisionReminders still has to nudge about r: they have signed
\* nothing of it.
SoftTargets(r) ==
    IF Exists(r) /\ count[r] > 0 /\ SoftAfter <= Age(r) /\ Age(r) <= SoftUntil
    THEN People \ ({Host} \union HasAcked(r) \union softSent[r])
    ELSE {}

\* runDecisionReminders.
SoftRemind ==
    /\ softSent' = [r \in Recaps |-> softSent[r] \union SoftTargets(r)]
    /\ nagged' = [r \in Recaps |-> [p \in People |->
           IF p \in SoftTargets(r) THEN nagged[r][p] + 1 ELSE nagged[r][p]]]
    /\ swept' = swept \union {"soft"}
    /\ UNCHANGED <<rowVars, lineVars, ackVars, autoLast, cooling, quiet, now, torn>>

\* A line the automatic sweep looks at, with somebody's signature missing.
Outstanding(l) ==
    /\ IsLine(l)
    /\ AutoEvery <= Age(l[1]) /\ Age(l[1]) < AutoUntil
    /\ People \ ({Host} \union acks[l]) # {}

\* The sweep asks for them although the line may be withdrawn (it does not read
\* decision_state); these are the signatures a line that stands still awaits.
Awaited(l) == Outstanding(l) /\ ~withdrawn[l]

\* Mutant: one day too many between two automatic reminders.
AutoDueLate(l) == Outstanding(l) /\ (autoLast[l] = Never \/ now - autoLast[l] > AutoEvery)

AutoDue(l) == Outstanding(l) /\ (autoLast[l] = Never \/ now - autoLast[l] >= AutoEvery)

\* sweepDecisionAckAutoReminders.
AutoRemind ==
    /\ autoLast' = [l \in Lines |-> IF AutoDue(l) THEN now ELSE autoLast[l]]
    /\ quiet' = [l \in Lines |-> IF AutoDue(l) THEN 0 ELSE quiet[l]]
    /\ swept' = swept \union {"auto"}
    /\ UNCHANGED <<rowVars, lineVars, ackVars, softSent, cooling, nagged, now, torn>>

\* The manual button: everyone who has not signed, the one asking aside.
ManualRemind(p, l) ==
    /\ p \in Managers /\ IsLine(l) /\ l \notin cooling
    /\ People \ (acks[l] \union {p}) # {}
    /\ cooling' = cooling \union {l}
    /\ UNCHANGED <<rowVars, lineVars, ackVars, softSent, autoLast, quiet, nagged, timeVars, torn>>

-----------------------------------------------------------------------------
(* Time, and restarts: the cooldown is all that is not in the database.    *)

Tick ==
    /\ \E r \in Recaps : Exists(r) /\ Age(r) < MaxAge
    /\ swept = {"soft", "auto"}
    /\ now' = now + 1
    /\ swept' = {}
    /\ cooling' = {}
    /\ quiet' = [l \in Lines |-> IF Awaited(l) THEN quiet[l] + 1 ELSE 0]
    /\ UNCHANGED <<rowVars, lineVars, ackVars, softSent, autoLast, nagged, torn>>

Restart ==
    /\ cooling # {}
    /\ cooling' = {}
    /\ UNCHANGED <<rowVars, lineVars, ackVars, softSent, autoLast, quiet, nagged, timeVars, torn>>

Next ==
    \/ \E r \in Recaps :
        \/ \E kind \in {"call", "auto", "manual"}, n \in 1 .. MaxLines : Record(r, kind, n)
        \/ Cite(r) \/ CancelAuto(r) \/ CancelAutoFails(r)
    \/ \E p \in People, l \in Lines :
        \/ \E t \in Texts : EditText(p, l, t)
        \/ \E d \in BOOLEAN : Ack(p, l, d)
        \/ EditWhy(p, l) \/ Withdraw(p, l) \/ ManualRemind(p, l)
    \/ SoftRemind \/ AutoRemind
    \/ Tick
    \/ Restart

Spec == Init /\ [][Next]_vars

-----------------------------------------------------------------------------
(* Properties.                                                             *)

\* The principle of a correction ("nothing is deleted, it stays in the
\* history"), as far as the code keeps to it: for as long as the record exists, a
\* signature that reached a sentence is a row under that very sentence, with all
\* that was ever drawn or noted on it, or the sentence has been corrected since
\* and the revision that replaced it names the signer.  (The drawing itself is
\* gone by then, and a cancellation that fails half-way takes all: CancelAutoFails.)
SignaturesKept ==
    \A e \in signed :
        LET l == e[1] IN
            \/ l[1] \in torn
            \/ e[3] = version[l] /\ e[2] \in acks[l] /\ (e[4] => e[2] \in drawn[l])
            \/ /\ e[3] < version[l]
               /\ \E k \in 1 .. Len(revs[l]) :
                      revs[l][k].version = e[3] /\ e[2] \in revs[l][k].acks

\* The history of a line replays to what the ledger shows: each correction
\* starts from the sentence the one before it left, the last one left the
\* present sentence, and a withdrawal ends it.
HistoryReplays ==
    \A l \in Lines :
        LET h == revs[l] IN
            \A k \in 1 .. Len(h) :
                /\ h[k].kind = "withdraw" <=> (k = Len(h) /\ withdrawn[l])
                /\ IF k < Len(h) THEN h[k].next = h[k + 1].prev
                   ELSE text[l] = IF withdrawn[l] THEN h[k].prev ELSE h[k].next

\* A signature that a line still awaits is never left unasked for longer than the
\* automatic sweep's interval, whatever is corrected, signed or cancelled
\* meanwhile.  Of a withdrawn line, whose signing "stops" (meetings.ts), it says
\* nothing.
SilenceIsBroken == \A l \in Lines : quiet[l] <= AutoEvery

\* "Nudged once only" (recap.ts): nobody gets a second soft reminder about a
\* recap whose sentences have not changed since the first.
NudgedOnce == \A r \in Recaps : \A p \in People : nagged[r][p] <= 1
=============================================================================

----------------------------- MODULE Circulation -----------------------------
(***************************************************************************)
(* An uploaded file that goes round for signatures (server/src/files.ts,   *)
(* fileai.ts).  A revision, published by hand or by the upload of a new    *)
(* version, moves the signatures to the history; everybody is then told to *)
(* sign again, once the AI has said what changed or has failed to.  A      *)
(* sweep reminds those who have not signed.                                *)
(***************************************************************************)
EXTENDS Integers, FiniteSets, Group

CONSTANTS
    Creator,        \* who made the file
    Patience,       \* ACK_AUTOREMIND_HOURS, in ticks
    MaxRev,         \* bound: revisions
    MaxUploads      \* bound: uploads of a new version under way at a time

ASSUME CirculationAssumption ==
    /\ Creator \in People
    /\ Patience \in Nat /\ MaxRev \in Nat \ {0} /\ MaxUploads \in Nat

VARIABLES
    owner,      \* created_by: the creator, or who uploaded the last version
    trashed,    \* deleted_at
    required,   \* ack_required
    rev,        \* the revision
    signed,     \* file_acks: who has signed this revision
    past,       \* file_acks_history: <<person, revision>>
    blob,       \* blob_path, numbered as they were written
    versions,   \* file_versions
    uploads,    \* uploads whose body has not arrived
    jobs,       \* afterRevise calls that await the AI
    age,        \* time since the revision (the first: since the file changed),
    auto,       \* since the last automatic reminder of this revision,
    manual,     \* and since the last manual one, in memory; all up to Patience
    blobs,      \* history: the blobs written
    given,      \* history: who signed which revision
    known,      \* history: who was told of this revision, or acted on it
    silent,     \* history: whose signature this revision has reset and whom its
                \* notice did not reach: it was lost with the server, or never due
                \* (the upload began before signatures were asked), or they were
                \* no participants by then
    dropped     \* history: versions that another upload overtook

vars == <<members, owner, trashed, required, rev, signed, past, blob, versions, uploads,
          jobs, age, auto, manual, blobs, given, known, silent, dropped>>
file == <<members, owner, trashed, required>>
content == <<blob, versions, uploads, blobs, dropped>>
clocks == <<age, auto, manual>>

\* What an upload has read of the row before its body arrives.
Upload == [by : People, old : Nat, ack : BOOLEAN]

Job == [rev : Nat, ack : BOOLEAN, by : People]

Ages == 0 .. Patience

TypeOK ==
    /\ members \subseteq People /\ owner \in People
    /\ trashed \in BOOLEAN /\ required \in BOOLEAN
    /\ rev \in 1 .. MaxRev
    /\ signed \subseteq People
    /\ past \subseteq People \X (1 .. rev - 1)
    /\ blob \in 1 .. blobs /\ versions \subseteq 1 .. blobs
    /\ uploads \subseteq Upload
    /\ jobs \subseteq Job
    /\ age \in Ages /\ auto \in Ages /\ manual \in Ages
    /\ blobs \in Nat
    /\ given \subseteq People \X (1 .. rev)
    /\ known \subseteq People
    /\ silent \subseteq People
    /\ dropped \subseteq 1 .. blobs

Init ==
    /\ members = {Creator} /\ owner = Creator
    /\ trashed = FALSE /\ required = FALSE
    /\ rev = 1 /\ signed = {} /\ past = {}
    /\ blob = 1 /\ versions = {} /\ uploads = {} /\ jobs = {}
    /\ age = 0 /\ auto = Patience /\ manual = Patience
    /\ blobs = 1 /\ given = {} /\ known = {} /\ silent = {} /\ dropped = {}

Older(a) == IF a < Patience THEN a + 1 ELSE a

Tick ==
    /\ age' = Older(age) /\ auto' = Older(auto) /\ manual' = Older(manual)
    /\ UNCHANGED <<file, rev, signed, past, content, jobs, given, known, silent>>

JoinOrLeave(p) ==
    /\ Joins(p) \/ Leaves(p)
    /\ UNCHANGED <<owner, trashed, required, rev, signed, past, content, jobs, clocks,
                   given, known, silent>>

\* The row goes to the trash, or comes back.
TrashOrRestore ==
    /\ trashed' = ~trashed
    /\ UNCHANGED <<members, owner, required, rev, signed, past, content, jobs, clocks,
                   given, known, silent>>

\* Mutant: the time runs from the last change of the file.
SinceChange == 0

\* The time runs from the snapshot of the revision; the first has none, and
\* there it runs from the last change of the file.
SinceRevision == IF rev = 1 THEN 0 ELSE age

\* The file is moved or renamed.
Touch ==
    /\ ~trashed
    /\ age' = SinceRevision
    /\ UNCHANGED <<file, rev, signed, past, content, jobs, auto, manual, given, known, silent>>

-----------------------------------------------------------------------------
(* Signatures.                                                             *)

\* Whose signature the revision has reset and who does not know it.
Unaware == {p \in People : <<p, rev - 1>> \in past} \ (signed \cup known)

\* ack-request, by p: who has not signed is told.
Request(p, on) ==
    /\ ~trashed /\ p \in members
    /\ required' = on
    /\ IF on THEN /\ known' = known \cup (members \ signed) \cup {p}
                  /\ silent' = silent \cup (Unaware \ members)
             ELSE UNCHANGED <<known, silent>>
    /\ UNCHANGED <<members, owner, trashed, rev, signed, past, content, jobs, clocks, given>>

\* ack
Sign(p) ==
    /\ ~trashed /\ required /\ p \in members
    /\ signed' = signed \cup {p}
    /\ given' = given \cup {<<p, rev>>}
    /\ UNCHANGED <<file, rev, past, content, jobs, clocks, known, silent>>

\* ack-remind, by p.
Remind(p) ==
    /\ ~trashed /\ required /\ p \in members
    /\ manual > 0
    /\ members \ (signed \cup {p}) # {}
    /\ manual' = 0
    /\ known' = known \cup members
    /\ UNCHANGED <<file, rev, signed, past, content, jobs, age, auto, given, silent>>

\* sweepFileAckAutoReminders; the owner gets a report.
Waiting == members \ (signed \cup {owner})

Sweep ==
    /\ ~trashed /\ required
    /\ age = Patience /\ auto = Patience /\ manual = Patience
    /\ Waiting # {}
    /\ auto' = 0
    /\ known' = known \cup Waiting \cup {owner}
    /\ UNCHANGED <<file, rev, signed, past, content, jobs, age, manual, given, silent>>

-----------------------------------------------------------------------------
(* Revisions.                                                              *)

\* Mutant: the signatures are kept under the new revision.
FiledUnderNext == rev + 1

\* The revision under which the signatures go to the history.
FiledUnder == rev

\* reviseFile by p, to whom the row said whether signatures are required.
Revised(p, ack) ==
    /\ rev < MaxRev
    /\ rev' = rev + 1
    /\ past' = past \cup (signed \X {FiledUnder})
    /\ signed' = {}
    /\ jobs' = jobs \cup {[rev |-> rev + 1, ack |-> ack, by |-> p]}
    /\ age' = 0 /\ auto' = Patience
    /\ known' = {p}
    /\ silent' = IF required /\ ~ack THEN signed ELSE {}

\* POST /revise
Revise(p) ==
    /\ ~trashed /\ p \in members
    /\ Revised(p, required)
    /\ UNCHANGED <<file, content, manual, given>>

\* POST /upload-version: the row is read ...
UploadStart(p) ==
    /\ ~trashed /\ p \in members
    /\ Cardinality(uploads) < MaxUploads
    /\ uploads' = uploads \cup {[by |-> p, old |-> blob, ack |-> required]}
    /\ UNCHANGED <<file, rev, signed, past, jobs, clocks, blob, versions, blobs, dropped,
                   given, known, silent>>

\* Mutant: the row is read again after it has got the new blob.
ReplacedAfter(u) == blobs + 1

\* The version that is kept is the one the row had when the upload began.
Replaced(u) == u.old

\* ... before the body arrives.  Whether the file is in the trash by then, or has
\* another blob, is not looked at.
UploadEnd(u) ==
    /\ u \in uploads
    /\ Revised(u.by, u.ack)
    /\ owner' = u.by
    /\ blobs' = blobs + 1 /\ blob' = blobs + 1
    /\ versions' = versions \cup {Replaced(u)}
    /\ dropped' = IF u.old # blob THEN dropped \cup {blob} ELSE dropped
    /\ uploads' = uploads \ {u}
    /\ UNCHANGED <<members, trashed, required, manual, given>>

\* The body does not arrive, or cannot be written: by then the version has been
\* recorded.
UploadFails(u) ==
    /\ u \in uploads
    /\ uploads' = uploads \ {u}
    /\ versions' \in {versions, versions \cup {Replaced(u)}}
    /\ UNCHANGED <<file, rev, signed, past, jobs, clocks, blob, blobs, dropped, given,
                   known, silent>>

\* Mutant: nobody is told of a change that the AI could not describe.
TellsIf(summary) == summary

\* The notice goes out with the summary or without it.
Tells(summary) == TRUE

\* The AI has answered, or has failed; answers come in any order.
Notify(j) ==
    /\ j \in jobs
    /\ jobs' = jobs \ {j}
    /\ \E summary \in BOOLEAN :
           IF j.ack /\ j.rev = rev /\ Tells(summary)
           THEN /\ known' = known \cup members
                /\ silent' = silent \cup (Unaware \ members)
           ELSE UNCHANGED <<known, silent>>
    /\ UNCHANGED <<file, rev, signed, past, content, clocks, given>>

\* The server restarts.
Restart ==
    /\ uploads' = {} /\ jobs' = {}
    /\ manual' = Patience
    /\ silent' = IF \E j \in jobs : j.ack /\ j.rev = rev THEN silent \cup Unaware ELSE silent
    /\ UNCHANGED <<file, rev, signed, past, blob, versions, age, auto, blobs, dropped,
                   given, known>>

Next ==
    \/ Tick \/ TrashOrRestore \/ Touch \/ Sweep \/ Restart
    \/ \E p \in People : \/ JoinOrLeave(p) \/ Sign(p) \/ Remind(p) \/ Revise(p) \/ UploadStart(p)
                         \/ \E on \in BOOLEAN : Request(p, on)
    \/ \E u \in uploads : UploadEnd(u) \/ UploadFails(u)
    \/ \E j \in jobs : Notify(j)

\* Time passes, and index.ts runs the sweep at an interval.
Spec == Init /\ [][Next]_vars /\ WF_vars(Tick) /\ WF_vars(Sweep)

-----------------------------------------------------------------------------
(* Properties.                                                             *)

\* Every signature ever given is on record, under the revision it was given to:
\* with the file while that is the current one, in the history afterwards; and
\* there is no other (files.ts, reviseFile).
SignaturesKept == given = past \cup (signed \X {rev})

\* Every blob the file ever had is its content or one of its versions, unless
\* an upload that had begun before it was there replaced it: that one keeps
\* what it had read.
NoVersionLost == 1 .. blobs \subseteq {blob} \cup versions \cup dropped

\* Whoever's signature a revision has reset is told to sign again, unless the
\* notice still waits for the AI, was lost with the server, was never meant
\* to be sent (the upload began before signatures were required), or went out
\* while they were not in the group, to which they may have come back since.
ResetIsTold ==
    required =>
        \A p \in People :
            <<p, rev - 1>> \in past =>
                \/ p \in signed \cup known \cup silent
                \/ \E j \in jobs : j.rev = rev

\* Whoever has not signed gets to know, some day, that it is up to them,
\* whatever notices were lost; the owner apart, whom nothing reminds, and a
\* first revision that people keep renaming and moving.
EveryoneIsAsked ==
    \A p \in People :
        <>[](/\ required /\ ~trashed /\ p \in members \ (signed \cup {owner})
             /\ (rev > 1 \/ age = Patience))
            => []<>(p \in known)
=============================================================================

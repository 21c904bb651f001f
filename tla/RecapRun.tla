------------------------------ MODULE RecapRun ------------------------------
(***************************************************************************)
(* The recap pipeline of one meeting: runRecapForMeeting of                *)
(* server/src/recap.ts with the transcription of server/src/stt.ts it      *)
(* awaits.  A run chooses its window when it starts, transcribes the audio *)
(* chunks on disk one after the other, reads its material, awaits the      *)
(* extraction, stores the recap and awaits the criticality judgement.      *)
(* Between two awaits nothing else happens: a run with nothing to await    *)
(* ("Rushing") goes on before any handler does.                            *)
(*                                                                         *)
(* What is said is a word (a chat message) or a chunk (a stretch of        *)
(* speech, recorded and uploaded, and perhaps captioned by the browser).   *)
(* Times have the granularity of datetime('now'): a tick is a second in    *)
(* which several things happen.                                            *)
(***************************************************************************)
EXTENDS Integers, FiniteSets

CONSTANTS
    Words,          \* chat messages
    Chunks,         \* recorded stretches of speech
    Runs,           \* runs of runRecapForMeeting, each used once
    None,           \* no time, no chunk
    Pad,            \* how long before a call its context begins: 10 minutes
    FirstWindow,    \* how far back the first recap reaches: 24 hours
    MaxChat,        \* LIMIT of the query for messages: 200
    MaxRows,        \* LIMIT of the queries for transcripts: 300
    MaxTime,        \* bound: the clock stops
    MaxRestarts     \* bound: restarts of the server

ASSUME RecapAssumption ==
    /\ Words \cap Chunks = {}
    /\ None \notin Int \cup Chunks /\ None # {}
    /\ Pad \in Nat
    /\ FirstWindow \in Nat
    /\ MaxChat \in Nat /\ MaxChat >= 2
    /\ MaxRows \in Nat /\ MaxRows >= 2
    /\ MaxTime \in Nat
    /\ MaxRestarts \in Nat

VARIABLES
    now,        \* the clock
    said,       \* said[i]: when the word was sent or the chunk began, or None
    noted,      \* words the ledger holds as a record of the AI's own ('auto')
    disk,       \* disk[c]: is the chunk's file unsent, stored or removed
    listening,  \* chunks whose live transcription is awaited
    rows,       \* rows[c]: the chunk's 'whisper' rows in call_transcripts
    captions,   \* chunks with a 'live' row there
    phase,      \* the call: off, on, or in its grace period
    started,    \* meetings.call_started_at, or None
    spinner,    \* the last recap:status was "generating"
    ended,      \* the latest call_ended_at of a recap proper, or None
    run,        \* run[k]: the local variables of run k
    restarts,   \* bound
    missed,     \* history: what no later window reaches, and why (Miss, Store)
    spared      \* history: chunks whose file, or another transcription of it
                \* under way, outlived a row of theirs

talkVars == <<said, noted>>
soundVars == <<disk, listening, rows, captions, spared>>
callVars == <<phase, started, spinner>>
vars == <<now, talkVars, soundVars, callVars, ended, run, restarts, missed>>

Items == Words \cup Chunks
Times == 0 .. MaxTime
MinMessages == 2

Stages == {"idle", "transcribing", "extracting", "saved", "done"}

\* The local variables of a run: how far it is, whether it is a session's, the
\* end of the last recap, its window, the chunks it listed and the one under
\* way, the material.  History: "known" could be read when the material was,
\* "left" was in the window but left out, "after" had been stored when the run
\* began.
RunState ==
    [stage : Stages, session : BOOLEAN, base : Times \cup {None}, since : Int,
     todo : SUBSET Chunks, chunk : Chunks \cup {None}, material : SUBSET Items,
     known : SUBSET Items, left : SUBSET Items, after : SUBSET Runs]

Fresh ==
    [stage |-> "idle", session |-> FALSE, base |-> None, since |-> 0, todo |-> {},
     chunk |-> None, material |-> {}, known |-> {}, left |-> {}, after |-> {}]

\* Types: in particular no column holds a time before the clock's first.
TypeOK ==
    /\ now \in Times
    /\ said \in [Items -> Times \cup {None}]
    /\ noted \subseteq Words
    /\ disk \in [Chunks -> {"unsent", "stored", "removed"}]
    /\ listening \subseteq Chunks
    /\ rows \in [Chunks -> Nat]
    /\ captions \subseteq Chunks
    /\ phase \in {"off", "on", "grace"}
    /\ started \in Times \cup {None}
    /\ spinner \in BOOLEAN
    /\ ended \in Times \cup {None}
    /\ run \in [Runs -> RunState]
    /\ restarts \in 0 .. MaxRestarts
    /\ missed \subseteq Items
    /\ spared \subseteq Chunks

Init ==
    /\ now = 0
    /\ said = [i \in Items |-> None]
    /\ noted = {}
    /\ disk = [c \in Chunks |-> "unsent"]
    /\ listening = {}
    /\ rows = [c \in Chunks |-> 0]
    /\ captions = {}
    /\ phase = "off"
    /\ started = None
    /\ spinner = FALSE
    /\ ended = None
    /\ run = [k \in Runs |-> Fresh]
    /\ restarts = 0
    /\ missed = {}
    /\ spared = {}

-----------------------------------------------------------------------------
(* Windows and material.                                                   *)

\* Mutant: the window takes the second of the last recap in again.
WithinClosed(i, since) == said[i] # None /\ said[i] >= since

\* created_at > since, the comparison of every query of the run.
Within(i, since) == said[i] # None /\ said[i] > since

\* Since the last recap proper, or one day back.
Since == IF ended = None THEN now - FirstWindow ELSE ended

\* The window of a call or recording begins Pad before it does, if it is known.
SessionSince ==
    IF started # None /\ started - Pad > Since THEN started - Pad ELSE Since

\* The chunks with Whisper's rows, and the browser's captions only if there are
\* none.
Whispered(since) == {c \in Chunks : rows[c] > 0 /\ Within(c, since)}
Captioned(since) == {c \in captions : Within(c, since)}
Voice(since) == IF Whispered(since) # {} THEN Whispered(since) ELSE Captioned(since)
Chatted(since) == {w \in Words : Within(w, since)}

\* The messages of the material: one for each row.
Messages(S) == {m \in S \X (1 .. Cardinality(Runs) + 1) :
                    m[2] = 1 \/ (m[1] \in Chunks /\ m[2] <= rows[m[1]])}

\* What the queries for messages may bring: ORDER BY id DESC LIMIT MaxChat.
Latest(S) ==
    {T \in SUBSET S :
        \/ T = S /\ Cardinality(S) <= MaxChat
        \/ Cardinality(T) = MaxChat /\ \A w \in S \ T : \A v \in T : said[w] <= said[v]}

\* ... and those for transcripts.  Their ids follow the order in which the rows
\* came, which is not that of the speech: any of the rows may be the latest.
LatestRows(S) ==
    {T \in SUBSET S :
        /\ Cardinality(T) <= MaxRows
        /\ T = S \/ Cardinality(Messages(T)) >= MaxRows}

\* In the window, but not in the material: what LIMIT cuts off, and captions for
\* which there is no use as some other chunk has been transcribed.
LeftOut(since, material) ==
    (Chatted(since) \cup Whispered(since) \cup Captioned(since)) \ material

\* What is in the database, and so could be read, at this moment.
Readable == {w \in Words : said[w] # None} \cup {c \in Chunks : rows[c] > 0 \/ c \in captions}

\* Stored recaps.
Told(k) == run[k].stage \in {"saved", "done"} /\ run[k].material # {}

\* History: i reaches the database when a recap already covers its second.
Miss(i, t) ==
    missed' = IF ended # None /\ t <= ended THEN missed \cup {i} ELSE missed

-----------------------------------------------------------------------------
(* A run that has nothing to await goes on before any handler.             *)

Rushing(k) == run[k].stage = "transcribing" /\ run[k].chunk = None
Quiet == \A k \in Runs : ~Rushing(k)

-----------------------------------------------------------------------------
(* People.                                                                 *)

Tick ==
    /\ Quiet
    /\ now < MaxTime
    /\ now' = now + 1
    /\ UNCHANGED <<talkVars, soundVars, callVars, ended, run, restarts, missed>>

Chat(w) ==
    /\ Quiet
    /\ said[w] = None
    /\ said' = [said EXCEPT ![w] = now]
    /\ Miss(w, now)
    /\ UNCHANGED <<now, noted, soundVars, callVars, ended, run, restarts>>

\* Mutant: every row of meeting_recaps moves the window.
NoteMovesWindow(w) ==
    /\ Quiet
    /\ said[w] # None /\ w \notin noted
    /\ noted' = noted \cup {w}
    /\ ended' = now
    /\ UNCHANGED <<now, said, soundVars, callVars, run, restarts, missed>>

\* A decision the AI hears in the chat becomes a row of its own.
Note(w) ==
    /\ Quiet
    /\ said[w] # None /\ w \notin noted
    /\ noted' = noted \cup {w}
    /\ UNCHANGED <<now, said, soundVars, callVars, ended, run, restarts, missed>>

\* Somebody speaks; the browser may recognise it and send voice:transcript.
Speak(c) ==
    /\ Quiet
    /\ said[c] = None
    /\ said' = [said EXCEPT ![c] = now]
    /\ \/ phase = "on" /\ captions' = captions \cup {c} /\ Miss(c, now)
       \/ captions' = captions /\ missed' = missed
    /\ UNCHANGED <<now, noted, disk, listening, rows, spared, callVars, ended, run, restarts>>

\* POST /audio: the chunk is stored, and with ?live=1 transcribed at once.
Upload(c) ==
    /\ Quiet
    /\ said[c] # None /\ disk[c] = "unsent"
    /\ disk' = [disk EXCEPT ![c] = "stored"]
    /\ listening' \in {listening, listening \cup {c}}
    /\ UNCHANGED <<now, talkVars, rows, captions, spared, callVars, ended, run, restarts, missed>>

-----------------------------------------------------------------------------
(* Transcription.                                                          *)

\* The INSERT; "still" says if the chunk's file, or another transcription of it,
\* goes on to be heard.
Row(c, still) ==
    /\ rows' = [rows EXCEPT ![c] = @ + 1]
    /\ Miss(c, said[c])
    /\ spared' = IF still THEN spared \cup {c} ELSE spared

NoRow == UNCHANGED <<rows, missed, spared>>

\* The runs whose batch awaits the transcription of c.
Batching(c) == {k \in Runs : run[k].chunk = c}

\* Mutant: the file of a chunk that was understood stays for the batch.
LiveKeepsFile(c) ==
    /\ Quiet
    /\ c \in listening
    /\ listening' = listening \ {c}
    /\ Row(c, Batching(c) # {}) /\ disk' = disk
    /\ UNCHANGED <<now, talkVars, captions, callVars, ended, run, restarts>>

\* transcribeChunkLive ends: text or junk removes the file, failure leaves it.
\* (For a crash between the INSERT and the removal see Restart.)
LiveHears(c) ==
    /\ Quiet
    /\ c \in listening
    /\ listening' = listening \ {c}
    /\ \/ Row(c, Batching(c) # {}) /\ disk' = [disk EXCEPT ![c] = "removed"]
       \/ NoRow /\ disk' = [disk EXCEPT ![c] = "removed"]
       \/ NoRow /\ disk' = disk
    /\ UNCHANGED <<now, talkVars, captions, callVars, ended, run, restarts>>

\* The chunk the batch takes next: the earliest it listed that is still there.
NextOf(S) ==
    IF S = {} THEN {None} ELSE {c \in S : \A d \in S : said[c] <= said[d]}

\* transcribeMeetingAudio, one turn of its loop: whatever came of the chunk,
\* its file is removed, and the next one is begun.
BatchHears(k) ==
    /\ Quiet
    /\ run[k].stage = "transcribing" /\ run[k].chunk # None
    /\ LET c == run[k].chunk
           rest == {d \in run[k].todo \ {c} : disk[d] = "stored"}
       IN  /\ Row(c, c \in listening \/ Batching(c) # {k}) \/ NoRow
           /\ disk' = [disk EXCEPT ![c] = "removed"]
           /\ \E d \in NextOf(rest) :
                  run' = [run EXCEPT ![k].todo = rest, ![k].chunk = d]
    /\ UNCHANGED <<now, talkVars, listening, captions, callVars, ended, restarts>>

-----------------------------------------------------------------------------
(* The call and the recording, as far as they touch the run.               *)

\* markCallStarted.
Mark == started' = IF started = None THEN now ELSE started

CallBegins ==
    /\ Quiet
    /\ phase # "on"
    /\ phase' = "on"
    /\ Mark
    /\ spinner' = (spinner /\ phase # "grace")
    /\ UNCHANGED <<now, talkVars, soundVars, ended, run, restarts, missed>>

CallEnds ==
    /\ Quiet
    /\ phase = "on"
    /\ phase' = "grace"
    /\ spinner' = TRUE
    /\ UNCHANGED <<now, talkVars, soundVars, started, ended, run, restarts, missed>>

FieldStart ==
    /\ Quiet
    /\ Mark
    /\ UNCHANGED <<now, talkVars, soundVars, phase, spinner, ended, run, restarts, missed>>

\* A run begins: its window, and for a session the chunks on disk.
Begin(k, session) ==
    LET listed == IF session THEN {c \in Chunks : disk[c] = "stored"} ELSE {}
    IN  /\ run[k].stage = "idle"
        /\ \E c \in NextOf(listed) :
               run' = [run EXCEPT ![k] = [Fresh EXCEPT
                          !.stage = "transcribing", !.session = session, !.base = ended,
                          !.since = IF session THEN SessionSince ELSE Since,
                          !.todo = listed, !.chunk = c,
                          !.after = {j \in Runs : Told(j)}]]

\* The grace period ends with nobody back.
TimerFires ==
    /\ Quiet
    /\ phase = "grace"
    /\ phase' = "off"
    /\ \E k \in Runs : Begin(k, TRUE)
    /\ UNCHANGED <<now, talkVars, soundVars, started, spinner, ended, restarts, missed>>

\* A recording ends: an armed timer is dropped.
FieldFinish ==
    /\ Quiet
    /\ phase' = IF phase = "grace" THEN "off" ELSE phase
    /\ spinner' = TRUE
    /\ \E k \in Runs : Begin(k, TRUE)
    /\ UNCHANGED <<now, talkVars, soundVars, started, ended, restarts, missed>>

\* "Summarise now": no transcription, no status, no session.
ManualRun ==
    /\ Quiet
    /\ \E k \in Runs : Begin(k, FALSE)
    /\ UNCHANGED <<now, talkVars, soundVars, callVars, ended, restarts, missed>>

-----------------------------------------------------------------------------
(* The run.                                                                *)

\* Mutant: any run consumes it.
ConsumeAlways(k) == started' = None

\* The session is consumed by the runs that had one.
Consume(k) == started' = IF run[k].session THEN None ELSE started

\* The end of a session's run is reported.
Report(k) == spinner' = (spinner /\ ~run[k].session)

\* What was in the database between the end of the last recap and the window.
Before(k) ==
    {i \in Readable :
        /\ ~Within(i, run[k].since)
        /\ run[k].base = None \/ Within(i, run[k].base)}

\* The recap is inserted.  Missed are what arrived since the material was read,
\* what was left out of it, and what lies before the window of a session, or of
\* the first recap.
Store(k, material, known, left) ==
    /\ run' = [run EXCEPT ![k].stage = "saved", ![k].material = material,
                          ![k].known = {}, ![k].left = {}]
    /\ Consume(k)
    /\ ended' = now
    /\ missed' = missed \cup (Readable \ known) \cup left \cup Before(k)
    /\ UNCHANGED spinner

\* Nothing to tell: skipped.
Skip(k) ==
    /\ run' = [run EXCEPT ![k].stage = "done"]
    /\ Report(k)
    /\ UNCHANGED <<ended, missed>>

\* The material is read.  None of it, or nobody left in the meeting: the run
\* ends, its window stays.  Enough of it: the extraction is awaited.  Too little:
\* it is stored as it is, unless the ledger has all of it already.
Read(k) ==
    /\ Rushing(k)
    /\ \E chat \in Latest(Chatted(run[k].since)), voice \in LatestRows(Voice(run[k].since)),
          members \in BOOLEAN :
          LET material == chat \cup voice
              left == LeftOut(run[k].since, material)
              told == material # {} /\ members
              short == Cardinality(Messages(material)) < MinMessages
          IN  \/ ~told /\ Skip(k) /\ started' = started
              \/ told /\ short /\ Store(k, material, Readable, left)
              \/ told /\ short /\ material \subseteq noted /\ Skip(k) /\ Consume(k)
              \/ /\ told /\ ~short
                 /\ run' = [run EXCEPT ![k].stage = "extracting", ![k].material = material,
                                       ![k].known = Readable, ![k].left = left]
                 /\ UNCHANGED <<started, spinner, ended, missed>>
    /\ UNCHANGED <<now, talkVars, soundVars, phase, restarts>>

\* extractRecap returns: the model's answer or, if it fails, the rules'.
Extracted(k) ==
    /\ Quiet
    /\ run[k].stage = "extracting"
    /\ Store(k, run[k].material, run[k].known, run[k].left)
    /\ UNCHANGED <<now, talkVars, soundVars, phase, restarts>>

\* inferCritical returns, the recap is delivered and the run settles.
Delivered(k) ==
    /\ Quiet
    /\ run[k].stage = "saved"
    /\ run' = [run EXCEPT ![k].stage = "done"]
    /\ Report(k)
    /\ UNCHANGED <<now, talkVars, soundVars, phase, started, ended, restarts, missed>>

\* The process ends and starts again: timers, runs and awaited transcriptions
\* are gone; the database, the files and the screens stay.  It may end right
\* after the INSERT of a transcription, before its file is removed.
Restart ==
    /\ Quiet
    /\ restarts < MaxRestarts
    /\ restarts' = restarts + 1
    /\ \/ NoRow
       \/ \E c \in Chunks : (c \in listening \/ Batching(c) # {}) /\ Row(c, TRUE)
    /\ phase' = "off"
    /\ listening' = {}
    /\ run' = [k \in Runs |->
                 IF run[k].stage = "idle" THEN run[k]
                 ELSE [run[k] EXCEPT !.stage = "done", !.todo = {}, !.chunk = None, !.known = {},
                                     !.left = {}, !.material = IF Told(k) THEN @ ELSE {}]]
    /\ UNCHANGED <<now, talkVars, disk, captions, started, spinner, ended>>

Next ==
    \/ Tick \/ CallBegins \/ CallEnds \/ FieldStart \/ FieldFinish
    \/ TimerFires \/ ManualRun \/ Restart
    \/ \E w \in Words : Chat(w) \/ Note(w)
    \/ \E c \in Chunks : Speak(c) \/ Upload(c) \/ LiveHears(c)
    \/ \E k \in Runs : BatchHears(k) \/ Read(k) \/ Extracted(k) \/ Delivered(k)

Spec == Init /\ [][Next]_vars

-----------------------------------------------------------------------------
(* Properties.                                                             *)

\* A recap made after another was stored tells nothing that one told: the
\* windows of successive runs meet, second for second, without overlap.
NoRepeat ==
    \A k \in Runs : \A j \in run[k].after :
        Told(k) => run[k].material \cap run[j].material = {}

\* What was said up to the last recap is in a recap, or was missed in one of four
\* ways: it reached the database when the material of a recap that covers its
\* second had been read; it was in the window, but beyond LIMIT, or a caption next
\* to a transcription; it lay between the last recap and the window of a session,
\* or before that of the first recap.  In particular the windows of successive
\* runs leave no gap, and the record of a single decision moves none.
NothingElseEvaporates ==
    \A i \in Readable \ missed :
        ended # None /\ said[i] <= ended =>
            \E k \in Runs : Told(k) /\ i \in run[k].material

\* "A chunk transcribed live is removed, so that it is not transcribed again after
\* the call" (stt.ts): it comes twice into the transcript only if a batch took it
\* while another transcription of it was awaited, or if the process ended between
\* the row and the removal of the file.
HeardTwiceByOverlap == \A c \in Chunks : rows[c] > 1 => c \in spared

\* The run as the scheduler sees it: RecapTimer, whose run slots are the session
\* runs, and whose room either marks and cancels or schedules.
TimerSeen == IF phase = "grace" THEN {} ELSE None

RunSeen ==
    [k \in Runs |->
        IF ~run[k].session \/ run[k].stage \in {"idle", "done"} THEN "idle"
        ELSE IF run[k].stage = "saved" THEN "saved" ELSE "working"]

Timer == INSTANCE RecapTimer WITH
    Users <- {}, NoTimer <- None,
    pending <- TimerSeen, started <- started # None, run <- RunSeen

TimersLost ==
    /\ TimerSeen' = None
    /\ RunSeen' = [k \in Runs |-> "idle"]
    /\ UNCHANGED <<started, spinner>>

TimerStep ==
    \/ Timer!TimerFires \/ Timer!FieldStart \/ Timer!FieldFinish
    \/ \E k \in Runs : Timer!RunSaves(k) \/ Timer!RunEnds(k)
    \/ Timer!MarkCallStarted /\ Timer!CancelScheduledRecap /\ UNCHANGED run
    \/ Timer!ScheduleRecap({}) /\ UNCHANGED <<started, run>>
    \/ TimersLost

\* The detailed run does to the timer, the session and the spinner only what the
\* three-stage run of RecapTimer does.
ImplementsTimer == [][TimerStep]_Timer!timerVars
=============================================================================

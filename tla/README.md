# A verification project for exist

exist is a collaboration platform for shop-floor and office teams: chat and
video meetings whose decisions are extracted by an AI, kept in a ledger, signed
by the people concerned and followed up. The server is one Node process
(Express 5, Socket.IO, mediasoup, better-sqlite3; `server/src`), the client is
React. All server state is either in SQLite, written synchronously, or in the
memory of that one process; handlers interleave only where they `await`.

This directory holds TLA+ modules of the server's core, the configurations that
model-check them, and proofs checked by TLAPS. `PROJECT.json` lists the
components, runs, the source lines every definition stands for, the findings,
the hazards and the theorems.

Contents: 1 Inventory. 2 Plan. 3 Modules. 4 Runs. 5 What the runs refute.
6 Proofs. 7 What is not modelled.

## 1. Inventory

| Component | State | Operations | Interacts with | Module |
|---|---|---|---|---|
| Call room (`sfu.ts`) | `rooms` map; per room: peers, sessionUserIds, kickedUserIds, locked; per socket: the closure's `room`, `peer`, `live` | room:join/leave/lock/kick, disconnect, media transport, captions | scheduler (calls), transcription, chat | CallRoom, LiveCaption |
| Recap scheduler (`recap.ts`, end) | `pending` timers, `meetings.call_started_at`, recap:status on the screens | scheduleRecap, cancelScheduledRecap, markCallStarted, runFieldRecap | room (called by), recap pipeline (starts) | RecapTimer |
| Recap pipeline (`recap.ts`, runRecapForMeeting) | meeting_recaps, todos, whys, criticals | one long async run per call, field recording or manual request | transcription (awaits), steward, notify | RecapRun |
| Decision ledger (`recap.ts`, `meetings.ts`) | meeting_recaps.decisions, decision_state, decision_acks, decision_revisions, decision_remind_sent, decision_ack_autoremind, the in-memory cooldown | record, ack, edit, withdraw, cancel, three reminders | files (cite a decision), steward (records, cites) | DecisionLedger |
| Agenda and steward (`steward.ts`, `rag.ts`) | agenda_items, agenda_events, two 10-minute caches, cooldowns | propose, settle after a recap, carry over, wake waiting items, close, put on hold, record a decision heard in chat | pipeline, ledger | Agenda |
| Shift handover (`handover.ts`) | handovers, handover_acks, escalation marks | draft, publish, acknowledge, echo check, escalation sweep | notify | Handover |
| Collaborative document (`ydoc.ts`) | open documents, save timers, `.bin` files | sync, awareness, debounced save, delete, flush on SIGINT | files | YDoc |
| Transcription (`stt.ts`, `stt-live.ts`) | audio chunk files, call_transcripts, live sessions | upload, live and batch transcription, streaming sessions, correction | pipeline, room | RecapRun, LiveCaption |
| Files (`files.ts`) | collab_files as a tree, the trash, blobs, tags, activity | create, upload, move, rename, copy, distribute, trash, restore, purge | documents, circulation | FileTree |
| Circulation (`files.ts`, `fileai.ts`) | revisions, file_acks and their history, file_versions, the cooldown | ask for signatures, sign, remind, revise, upload a version, auto-remind | notify, AI (awaits) | Circulation |
| Todos and reminders (`todos.ts`, `events.ts`, `index.ts`) | todos with two flags, meeting_events, meetings.starts_at, the `notified` set | sweeps of 1 and 10 minutes; make, move, repeat, cancel, assign, finish | notify | Reminders |
| Organisations, permissions (`orgs.ts`, `perm.ts`, `positions.ts`) | members, roles | join, approve, change role, remove | every permission check | — |
| Meetings, channels, workspaces, DMs, accounts | tables of the same names | request-local CRUD | notify | — |
| Agent, insights, push, runner | little | queries, prompts, delivery, sandboxed runs | all | — |

What is hard, and what makes each part correct:

* **Room and scheduler.** `getOrCreateRoom` awaits between looking in the map
  and writing it; handlers act on the Room object of their closure, `rooms` is
  keyed by code, and a socket may die while its join waits. Correct means: no
  recap begins while a call goes on, a room does not stay in the map when everybody
  has gone, a call is one room, lock and kick hold for as long as the call does, and every
  emptied call is recapped or resumed.
* **Ledger.** Ten operations on five tables share the identity (recap, index)
  and no version. Correct means: a signature stays with the
  sentence it reached, the history replays to the present
  sentence, and reminders come once, or at their interval, as each promises.
* **Pipeline.** Awaits of minutes between reading a window and storing the
  recap. Correct means: nothing is recapped twice in succession, and whatever is
  not recapped is lost in a known way.
* **Agenda.** Three functions await a model between reading the items and
  acting on them, and may overlap one another and people. Correct means: no
  subject is open twice, what an item's page says of its life agrees with its
  row, and the cache does not revive what people have closed.
* **Handover.** A draft is read, an AI is asked, the author edits, and the next
  draft starts from the publication. Correct means: what was said on a shift
  reaches the next one, a verdict is about the note it stands beside, and the
  author is alarmed once.
* **Documents.** Copies in tabs, in memory and on the disk. Correct means: they
  converge, the file forgets nothing, what is deleted stays deleted, and what
  was typed gets to the disk whatever breaks in between.
* **Captions.** Two event sources - the client's socket and the service's - act
  on one session, which either may end. Correct means: what was shown is kept,
  once, and nobody talks into a session that has ended.
* **Files.** Rows hang from rows, in the trash and out of it, and an upload
  settles its place before its body arrives. Correct means: a tree, in which
  everything can be reached, told apart and has its content.
* **Circulation.** Revisions reset signatures while people sign; notices wait
  for an AI; uploads record what they read before their body arrived. Correct
  means: no signature and no version is lost, and whoever must sign gets to know.
* **Reminders.** What has been told is remembered in memory under keys, or in
  flags. Correct means: each is told in time, also when its date has moved.

The hazards, each at its line, are in `PROJECT.json`.

## 2. Plan

Done: `RecapTimer`, `CallRoom` and the abstract `CallLifecycle`; `DecisionLedger`;
`RecapRun`, shown to refine `RecapTimer`; `Agenda`; `Handover`; `YDoc`; `FileTree`;
`Circulation`; `Reminders`; `LiveCaption`.

Left, in this order:

1. The chat side of the steward: a decision heard in the chat
   (`handleDecisionCandidate`), its cooldown, and its undo through the cancel route of
   `DecisionLedger`; the history topics and their cache.
2. The browser's captions and their correction (`sfu.ts`, stt:line), with the
   roles of a meeting's several microphones.
3. File locks, quotas of versions and text extraction (`files.ts`, `fileai.ts`).
4. Organisations: invitations, approval and removal, with the permission checks
   of the other modules as a parameter that may change.
5. Deleting a meeting: a list of statements over twenty tables.

Every safety property of a run is proved, as far as it may be (section 6). Of the
proofs, what is left is what these extensions will bring.

## 3. Modules

**RecapTimer** — the scheduler for one meeting code. `pending` is the armed
timer's sessionUserIds or `NoTimer`; `started` is `call_started_at IS NOT NULL`;
`spinner` is the last recap:status; `run[k]` is how far the run in slot `k` has
come. A run is cut at its awaits: it starts (window read), saves and consumes
`call_started_at` in one synchronous stretch, and ends when its promise settles.

**CallRoom** — extends RecapTimer with one code's rooms. `live` is the map
entry; `peers`, `session`, `locked`, `kicked` are fields of each Room object;
`mine` and `peerSet` are the closure variables of a socket's handlers, which
outlive the map entry; `creating[s]` counts joins of `s` that await
createRouter. One action per handler, except a join that finds no room, which
is two: `JoinFindsNone` up to the await and `RoomCreated` (or `CreationFails`)
after it. A join that finds a room awaits an already settled promise and is one
action, with its sweep of dead peers and its refusals. `Restart` loses
everything but the database and the screens. The client is modelled as far as
it decides when to send: a tab sends room:leave only after a room:join, and as
`MeetingView.tsx` does when it unmounts, also before that has been answered.

**CallLifecycle** — the abstract specification: the `phase` of a call is idle, open
or grace; from its grace period it is opened anew or recapped, and the recap is
fair. A call may be `split`: somebody is in a room the others cannot enter. Only a
second opening (`OpenOver`) splits it, and only a split call can be taken to be empty
while some are in it (`PartEmpties`) or come together without a step of the call's own
(`Rejoin`). `running` counts recaps. `CallRoom!ImplementsCall` maps it: open iff the
map holds a room, grace iff a timer is armed, split iff a connected socket holds a room
that the map does not.

**DecisionLedger** — the ledger of one meeting; a line is a pair of recap and
index. Every handler of it is synchronous, so each is one action, including
the cancel route's statements: `CancelAuto` is the case in which all succeed,
`CancelAutoFails` the one in which a foreign key stops the last and the others
stay. A signature is a row of `acks`; `drawn` says whose row also has a drawing or
a note. A correction keeps the names in its revision and deletes the rows, drawings
included. Time is a clock of days: sweeps run every ten minutes and every hour, so
each is assumed to run at least once a day, at any moment of it (`Tick` waits
for `swept`). `signed`, `version`, `quiet`, `nagged` are history variables that no
guard reads.

**RecapRun** — the recap pipeline of one meeting, with the transcription it awaits.
`said`, `rows` and `captions` are the rows of messages and call_transcripts,
`disk` the chunk files, `started` and `ended` the two columns a window is computed
from, `run[k]` the locals of one execution of runRecapForMeeting. What is said is
a word of the chat or a chunk, a stretch of speech that is uploaded and that the
browser may caption. A run is cut at its awaits: `Begin` chooses the window and
lists the chunks, `BatchHears` is one turn of the transcription's loop, `Read` goes
from there to the extraction or past it, `Extracted` stores, `Delivered` ends. A run
with nothing to await goes on before any handler (`Rushing`, and `Quiet` as a guard
of every other action): Node finishes the promise callbacks that are due before
the next timer or socket event. A tick of the clock is a second, the granularity
of datetime('now'), and several things may happen in one. `MaxChat` and `MaxRows` are
the LIMITs of the queries, 200 and 300: `Latest` and `LatestRows` are what they may
bring (transcripts in the order of their rows, which is not that of the speech). That a
chunk's row is inserted and its file removed is one action, as no handler comes
between; that the process ends between the two is a case of `Restart`. What a
model returns is not modelled, as no answer changes the window or the order;
`Extracted` stands for the model and for the rules that replace it. Speech recognition
is assumed to be configured, and may fail on any chunk. `missed`, `spared` (chunks
whose file, or another transcription of which, outlived a row) and the fields `known`,
`left` and `after` of a run are history variables.
`ImplementsTimer` maps the pipeline to RecapTimer: its run slots are the runs of
calls and recordings, and the manual runs are invisible to it.

**Agenda** — the agenda of one meeting. `item[i]` is a row of agenda_items,
`events[i]` its rows in agenda_events, `cache` the meeting's entry in agendaCache.
generateAgenda is cut at its two awaits (`GenStart`, `GenAnswer`, `GenStore`),
settleAgendaAfterRecap and wakeWaitingAgendas at theirs (`SettleStart`,
`SettleAnswer`, `Wake`). The model may name any of the items it was shown, with any
of the records, and any title. `settled`, `overtaken` and `revived` are history
variables: titles closed by a settlement, which does not touch the cache; titles a
request had read when somebody closed them; and the latter of the request whose
agenda is in the cache.

**Group** — the participants of a group, who join and leave between two sweeps of
a timer. `Handover`, `Reminders` and `Circulation` extend it: three jobs of the same
`index.ts`, which read whom they write to when they run.

**Handover** — the handovers of a group (it extends `Group`: `ReaderJoins`, `ReaderLeaves`).
`screen` is the draft its author works on, which carries what it was made from: by
the AI, from the `Limit` newest messages of its window (`Newest`); by the rule that
stands in for an AI that is missing or fails, from decisions and todos and no
message. `checks` are the echo checks under way, `notices[h]` counts the alarms about
`h`. `overtaken` is a history variable, as are the fields `echo` of an acknowledgement
and `seen` of a draft.

**YDoc** — one room. A Yjs document is the set of edits it has merged, a state
vector the set of edits its sender has: merging is union, which is what makes Yjs
commutative, associative and idempotent. The messages of y-protocols are `Ask`
(sync step 1) and `Put` (sync step 2 and updates) in one FIFO channel each way;
what a closed socket had under way is lost. Loading a file is an update and sets the
save timer (`Connect`). `Save` is that timer; `SaveFails` and `FlushFails` are writes that
throw, which leave the file as it was or torn, as writeFileSync empties it first;
`Flush` is SIGINT, `Purge` deleteYdoc, `Crash` the end of the process by any other
means. The tab is y-websocket, which is not in the repository: it is modelled from how
DocEditor uses it (it reconnects, and its Y.Doc outlives the connection).

**FileTree** — the files of one group. Ids are given in turn and never again
(AUTOINCREMENT). Every request is one action, except an upload and a copy. An upload
is `UploadStart`, then `UploadEnd` or `UploadFails`; if the document made of it cannot be
written (`UploadSpoilt`), its row stays and what was uploaded is kept as a file
beside it, in the same request. The recursion of a copy is one row a step while
nothing else runs. What arrives from another group may come without content
(`Arrive`) or not at all (`ArriveUndone`). `Above` and `Below` are the walks up parent_id
and down the live rows, written as closures, so that a cycle would show as a violation
and not as a model that never ends. Names are numbers: `x (2)` is the number after
`x`; an upload tries `MaxNames` of them and takes the last one as it is. `strays` and
`hollow` are history variables: rows inserted by an upload, and rows that the code
itself has left without content.

**Circulation** — an uploaded file that goes round for signatures. `jobs` are the
calls of afterRevise that await the AI, `uploads` what an upload of a new version
read before its body arrived. `age`, `auto`, `manual` are the times since the
revision, the last automatic and the last manual reminder, cut off at `Patience`.
People leave and return; `silent` is a history variable: whose signature was reset
and whom the notice did not reach.

**Reminders** — (extends `Group`) runMeetingReminders for events with a time, all-day
events and meetings with a start, and runTodoReminders. A minute is a tick; `swept`
says whether this minute's sweep has run (it may be skipped or late). What has been
said is remembered under keys as the code makes them: an event's is its id and day, a
meeting's its title, so that two meetings may share one. Of the recurrences, the daily
one is modelled, with its end (`until`) and with the number of days after which the
search for the next one gives up (`MaxSteps`); weekly and monthly ones differ in the
step only. That a meeting repeats is stored, and read by no reminder. `told`, `heard`
and the field `late` are history variables.

**LiveCaption** — the streaming session of one microphone. Words are numbered as
they are spoken; the service commits them to segments (`Commit`), shows them
(`Delta`) and transcribes a segment (`Completed`), each in its own time and also
after the session was closed from our side. What becomes of a line when it is
finished is `Finalized`: it is written, or taken for noise or an echo of the prompt and
thrown away (`junk`, a history variable). The service is external.

**CallRoom_proofs**, **DecisionLedger_proofs**, **RecapRun_proofs**, **YDoc_proofs**,
**Sweeps_proofs** (`Circulation`, `Handover` and `Reminders`),
**FileTree_proofs**, **Agenda_proofs**, **LiveCaption_proofs** — section 6.
**MC...** — instances, views, constraints and symmetry for TLC; `MCSweeps` joins
`Handover` and `Reminders` in one run. `YDoc` and `LiveCaption` are checked as they are.

Operators commented "Mutant" are plausible bugs of the code. No action uses
them: they stand next to the definition they replace when it is tested that a
property fails if the code were so changed.

## 4. Runs

| Run | Instance | Shows |
|---|---|---|
| `CallRoom.cfg` | two people, three sockets (one person in two tabs), two creations at once, four Room objects | NoTimerWhileRoomOpen, EmptiedOnlyOfForgotten, SplitOnlyByRace, GateHolds |
| `CallLife.cfg` | two people, one tab each, two creations at once, three Room objects, one run, one restart | the refinement ImplementsCall, SpinnerResolves |
| `DecisionLedger.cfg` | one recap of up to two decisions, a host and a member, two sentences, two corrections, four days (0 to 3) | SignaturesKept, HistoryReplays, SilenceIsBroken |
| `RecapRun.cfg` | three messages in three seconds; or a message and a stretch of speech, or two of speech, in two; two runs, one restart, LIMITs of two | HeardTwiceByOverlap, NoRepeat, NothingElseEvaporates, the refinement ImplementsTimer |
| `Agenda.cfg` | two titles, two items, two recaps, two requests, two of which await at once; limits of one | NoDuplicateOpen, CarriedIsCounted, LinkIsLastVerdict, RevivedByOverlapOnly |
| `YDoc.cfg` | two tabs, two edits, one fault, one purge | Converged, GoneStaysGone, SavedStays, Durable |
| `Sweeps.cfg` | handovers: three people, two messages, two handovers, two notes, three seconds, drafts of one message; reminders: an event, two meetings with two titles or a todo, two people, days of two minutes, five minutes | HandoverTypeOK, VerdictIsOfNote, LossIsExplained, AlarmedOnce; RemindersTypeOK, FlagMeansTold, RemindedInTime |
| `FileTree.cfg` | four rows ever, folders two deep, four files at most, one upload under way, which tries two names | Rooted, Reachable, NamesApart, ContentKept, CutForAReason |
| `LiveCaption.cfg` | four words, two sessions, a backlog of two | ShownIsKept, TwiceIfTorn, GapIfIdled |
| `Circulation.cfg` | two people, three revisions, two uploads at once | SignaturesKept, NoVersionLost, ResetIsTold, EveryoneIsAsked |
| `TrashStuck.cfg` | `FileTree.cfg` with three rows | PurgeErases fails (section 5) |
| `AgendaRevived.cfg` | `Agenda.cfg` | ClosedStaysOut fails (section 5) |

Bounds, and why they are enough. *Calls*: two creations at once are the least
that race; a third socket gives the race an onlooker and a person a second tab to
return on after a kick. Four Room objects are one more than three sockets can
hold besides the map. One run slot suffices because all that a run shares with
the rest are `started` and `spinner`, which are Booleans. *Ledger*: two lines show
that a correction of one leaves the other alone while the recap-wide reminder row
is reset; two corrections give a history with a middle; automatic reminders are due
every day from 1 on and no more on 3, soft ones on days 1 and 2, so that each border
lies inside the days a recap is followed. *Pipeline*: two messages are what
an extraction needs, and a third arrives while it is awaited, or is the one that the
LIMIT of two cuts off; two runs overlap or
follow one another, which is all that a pair of windows can do; with a padding of
one second and a first window of two, three seconds hold a call whose window is
narrowed by its start and one whose window is not. With sound, two things said
(`FewSaid`) suffice: one chunk for a live and a batch transcription, or two batches,
to have it under way together, two for captions that another chunk's transcript
displaces; the rows of a chunk heard twice go beyond the LIMIT. *Agenda*: two functions
awaiting at once are a race; with one item
carried at most and an agenda of one entry every limit is met; two settlements
close an item twice. *Document*: an edit that is saved and one that is not; a tab
that has it and one that has not; one fault of any kind at every moment.
*Handover*: a draft of one message has another it must leave out; one handover
covers a message the other then misses; two notes overtake one another; a handover is
looked at when it is one second old.
*Files*: a folder in a folder, with a document, and one more row to be copied, moved
between them or left behind; four rows are folders and one document
(`SmallTree`), three rows are of any kind; two names are tried, so that the third upload
of one name takes one that is in use. *Reminders*: a day of two minutes has a morning
and an end, and five minutes hold two days, the midnights after them, and the day on
which the search for a daily event's next start, which goes two days far, gives up; leads
of one, two and three lie within a day and beyond it; two meetings have one title or two.
*Captions*: two words to a segment, two segments to a session, and a session that
follows one whose socket is still closing. *Circulation*: a first revision (which
has no snapshot), one with a history and one after it; two uploads that read the
same blob.

`NothingElseEvaporates` is relative to `missed`, which names every way something
said is lost: it reached the database when the material of a recap that covers its
second had been read; it was in the window but beyond a LIMIT; it was a caption
while another chunk had a transcript; or it lay between the last recap and a
window narrowed by the start of a call, or before the window of the first recap. The
property says that these are all. `LossIsExplained`, `ShownIsKept`, `RevivedByOverlapOnly`,
`HeardTwiceByOverlap`, `SplitOnlyByRace`, `EmptiedOnlyOfForgotten`, `VerdictIsOfNote`,
`NoVersionLost`, `ResetIsTold`, `RemindedInTime`, `NamesApart`, `Reachable` and `ContentKept`
are of the same kind: the code does not keep the plain
promise, the property names the circumstances in which it does not, and says
that there are no others. Each exception is one a behaviour of the model needs.

`EmptiedOnlyOfForgotten` is about a room without peers, which nobody would close and
whose call would never be recapped. closeRoomIfEmpty runs when somebody leaves, not
where room:join sweeps dead sockets out and then refuses the newcomer. The
property says that such a sweep empties no room unless the handlers of a peer it
removes had forgotten the room, and a behaviour of the model needs that exception: a
tab leaves before its join is answered, so its room:leave finds no peer and the answer
then adds one; the room is locked; the same tab joins again and is refused, and its
closure forgets the Room; its socket goes, and nobody closes what it was in. A ghost - the
peer that a late answer makes of a tab whose socket had gone before - is alone, and
the next join takes its place.

Views, constraints and symmetry. The views of MCCallRoom leave out `started` and the
fields of Room objects nobody holds, and that of `CallRoom.cfg` also `spinner` and who was
in the session; that of MCDecisionLedger which lines the manual cooldown holds,
citations of records that cannot be cancelled, and signatures without a drawing by who
has given one with; that of MCFileTree the fields of rows that are gone; that of MCAgenda
the order of an item's events, but for the last that closed it; that of
MCRecapRun keeps only the material of a run that is done. No guard that matters
and no property of those runs reads what is left out. Symmetry is used for sets
the modules never choose from, and not in runs with liveness properties. The
constraints (`OneHasty`, `SecondInBrief`, `FewAwait`, `FewSaid`, `OneQuestion`,
`OneAtATime`, `EndsInSight`, `SmallTree`, `FewAtATime`) keep apart what does not meet in
one property, each with its reason in the MC module. One of them constrains a run with
a liveness property:
`EveryoneIsAsked` is checked for behaviours in which at most two uploads and
notices wait, one while somebody who has signed is away, the file's creator stays in
the group, and no signatures are asked for while two uploads of versions race.

Handovers and reminders share nothing but who belongs to the group. `MCSweeps` checks
them in one run: a behaviour is about handovers while their author belongs to it, and
about reminders once the author has left it without having worked on one.

Fairness. `CallRoom`: `GraceEnds`, `RunProgress`, `KickFires`, `RoomCreated` are weakly
fair: timers fire and promises settle. `RunProgress` fair means that the calls a
run awaits (transcription, models) return or time out. `YDoc`: `Save` (the timer
fires), `ClientStep` and `ServerStep` (messages on an open connection are
handled), `Connect` (y-websocket reconnects for ever). `Durable` does not assume that
typing stops: with finitely many edits it does. `Circulation`: `Tick` and `Sweep`
(time passes, and index.ts runs the sweep at an interval). Nothing people do is
fair, and neither is a crash or a restart.

`CHECK_DEADLOCK FALSE` throughout: people may do nothing, and the bounds on
restarts, days, words and corrections let a behaviour run out of steps.

## 5. What the runs refute

`TrashStuck.cfg`, `PurgeErases`: a file goes to the trash, then its folder. The file
is a group of its own in the trash and keeps its parent_id. Purging the folder
deletes the content, signatures and activity of the group first and the rows
last; the foreign key of parent_id, which has no ON DELETE, refuses them. The
request fails, and the folder's other files stay in the trash without content
(`files.ts`:1843-1853, `db.ts`:553). The comment there means to have avoided exactly
that. Emptying the trash stops at the same place (`files.ts`:1202-1255).

`AgendaRevived.cfg`, `ClosedStaysOut`: a request for the agenda reads the open items and
awaits the model (`steward.ts`:719); somebody closes an item, which drops the cache
"so that the ten-minute cache does not revive" it (`steward.ts`:790); the request
goes on and stores the agenda it has made, closed item included (`steward.ts`:765).
For ten minutes the agenda shows the item that was closed. `RevivedByOverlapOnly` and its
proof say that this is the only way it can.

Places where the model shows the code to do other than a reader, or a comment, would
have it. No property demands what the code does there; the properties of section 4 name
it as an exception or say nothing of it.

* A re-entry in the grace period makes a new Room with an empty session, so who
  attended only before it is reported absent (`sfu.ts`:74, 116, 120); a field recording
  that ends in the grace period does the same (`recap.ts`:1318). Who is in a session is
  no part of `CallLifecycle`.
* Two first joins that race create two Rooms for one code (`sfu.ts`:30, 106-119):
  `SplitOnlyByRace`, and `OpenOver` of `CallLifecycle`.
* A refused join may leave a room in the map that nobody is in (`sfu.ts`:711, the
  paragraph on `EmptiedOnlyOfForgotten` above).
* The automatic sweep demands signatures to withdrawn decisions (`recap.ts`:1341),
  where signing should stop (`meetings.ts`:1694): `SilenceIsBroken` counts only lines that
  still stand.
* An ack names a line and no sentence: from a screen with the old sentence it counts
  for the new one (`recap.ts`:972, 1182). A signature is taken to be of the
  sentence at which it arrives.
* A correction keeps the names and times of the signatures it resets
  (`recap.ts`:959-960) and deletes what was drawn and noted (974), although comments
  say that the signatures are preserved (`recap.ts`:933-934, `db.ts`:787): in
  `SignaturesKept` a drawing stays for as long as its sentence does.
* Cancelling a cited AI record deletes its signatures and then fails
  (`meetings.ts`:1557-1560): the exception in `SignaturesKept`.
* A batch lists a chunk whose live transcription is still awaited, or that a crash left
  between its row and its removal, and the speech enters the record twice
  (`stt.ts`:124, 271, 282-295): `HeardTwiceByOverlap`.
* A message sent while the extraction is awaited is read by neither that run nor
  the next (`recap.ts`:541, 622, 722), and of a full window the oldest go unread
  (`recap.ts`:547, 561, 572): in `missed`.
* A handover drafted while the AI does not answer has no message in it, and the
  next one starts after it (`handover.ts`:111-121, 169-171).
* Meetings of one title silence each other's reminders, a meeting is told of once,
  also if it repeats or is moved (`index.ts`:39, 42, `agent.ts`:79-83), and an event's
  recurrence is not found any more 500 steps after its first (`meetings.ts`:1040-1046).
* A caption that was shown and turns out to be one of the phrases made of noise, or
  an echo of the prompt, gets into no minutes (`stt-live.ts`:75).
* The copy of an uploaded file has no blob, a document arrives in another group
  without its content if that could not be copied (`files.ts`:1540-1542), and an
  upload whose document cannot be written leaves an empty document beside the file
  (`files.ts`:943-972).

## 6. Proofs

For all values of the constants, from the named assumptions of the modules (which TLC
evaluates on every run) and nothing else: no theorem has a hypothesis of its own, and
fairness is not used. Each `TypeCorrect`
proves the module's `TypeOK`, `CirculationTypes`, `HandoverTyped` and `RemindersTyped`
those of the three sweeps. `SessionCovers`, `HandleListed`, `SpinnerOwned`,
`NudgedOnlyOnce` and `RestIsDurable` prove properties that need no run any more.

`CallRoom_proofs`. `TypeCorrect` is inductive given that the Room object chosen
for a creation is a free one (`FreshRoom`). `SessionCovers` is inductive with it.
`HandleListed` says that a connected socket's closure names a Room that lists
it; the point of its proof is `RoomCreated`, which overwrites the peers of a Room
object: that object is free, so no connected socket holds it. `NoRecapDuringCall`
is inductive by itself: every action that arms a timer empties the map in the
same step, and every action that fills the map cancels the timer - which is
true although the map entry may be deleted by the emptying of another Room.
`GateKeeps` is an action property: the only step that adds a peer to a room that
stays in the map is `JoinFindsRoom`, behind `Refused`; `RoomCreated` changes the
map entry, because the new object is free and the old one is in the map.
`RoomsHavePeers` needs `LoneGhosts`: a dead peer whose closure still holds the room is
alone in a room that was never locked and from which nobody was kicked. A join that
empties a room by sweeping is refused, so the room was locked or its newcomer kicked,
so some peer that it swept had been forgotten. `OneRoomUntilRace` goes through the steps
that may take a connected socket and the map apart: a creation does only over another
room (`CreationSplits`), the emptying of a room only if the map held another
(`ExitSplits`), which was a split already; a join never does (`JoinSplits`).
`SpinnerOwned` is the part of `SpinnerResolves` that needs no fairness: each
step that ends the last run or drops the timer clears the spinner or hands it over,
so that only a restart leaves one to nobody. `CallImplemented` takes the steps of the
room one by one, races included, to steps of `CallLifecycle`; the number of recaps in
progress is a cardinality (`RunCounts`).

`DecisionLedger_proofs`. Types are inductive together with `LinesHaveText` (a line
of an existing recap has a sentence), since a revision records the sentence it
replaces. `OtherSteps` separates the six actions that touch signatures,
versions or revisions from the rest. `SignaturesStay` follows each signature (`Found`):
it is a row, with what was drawn, while its sentence stands (`InRow`), and named in a
snapshot afterwards (`InSnapshot`). The core is `ReviseKeeps`: a revision
is appended, so earlier snapshots keep their place (`SnapshotsStay`), and its own
snapshot names exactly those whose rows the correction deletes. `NudgedOnlyOnce` needs a
strengthening, `NudgesRecorded`: nobody without a decision_remind_sent row has been
nudged since the last new sentence. `HistoriesReplay` adds that what is not yet recorded
has no history (`HistoryInv`); `AppendReplays` is the fact about sequences. `SilenceEnds`
rests on two facts about the automatic sweep: a line has not been quiet for longer than
since its last reminder (`QuietSinceAsked`), and on a day that has had its sweep no
line is left whose reminder was due (`NoneLeftBehind`). Most actions are `Calm`: they
make no line outstanding without ending its silence.

`RecapRun_proofs`. Types are inductive by themselves. `HeardAgainByOverlap` needs to
know of the chunks that have a row and were not spared: their file is removed and
nobody hears them any more (`HeardOut`). It is inductive because whoever writes the row
of a chunk sees who else hears it, and a run lists only files that are there.
`NothingTwice` rests on `Successive`, four facts that are inductive together:
nothing was said after the clock (`Clocked`); the material of a run lies within its
window (`InWindow`); what a stored recap tells was said by the latest `ended`
(`ToldByEnd`); and what a recap tells was said no later than where the window of a
run that began after it opens (`ToldBefore`). `Begin` establishes the last from the third,
as no window opens before `ended`; `StoreKeeps`, `BeginKeeps`, `SayingKeeps` and
`RunsKept` are its steps. `AllAccounted` needs that what is on disk, listed or
transcribed has been said (`Spoken`); that whatever a run which awaits its extraction
could have read in its window is in its material or is what its queries left out
(`KnownCovered`; `ReadCovers` is the fact about the queries, for any limits); and that
the recap a run's window was computed from is no later than the last (`BaseByEnd`), so
that what lies between the two has been told or counted before.
`TimerImplemented` is the refinement of `RecapTimer`: `TimerRefined` takes every step
to one of the scheduler's or to a stutter.

`YDoc_proofs`. `SavedEditsStay` and `PurgedStaysPurged` rest on what a document in
memory holds: `FileStep` says that while the room is open the document has all the
file has; `GoneStep` that no copy, no message and no file holds an edit that was
gone when the room was purged, which a step can only break if somebody still had
it. `EverybodyConverges` needs what is under way between a tab and the server: an
edit the one has and the other has not is in a `Put`, or there is an `Ask` that will
fetch it (`ExchangeStep`). `InAppend` and `InTail` are the facts about channels.
`RestIsDurable` is the part of `Durable` that needs no fairness: with convergence it
needs only `UnsavedIsDue`, that an open room which has merged what the file lacks has
its timer set, or its last write failed.

`Sweeps_proofs`, circulation: `RecordStep` shows the signatures and the versions kept, over
the one lemma on a revision, `RevisedType`. `ResetsAreTold` strengthens the property
by what is true between the revision and the notice: whoever has a signature
under the revision before, and has not been told, has a job that waits, unless
the notice was lost or never due or they were not in the group when it went out
(`silent`): people leave and come back, their signatures stay.

`Sweeps_proofs`, handovers. The types carry what a draft may hold: `NewestFew` says
that the newest `Limit` messages are never more, whatever set they are taken from, and
`NewestCut` that one left out has `Limit` newer ones, both from `Least` and `Greatest`,
which every finite non-empty set of numbers has. `AlarmsOnce` counts alarms, and needs the
mark beside them (`AlarmsAreMarked`): a handover with an alarm is marked, and has had
one. `VerdictsAreOfNotes` needs the same of the comparisons
under way as of the stored ones (`ChecksAreCurrent`). `LossesAreExplained` is
inductive with three facts (`LossInv`): rows are published in the order of their ids;
no draft is of the future; and the draft on the screen, which may be old when
it is published, begins no later than some handover that was published (if any was)
and, if it is not the rule's, has taken or cut off all that was said between then and
when it was read (`ScreenIsWhole`; `WindowStarts` is the fact about the query for the
window).

`Sweeps_proofs`, reminders. `DayAndMinute`, `MoreDays` and `DaysInOrder` are the arithmetic
of days and minutes, for any length of a day; `OccurrenceType` says that what the
sweep reckons as the next start lies on the day it gives. `FlagsMeanTold` is
inductive given the types: what a sweep does to a todo is `TodoSwept`, and a step of
anybody else's sets no flag and takes none of who was told. `RemindersInTime` needs
that a key is remembered only for a start that was told under its label (`NotifiedIsTold`):
of an event, on its day; of a meeting, any that bears the title. Whoever the sweep
passes over has therefore been told of this start or of another that shares its key; of
several that share one, the first to come says it (`SomebodySays`). The rest is that the
sweep and the user mean the same start, except across midnight, after `MaxSteps` days and
for meetings that repeat (`SweepSeesUpcoming`, by `ComingMinute`: within a day there is one
minute of every kind).

`FileTree_proofs`. The loop that looks for a free name ends with one (`FreeNameIsFree`:
a folder has fewer names than there are rows and one more numbers, and the least free
number exists). `TreeInv` is inductive: the four invariants, with `Grouped` (what
was trashed with a folder still lies in it, which a restore counts on),
`StraysAreFiles` (only a file can hang from a trashed folder by way of an upload, so
a folder never takes a subtree out of reach with it) and `NamesInGroup` (names are
also apart within what was trashed at once, since they come back together), and
`CopyPlaced` for a copy that is under way. There is one lemma for each kind of step
(`NewRowKeeps`, `MoveKeeps`, `TrashKeeps`, `RestoreKeeps`, `EraseKeeps`); the purge of one
root and the emptying of the trash share the last.
`CopiesEnd` says that a copy is cut short by the limit only when it was to
exceed it, or goes on for ever because it copies into itself. It counts (`CopyCounted`):
of the rows asked for, a set of known size, those made are a part from the root
down, and what is next lies below what has been made, once each, and outside what
was asked for - so that no row of a copy is copied in turn, and as long as something
is to be done fewer have been made than were asked for (`CopyHasRoom`).

`Agenda_proofs`. The rows: a row that is free has had no event and no settlement looks
at it (`FreeIsNew`), which is what `CarriedIsCounted` needs when a row is inserted;
`Inserts` says what a request writes, `Concluded` what a settlement does, and
`PersistKeepsRows`, `ConcludeKeepsRows` and `WakeKeepsRows` are the steps that disturb
something. The cache: `ClosingsStand` is inductive once the same is said of the
requests under way (`GensListed`), because a request stores what it has read; a closing
is recorded with every request that has read the item, and drops the cache.

`LiveCaption_proofs`. `CaptionsAreKept` and `TwiceOnlyIfTorn` rest on where a word can be: in
the hands of one session only (`WordsApart`), in one segment of it (`SegmentsApart`), not yet
shown while it waits (`Unseen`), and, once shown, in the open segment, written, thrown away
as noise, or adrift (`Accounted`). A delta's word is one the service still has (`InHand`),
so that the open segment never overlaps a transcript before it (`RowsDone`). `GapsAreIdle`
needs `Believed`: only `Idle` leaves a closed session with a client that believes in it.

Only model-checked: what rests on fairness and ENABLED, which are out of the prover's
reach. These are the fair recap in `ImplementsCall` (its safety is `CallImplemented`)
and the liveness properties `SpinnerResolves`, `Durable` and `EveryoneIsAsked`; of
the first two, `SpinnerOwned` and `RestIsDurable` are what can be said without.

## 7. What is not modelled

The media plane of a call (transports, producers, consumers). Of the pipeline:
to-dos, whys, criticals and the messages that announce a recap, and the attendance;
a chunk whose file another run removed is skipped without an await. Of the captions and
transcripts: the cut of a text to 1000 characters (`stt.ts`:277, `stt-live.ts`:72). Of the steward: the decision heard in the chat, the
history topics, the briefs. Of the files: locks, likes, pins and tags, quotas,
text extraction, import. Of the documents: cursors; the template that two tabs may
both put into an empty document; a document's access list, which is checked when
the connection opens. Of the reminders: weekly and monthly repetition, personal
todos without a group, pushes that fail. Deleting a meeting, which is a list of
statements over twenty tables.

Not at all: organisations and roles, direct messages, accounts and sessions,
presence and notifications, the agent and the insights, the code runner. Their
handlers are single synchronous stretches of statements that read and write
within one request; what they could get wrong is a check of the requester's
rights, and a model of it would restate it.

Everywhere: the text of messages, decisions and notifications; model prompts and
answers (a verdict is a choice); HTTP and authentication, except that whoever may
manage a meeting is the constant `Managers`. Permissions do not change during a
behaviour. The user interface, but for when it sends what.

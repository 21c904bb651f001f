---------------------------- MODULE LiveCaption ----------------------------
(***************************************************************************)
(* The live captions of one microphone (server/src/stt-live.ts, sfu.ts).   *)
(* The client sends audio; the server passes it on to the transcription    *)
(* service, shows what comes back word by word, and writes a line of the   *)
(* minutes when the service returns the transcript of a committed segment. *)
(* The service answers on its own time, also while its socket is closing.  *)
(***************************************************************************)
EXTENDS Integers, Sequences, FiniteSets

CONSTANTS
    MaxWords,       \* bound: words ever spoken, numbered in their order
    Backlog,        \* how much is kept while the session is being set up
    MaxSessions     \* bound: sessions ever opened

ASSUME LiveCaptionAssumption ==
    /\ MaxWords \in Nat /\ MaxSessions \in Nat
    /\ Backlog \in Nat \ {0}

Words == 1 .. MaxWords
Sessions == 1 .. MaxSessions

VARIABLES
    spoken,     \* how many words have been spoken
    live,       \* the session the audio of the socket goes to; 0: none
    on,         \* whether the client believes that it is transcribed
    state,      \* state[s]
    socket,     \* socket[s] to the service; "closing" until it has agreed
    pending,    \* pending[s]: audio that came before the session was ready
    segment,    \* segment[s]: the words of the deltas since the last transcript
    buffer,     \* in the service: audio that has not been committed,
    unshown,    \* words there is no delta of yet,
    items,      \* and committed segments without a transcript, in turn
    rows,       \* the lines in call_transcripts
    junk,       \* history: words of the lines that were thrown away as noise
    seen,       \* words that were shown as a caption
    adrift,     \* history: words shown that left the segment unwritten, or were
                \* shown when the session had ended
    cut,        \* history: words the service had when it closed the socket
    unheard,    \* history: words that went to a closed session all the same
    idled       \* history: sessions that ended because no audio came

vars == <<spoken, live, on, state, socket, pending, segment, buffer, unshown, items,
          rows, junk, seen, adrift, cut, unheard, idled>>
service == <<buffer, unshown, items>>
history == <<adrift, cut, unheard, idled>>

\* How a line came about: from the deltas when its session ended, or from a
\* transcript; "late" if the session had ended when it came.
Row == [words : SUBSET Words, by : {"transcript", "late", "deltas"}, session : Sessions]

TypeOK ==
    /\ spoken \in 0 .. MaxWords
    /\ live \in 0 .. MaxSessions
    /\ on \in BOOLEAN
    /\ state \in [Sessions -> {"none", "connecting", "ready", "closed"}]
    /\ socket \in [Sessions -> {"none", "open", "closing", "shut"}]
    /\ pending \in [Sessions -> Seq(Words)]
    /\ \A s \in Sessions : Len(pending[s]) <= Backlog
    /\ items \in [Sessions -> Seq(SUBSET Words)]
    /\ segment \in [Sessions -> SUBSET Words]
    /\ buffer \in [Sessions -> SUBSET Words]
    /\ unshown \in [Sessions -> SUBSET Words]
    /\ rows \subseteq Row
    /\ seen \subseteq Words /\ junk \subseteq Words /\ adrift \subseteq seen /\ cut \subseteq Words
    /\ unheard \subseteq Sessions \X Words
    /\ idled \subseteq Sessions

Init ==
    /\ spoken = 0 /\ live = 0 /\ on = FALSE
    /\ state = [s \in Sessions |-> "none"]
    /\ socket = [s \in Sessions |-> "none"]
    /\ pending = [s \in Sessions |-> <<>>] /\ items = [s \in Sessions |-> <<>>]
    /\ segment = [s \in Sessions |-> {}]
    /\ buffer = [s \in Sessions |-> {}] /\ unshown = [s \in Sessions |-> {}]
    /\ rows = {} /\ junk = {} /\ seen = {}
    /\ adrift = {} /\ cut = {} /\ unheard = {} /\ idled = {}

Elements(q) == {q[i] : i \in DOMAIN q}
UnderWay(s) == buffer[s] \cup UNION Elements(items[s])

-----------------------------------------------------------------------------
(* The end of a session.                                                   *)

\* finalize: the line is written, or thrown away if it is empty, one of the phrases the
\* service makes of noise, or an echo of the prompt.  Shown it has been all the same.
Finalized(W, by, s) ==
    \/ rows' = rows \cup {[words |-> W, by |-> by, session |-> s]} /\ junk' = junk
    \/ junk' = junk \cup W /\ rows' = rows

\* Mutant: what is open is dropped.
Dropped(s) == {}

\* The open segment is written as it is: the transcript cannot be awaited.
Salvaged(s) == segment[s]

\* close
Ended(s) ==
    /\ state' = [state EXCEPT ![s] = "closed"]
    /\ socket' = [socket EXCEPT ![s] = IF @ = "open" THEN "closing" ELSE @]
    /\ IF Salvaged(s) = {} THEN UNCHANGED <<rows, junk>> ELSE Finalized(Salvaged(s), "deltas", s)
    /\ segment' = [segment EXCEPT ![s] = {}]

NothingEnds == UNCHANGED <<state, socket, rows, junk, segment>>

Running(s) == s # 0 /\ state[s] \in {"connecting", "ready"}

\* closeLive, which is also what a leaving peer and room:join run.
Stop ==
    /\ live # 0
    /\ live' = 0 /\ on' = FALSE
    /\ IF Running(live) THEN Ended(live) ELSE NothingEnds
    /\ UNCHANGED <<spoken, pending, service, seen, history>>

\* No audio for thirty seconds: the client is not told.
Idle ==
    /\ live # 0 /\ state[live] = "ready"
    /\ Ended(live)
    /\ idled' = idled \cup {live}
    /\ UNCHANGED <<spoken, live, on, pending, service, seen, adrift, cut, unheard>>

\* stt:live-start; what is running is closed first, here by Stop.
Start(s) ==
    /\ live = 0 /\ state[s] = "none"
    /\ \A r \in Sessions : r < s => state[r] # "none"
    /\ live' = s
    /\ state' = [state EXCEPT ![s] = "connecting"]
    /\ socket' = [socket EXCEPT ![s] = "open"]
    /\ UNCHANGED <<spoken, on, pending, segment, service, rows, junk, seen, history>>

-----------------------------------------------------------------------------
(* The audio.                                                              *)

\* pending.length > 50: the oldest goes.
NewestKept(q) == IF Len(q) > Backlog THEN Tail(q) ELSE q

\* stt:live-audio with the next word: push.
Speak ==
    LET w == spoken + 1
    IN  /\ live # 0 /\ spoken < MaxWords
        /\ spoken' = w
        /\ \/ /\ state[live] = "connecting"
              /\ pending' = [pending EXCEPT ![live] = NewestKept(Append(@, w))]
              /\ UNCHANGED <<service, unheard>>
           \/ /\ state[live] = "ready"
              /\ buffer' = [buffer EXCEPT ![live] = @ \cup {w}]
              /\ unshown' = [unshown EXCEPT ![live] = @ \cup {w}]
              /\ UNCHANGED <<pending, items, unheard>>
           \/ /\ state[live] = "closed"
              /\ unheard' = IF on THEN unheard \cup {<<live, w>>} ELSE unheard
              /\ UNCHANGED <<pending, service>>
        /\ UNCHANGED <<live, on, state, socket, segment, rows, junk, seen, adrift, cut, idled>>

\* The service takes what it has for a segment; of an empty buffer it complains.
Committed(s) ==
    IF buffer[s] = {} THEN UNCHANGED <<buffer, items>>
    ELSE /\ items' = [items EXCEPT ![s] = Append(@, buffer[s])]
         /\ buffer' = [buffer EXCEPT ![s] = {}]

\* stt:live-commit: the speaker pauses.
Commit ==
    /\ live # 0 /\ state[live] = "ready" /\ segment[live] # {}
    /\ Committed(live)
    /\ UNCHANGED <<spoken, live, on, state, socket, pending, segment, unshown, rows, junk, seen, history>>

-----------------------------------------------------------------------------
(* The service.                                                            *)

Listens(s) == socket[s] \in {"open", "closing"}

\* session.updated
Updated(s) ==
    /\ socket[s] = "open" /\ state[s] = "connecting"
    /\ state' = [state EXCEPT ![s] = "ready"] /\ on' = TRUE
    /\ pending' = [pending EXCEPT ![s] = <<>>]
    /\ buffer' = [buffer EXCEPT ![s] = Elements(pending[s])]
    /\ unshown' = [unshown EXCEPT ![s] = Elements(pending[s])]
    /\ UNCHANGED <<spoken, live, socket, segment, items, rows, junk, seen, history>>

\* A delta, also of a session that has ended; after twenty seconds of one
\* segment the server commits by itself.
Delta(s) ==
    /\ Listens(s) /\ unshown[s] # {}
    /\ LET w == CHOOSE v \in unshown[s] : \A u \in unshown[s] : v <= u
       IN  /\ unshown' = [unshown EXCEPT ![s] = @ \ {w}]
           /\ segment' = [segment EXCEPT ![s] = @ \cup {w}]
           /\ seen' = seen \cup {w}
           /\ adrift' = IF state[s] = "closed" THEN adrift \cup {w} ELSE adrift
    /\ \/ UNCHANGED <<buffer, items>>
       \/ socket[s] = "open" /\ Committed(s)
    /\ UNCHANGED <<spoken, live, on, state, socket, pending, rows, junk, cut, unheard, idled>>

\* Mutant: the words of the segment stay with the next one.
SegmentKept(s) == segment[s]

\* finalize empties it.
SegmentAfter(s) == {}

\* A transcript, of all that was shown of its segment; also of a session that
\* has ended.  The words of the next segment leave with those of this one.
Completed(s) ==
    /\ Listens(s) /\ items[s] # <<>>
    /\ LET W == Head(items[s])
           by == IF state[s] = "closed" THEN "late" ELSE "transcript"
       IN  /\ W \cap unshown[s] = {}
           /\ Finalized(W, by, s)
           /\ adrift' = adrift \cup (segment[s] \ W)
    /\ items' = [items EXCEPT ![s] = Tail(@)]
    /\ segment' = [segment EXCEPT ![s] = SegmentAfter(s)]
    /\ UNCHANGED <<spoken, live, on, state, socket, pending, buffer, unshown, seen,
                   cut, unheard, idled>>

\* An error message, or a broken socket: the client is told, also by a session
\* that has ended before.
Error(s) ==
    /\ Listens(s)
    /\ on' = FALSE
    /\ IF Running(s) THEN Ended(s) ELSE NothingEnds
    /\ UNCHANGED <<spoken, live, pending, service, seen, history>>

\* Mutant: the client is not told.
CloseSilent(s) == on

\* The client falls back to another engine.
CloseTells(s) == IF Running(s) THEN FALSE ELSE on

\* The socket is closed, by the service or as we have asked: nothing of an
\* open segment is written.
Shut(s) ==
    /\ Listens(s)
    /\ socket' = [socket EXCEPT ![s] = "shut"]
    /\ state' = [state EXCEPT ![s] = "closed"]
    /\ on' = CloseTells(s)
    /\ cut' = IF Running(s) THEN cut \cup UnderWay(s) ELSE cut
    /\ UNCHANGED <<spoken, live, pending, segment, service, rows, junk, seen, adrift, unheard, idled>>

Next ==
    \/ Stop \/ Idle \/ Speak \/ Commit
    \/ \E s \in Sessions :
           Start(s) \/ Updated(s) \/ Delta(s) \/ Completed(s) \/ Error(s) \/ Shut(s)

Spec == Init /\ [][Next]_vars

-----------------------------------------------------------------------------
(* Properties.                                                             *)

Recorded == UNION {r.words : r \in rows}

\* What was shown as a caption gets into the minutes, unless the line it was of was
\* taken for noise, the service is still at it, closed the socket on it, or the word came
\* between the end of its segment and the transcript of it.
ShownIsKept ==
    \A w \in seen : \/ w \in Recorded \cup junk \cup adrift \cup cut
                   \/ \E s \in Sessions : state[s] = "ready" /\ w \in UnderWay(s)

\* A word is in the minutes twice only if its session ended with the segment
\* open and the service still answered: once from the deltas, once from the
\* transcript.
TwiceIfTorn ==
    \A r, q \in rows :
        r # q /\ r.words \cap q.words # {} => /\ r.session = q.session
                                           /\ {r.by, q.by} = {"deltas", "late"}

\* Words are spoken to a closed session, while the client shows that it
\* transcribes, only when that session was closed for want of audio.
GapIfIdled == \A x \in unheard : x[1] \in idled
=============================================================================

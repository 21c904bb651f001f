--------------------------- MODULE RecapRun_proofs ---------------------------
(***************************************************************************)
(* What holds of the recap pipeline for any number of messages, chunks and *)
(* runs, any padding and first window, and however long it goes on.        *)
(***************************************************************************)
EXTENDS RecapRun, TLAPS

-----------------------------------------------------------------------------
(* Types.                                                                  *)

\* The next chunk is a listed one, or none.
LEMMA NextListed == ASSUME NEW S PROVE NextOf(S) \subseteq S \cup {None}
BY DEF NextOf

\* What is read was said in the window.
LEMMA MaterialSaid ==
    ASSUME TypeOK, NEW since \in Int,
           NEW chat \in Latest(Chatted(since)), NEW voice \in LatestRows(Voice(since))
    PROVE  /\ chat \cup voice \in SUBSET Items
           /\ \A i \in chat \cup voice : Within(i, since)
<1>1. voice \in SUBSET Chunks /\ \A c \in voice : Within(c, since)
  BY DEF LatestRows, Voice, Whispered, Captioned, TypeOK
<1>2. chat \in SUBSET Words /\ \A w \in chat : Within(w, since)
  BY DEF Latest, Chatted
<1> QED
  BY <1>1, <1>2 DEF Items

LEMMA LeftItems ==
    ASSUME TypeOK, NEW since, NEW M PROVE LeftOut(since, M) \in SUBSET Items
BY DEF LeftOut, Chatted, Whispered, Captioned, Items, TypeOK

\* What a run may do once its material is read.
LEMMA ReadDoes ==
    ASSUME TypeOK, NEW k \in Runs, Read(k)
    PROVE  \E M \in SUBSET Items :
               /\ \A i \in M : Within(i, run[k].since)
               /\ \/ Store(k, M, Readable, LeftOut(run[k].since, M))
                  \/ Skip(k) /\ (started' = started \/ Consume(k))
                  \/ /\ run' = [run EXCEPT ![k].stage = "extracting", ![k].material = M,
                                           ![k].known = Readable,
                                           ![k].left = LeftOut(run[k].since, M)]
                     /\ UNCHANGED <<started, spinner, ended, missed>>
<1>1. PICK chat \in Latest(Chatted(run[k].since)), voice \in LatestRows(Voice(run[k].since)) :
          \/ Store(k, chat \cup voice, Readable, LeftOut(run[k].since, chat \cup voice))
          \/ Skip(k) /\ (started' = started \/ Consume(k))
          \/ /\ run' = [run EXCEPT ![k].stage = "extracting", ![k].material = chat \cup voice,
                                   ![k].known = Readable,
                                   ![k].left = LeftOut(run[k].since, chat \cup voice)]
             /\ UNCHANGED <<started, spinner, ended, missed>>
  BY Zenon DEF Read
<1>2. run[k].since \in Int
  BY DEF TypeOK, RunState
<1> QED
  BY <1>1, <1>2, MaterialSaid, Zenon

LEMMA ReadableItems == TypeOK => Readable \in SUBSET Items
BY DEF Readable, Items, TypeOK

\* A run begins with a window that is a time.
LEMMA BeginType ==
    ASSUME TypeOK, NEW k \in Runs, NEW b \in BOOLEAN, Begin(k, b)
    PROVE  run' \in [Runs -> RunState]
<1> DEFINE listed == IF b THEN {c \in Chunks : disk[c] = "stored"} ELSE {}
           since == IF b THEN SessionSince ELSE Since
<1>1. since \in Int
  BY RecapAssumption DEF SessionSince, Since, TypeOK, Times
<1>2. listed \in SUBSET Chunks
  OBVIOUS
<1>3. PICK c \in NextOf(listed) :
          run' = [run EXCEPT ![k] = [Fresh EXCEPT
                    !.stage = "transcribing", !.session = b, !.base = ended, !.since = since,
                    !.todo = listed, !.chunk = c, !.after = {j \in Runs : Told(j)}]]
  BY DEF Begin
<1>4. c \in Chunks \cup {None}
  BY <1>2, <1>3, NextListed
<1> HIDE DEF listed, since
<1> QED
  BY <1>1, <1>2, <1>3, <1>4 DEF Fresh, RunState, Stages, TypeOK

\* What a run's step changes of its variables leaves them a run's variables.
LEMMA RunUpdate ==
    ASSUME NEW r \in RunState, NEW M \in SUBSET Items, NEW K \in SUBSET Items,
           NEW L \in SUBSET Items, NEW s \in Stages
    PROVE  /\ [r EXCEPT !.stage = s] \in RunState
           /\ [r EXCEPT !.stage = s, !.material = M, !.known = K, !.left = L] \in RunState
           /\ [r EXCEPT !.stage = s, !.todo = {}, !.chunk = None, !.known = {}, !.left = {},
                        !.material = M] \in RunState
<1>1. [r EXCEPT !.stage = s] \in RunState
  BY DEF RunState
<1>2. [r EXCEPT !.stage = s, !.material = M, !.known = K, !.left = L] \in RunState
  BY Zenon DEF RunState
<1>3. [r EXCEPT !.stage = s, !.todo = {}, !.chunk = None, !.known = {}, !.left = {},
                !.material = M] \in RunState
  BY Zenon DEF RunState
<1> QED
  BY <1>1, <1>2, <1>3

\* A chunk's turn ends.
LEMMA TurnUpdate ==
    ASSUME NEW r \in RunState, NEW S \in SUBSET Chunks, NEW d \in Chunks \cup {None}
    PROVE  [r EXCEPT !.todo = S, !.chunk = d] \in RunState
BY Zenon DEF RunState

\* A recap is stored with the material given.
LEMMA StoreType ==
    ASSUME TypeOK, NEW k \in Runs, NEW M \in SUBSET Items, NEW K \in SUBSET Items,
           NEW L \in SUBSET Items, Store(k, M, K, L)
    PROVE  /\ run' \in [Runs -> RunState]
           /\ ended' \in Times
           /\ started' \in Times \cup {None}
           /\ spinner' \in BOOLEAN
           /\ missed' \in SUBSET Items
<1>1. run' \in [Runs -> RunState]
  <2>1. [run[k] EXCEPT !.stage = "saved", !.material = M, !.known = {}, !.left = {}] \in RunState
    BY RunUpdate DEF TypeOK, Stages
  <2>2. run' = [run EXCEPT ![k] = [run[k] EXCEPT !.stage = "saved", !.material = M, !.known = {}, !.left = {}]]
    BY DEF Store
  <2> QED BY <2>1, <2>2 DEF TypeOK
<1>2. ended' \in Times /\ started' \in Times \cup {None} /\ spinner' \in BOOLEAN
  BY DEF Store, Consume, TypeOK
<1>3. missed' \in SUBSET Items
  BY ReadableItems DEF Store, Before, TypeOK
<1> QED
  BY <1>1, <1>2, <1>3

\* A transcription has stored a row, or none.
Transcribed(c) == NoRow \/ \E still \in BOOLEAN : Row(c, still)

LEMMA RowType ==
    ASSUME TypeOK, NoRow \/ \E c \in Chunks : Transcribed(c)
    PROVE  rows' \in [Chunks -> Nat] /\ missed' \in SUBSET Items /\ spared' \in SUBSET Chunks
<1>1. CASE NoRow
  BY <1>1 DEF NoRow, TypeOK
<1>2. ASSUME NEW c \in Chunks, NEW still, Row(c, still)
      PROVE  rows' \in [Chunks -> Nat] /\ missed' \in SUBSET Items /\ spared' \in SUBSET Chunks
  BY <1>2 DEF Row, Miss, Items, TypeOK
<1> QED
  BY <1>1, <1>2 DEF Transcribed

LEMMA TypeStep == TypeOK /\ [Next]_vars => TypeOK'
<1> SUFFICES ASSUME TypeOK, [Next]_vars PROVE TypeOK'
  OBVIOUS
<1> USE RecapAssumption DEF Times
<1>1. CASE Tick
  BY <1>1 DEF Tick, TypeOK, talkVars, soundVars, callVars
<1>2. CASE CallBegins
  BY <1>2 DEF CallBegins, Mark, TypeOK, talkVars, soundVars
<1>3. CASE CallEnds
  BY <1>3 DEF CallEnds, TypeOK, talkVars, soundVars
<1>4. CASE FieldStart
  BY <1>4 DEF FieldStart, Mark, TypeOK, talkVars, soundVars
<1>5. CASE FieldFinish
  <2>1. run' \in [Runs -> RunState]
    BY <1>5, BeginType DEF FieldFinish
  <2> QED BY <1>5, <2>1 DEF FieldFinish, TypeOK, talkVars, soundVars
<1>6. CASE TimerFires
  <2>1. run' \in [Runs -> RunState]
    BY <1>6, BeginType DEF TimerFires
  <2> QED BY <1>6, <2>1 DEF TimerFires, TypeOK, talkVars, soundVars
<1>7. CASE ManualRun
  <2>1. run' \in [Runs -> RunState]
    BY <1>7, BeginType DEF ManualRun
  <2> QED BY <1>7, <2>1 DEF ManualRun, TypeOK, talkVars, soundVars, callVars
<1>8. CASE Restart
  <2>1. run' \in [Runs -> RunState]
    <3>1. ASSUME NEW k \in Runs PROVE run'[k] \in RunState
      <4>1. run[k] \in RunState /\ run[k].material \in SUBSET Items
        BY DEF TypeOK, RunState
      <4>2. CASE run[k].stage = "idle"
        BY <1>8, <4>1, <4>2 DEF Restart
      <4>3. CASE run[k].stage # "idle"
        <5> DEFINE M == IF Told(k) THEN run[k].material ELSE {}
        <5>1. run'[k] = [run[k] EXCEPT !.stage = "done", !.todo = {}, !.chunk = None,
                                       !.known = {}, !.left = {}, !.material = M]
          BY <1>8, <4>3 DEF Restart
        <5>2. M \in SUBSET Items
          BY <4>1
        <5> HIDE DEF M
        <5>3. "done" \in Stages
          BY DEF Stages
        <5>4. [run[k] EXCEPT !.stage = "done", !.todo = {}, !.chunk = None,
                             !.known = {}, !.left = {}, !.material = M] \in RunState
          BY <4>1, <5>2, <5>3, RunUpdate, Zenon
        <5> QED BY <5>1, <5>4
      <4> QED BY <4>2, <4>3
    <3>2. run' = [k \in Runs |-> run'[k]]
      BY <1>8 DEF Restart
    <3> QED BY <3>1, <3>2
  <2>2. restarts' \in 0 .. MaxRestarts
    <3>1. restarts' = restarts + 1 /\ restarts < MaxRestarts
      BY <1>8 DEF Restart
    <3>2. restarts \in Nat
      BY DEF TypeOK
    <3> QED BY <3>1, <3>2
  <2>3. rows' \in [Chunks -> Nat] /\ missed' \in SUBSET Items /\ spared' \in SUBSET Chunks
    BY <1>8, RowType DEF Restart, Transcribed
  <2> QED BY <1>8, <2>1, <2>2, <2>3 DEF Restart, TypeOK, talkVars
<1>9. ASSUME NEW w \in Words, Chat(w) PROVE TypeOK'
  <2>1. said' \in [Items -> Times \cup {None}] /\ missed' \in SUBSET Items
    BY <1>9 DEF Chat, Miss, Items, TypeOK
  <2> QED BY <1>9, <2>1 DEF Chat, TypeOK, soundVars, callVars
<1>10. ASSUME NEW w \in Words, Note(w) PROVE TypeOK'
  BY <1>10 DEF Note, TypeOK, soundVars, callVars
<1>11. ASSUME NEW c \in Chunks, Speak(c) PROVE TypeOK'
  <2>1. said' \in [Items -> Times \cup {None}] /\ missed' \in SUBSET Items
    BY <1>11 DEF Speak, Miss, Items, TypeOK
  <2> QED BY <1>11, <2>1 DEF Speak, TypeOK, callVars
<1>12. ASSUME NEW c \in Chunks, Upload(c) PROVE TypeOK'
  BY <1>12 DEF Upload, TypeOK, talkVars, callVars
<1>13. ASSUME NEW c \in Chunks, LiveHears(c) PROVE TypeOK'
  <2>1. disk' \in [Chunks -> {"unsent", "stored", "removed"}] /\ Transcribed(c)
    BY <1>13 DEF LiveHears, Transcribed, TypeOK
  <2> QED BY <1>13, <2>1, RowType DEF LiveHears, TypeOK, talkVars, callVars
<1>15. ASSUME NEW k \in Runs, BatchHears(k) PROVE TypeOK'
  <2> DEFINE c == run[k].chunk
             rest == {d \in run[k].todo \ {c} : disk[d] = "stored"}
  <2>1. c \in Chunks /\ rest \in SUBSET Chunks
    BY <1>15 DEF BatchHears, TypeOK, RunState
  <2>2. /\ Transcribed(c)
        /\ disk' = [disk EXCEPT ![c] = "removed"]
        /\ \E d \in NextOf(rest) : run' = [run EXCEPT ![k].todo = rest, ![k].chunk = d]
    BY <1>15 DEF BatchHears, Transcribed
  <2>3. PICK d \in Chunks \cup {None} : run' = [run EXCEPT ![k].todo = rest, ![k].chunk = d]
    BY <2>1, <2>2, NextListed
  <2> HIDE DEF rest
  <2>4. [run[k] EXCEPT !.todo = rest, !.chunk = d] \in RunState
    BY <2>1, <2>3, TurnUpdate DEF TypeOK
  <2>5. run' \in [Runs -> RunState]
    BY <2>3, <2>4 DEF TypeOK
  <2> QED BY <1>15, <2>1, <2>2, <2>5, RowType DEF BatchHears, TypeOK, talkVars, callVars
<1>16. ASSUME NEW k \in Runs, Read(k) PROVE TypeOK'
  <2>1. PICK M \in SUBSET Items :
             \/ Store(k, M, Readable, LeftOut(run[k].since, M))
             \/ Skip(k) /\ (started' = started \/ Consume(k))
             \/ /\ run' = [run EXCEPT ![k].stage = "extracting", ![k].material = M,
                                      ![k].known = Readable,
                                      ![k].left = LeftOut(run[k].since, M)]
                /\ UNCHANGED <<started, spinner, ended, missed>>
    BY <1>16, ReadDoes
  <2> DEFINE L == LeftOut(run[k].since, M)
  <2>5. L \in SUBSET Items /\ Readable \in SUBSET Items
    BY LeftItems, ReadableItems
  <2> HIDE DEF L
  <2>2. CASE Store(k, M, Readable, L)
    BY <1>16, <2>2, <2>5, StoreType DEF Read, TypeOK, talkVars, soundVars
  <2>3. CASE Skip(k) /\ (started' = started \/ Consume(k))
    <3>1. run' \in [Runs -> RunState]
      <4>1. run' = [run EXCEPT ![k] = [run[k] EXCEPT !.stage = "done"]]
        BY <2>3 DEF Skip
      <4>2. [run[k] EXCEPT !.stage = "done"] \in RunState
        BY RunUpdate DEF TypeOK, Stages
      <4> QED BY <4>1, <4>2 DEF TypeOK
    <3> QED BY <1>16, <2>3, <3>1 DEF Read, Skip, Report, Consume, TypeOK, talkVars, soundVars
  <2>4. CASE /\ run' = [run EXCEPT ![k].stage = "extracting", ![k].material = M,
                                   ![k].known = Readable, ![k].left = L]
             /\ UNCHANGED <<started, spinner, ended, missed>>
    <3>1. run' \in [Runs -> RunState]
      <4>1. [run[k] EXCEPT !.stage = "extracting", !.material = M, !.known = Readable, !.left = L]
               \in RunState
        BY <2>5, RunUpdate DEF TypeOK, Stages
      <4> QED BY <2>4, <4>1 DEF TypeOK
    <3> QED BY <1>16, <2>4, <3>1 DEF Read, TypeOK, talkVars, soundVars
  <2> QED BY <2>1, <2>2, <2>3, <2>4 DEF L
<1>17. ASSUME NEW k \in Runs, Extracted(k) PROVE TypeOK'
  <2>1. run[k].material \in SUBSET Items /\ run[k].known \in SUBSET Items
        /\ run[k].left \in SUBSET Items
    BY DEF TypeOK, RunState
  <2> QED BY <1>17, <2>1, StoreType DEF Extracted, TypeOK, talkVars, soundVars
<1>18. ASSUME NEW k \in Runs, Delivered(k) PROVE TypeOK'
  <2>1. run' \in [Runs -> RunState]
    BY <1>18 DEF Delivered, TypeOK, RunState, Stages
  <2> QED BY <1>18, <2>1 DEF Delivered, Report, TypeOK, talkVars, soundVars
<1>19. CASE UNCHANGED vars
  BY <1>19 DEF TypeOK, vars, talkVars, soundVars, callVars
<1> QED
  BY <1>1, <1>2, <1>3, <1>4, <1>5, <1>6, <1>7, <1>8, <1>9, <1>10, <1>11, <1>12, <1>13,
     <1>15, <1>16, <1>17, <1>18, <1>19 DEF Next

LEMMA TypeStart == Init => TypeOK
<1>1. Fresh \in RunState
  BY DEF Fresh, RunState, Stages
<1> QED
  <2> SUFFICES ASSUME Init PROVE TypeOK
    OBVIOUS
  <2>1. 0 \in Times /\ restarts \in 0 .. MaxRestarts
    BY RecapAssumption DEF Init, Times
  <2>2. run \in [Runs -> RunState]
    BY <1>1 DEF Init
  <2> QED BY <2>1, <2>2 DEF Init, TypeOK

\* Every column and variable of the pipeline keeps its type.
THEOREM TypeCorrect == Spec => []TypeOK
BY TypeStart, TypeStep, PTL DEF Spec

-----------------------------------------------------------------------------
(* Files and rows.                                                         *)

\* A chunk whose file and whose every other transcription went with its row is
\* heard by nobody any more.  A second row needs one of them.
HeardOut ==
    \A c \in Chunks :
        /\ rows[c] > 0 /\ c \notin spared =>
               /\ disk[c] = "removed" /\ c \notin listening
               /\ \A k \in Runs : run[k].chunk # c
        /\ rows[c] > 1 => c \in spared

\* A row is written by one who hears the chunk; "still" says who else does.
LEMMA RowHeard ==
    ASSUME TypeOK, HeardOut, NEW c \in Chunks, NEW still \in BOOLEAN, Row(c, still),
           c \in listening \/ Batching(c) # {},
           disk' \in {disk, [disk EXCEPT ![c] = "removed"]}, listening' \subseteq listening,
           ~still => /\ disk'[c] = "removed" /\ c \notin listening'
                     /\ \A k \in Runs : run'[k].chunk # c,
           \A k \in Runs : \/ run'[k].chunk \in {run[k].chunk, None}
                           \/ disk[run'[k].chunk] = "stored"
    PROVE  HeardOut'
<1> SUFFICES ASSUME NEW d \in Chunks
             PROVE  /\ rows'[d] > 0 /\ d \notin spared' =>
                           /\ disk'[d] = "removed" /\ d \notin listening'
                           /\ \A k \in Runs : run'[k].chunk # d
                    /\ rows'[d] > 1 => d \in spared'
  BY DEF HeardOut
<1>1. CASE d = c
  <2>1. rows[c] > 0 => c \in spared
    BY DEF HeardOut, Batching
  <2>2. rows'[c] = rows[c] + 1 /\ rows[c] \in Nat /\ spared' = IF still THEN spared \cup {c} ELSE spared
    BY DEF Row, TypeOK
  <2>3. rows'[c] > 1 => c \in spared'
    BY <2>1, <2>2
  <2>4. c \notin spared' => ~still
    BY <2>2
  <2> QED BY <1>1, <2>3, <2>4
<1>2. CASE d # c
  <2>1. rows'[d] = rows[d] /\ disk'[d] = disk[d] /\ (d \in spared' <=> d \in spared)
    BY <1>2 DEF Row, TypeOK
  <2>2. disk[d] = "removed" /\ (\A k \in Runs : run[k].chunk # d) => \A k \in Runs : run'[k].chunk # d
    BY RecapAssumption
  <2> QED BY <2>1, <2>2 DEF HeardOut
<1> QED BY <1>1, <1>2

\* No row is written, and no chunk begun but one on disk.
LEMMA NoRowHeard ==
    ASSUME TypeOK, HeardOut, UNCHANGED <<rows, spared>>,
           \A c \in Chunks : disk[c] = "removed" => disk'[c] = "removed",
           \A c \in listening' : c \in listening \/ disk[c] # "removed",
           \A k \in Runs : \/ run'[k].chunk \in {run[k].chunk, None}
                           \/ disk[run'[k].chunk] = "stored"
    PROVE  HeardOut'
<1> SUFFICES ASSUME NEW d \in Chunks
             PROVE  /\ rows[d] > 0 /\ d \notin spared =>
                           /\ disk'[d] = "removed" /\ d \notin listening'
                           /\ \A k \in Runs : run'[k].chunk # d
                    /\ rows[d] > 1 => d \in spared
  BY DEF HeardOut
<1>1. rows[d] > 1 => d \in spared
  BY DEF HeardOut
<1>2. ASSUME rows[d] > 0, d \notin spared
      PROVE  /\ disk'[d] = "removed" /\ d \notin listening'
             /\ \A k \in Runs : run'[k].chunk # d
  <2>1. disk[d] = "removed" /\ d \notin listening /\ \A k \in Runs : run[k].chunk # d
    BY <1>2 DEF HeardOut
  <2> QED BY <2>1, RecapAssumption
<1> QED BY <1>1, <1>2

\* A run begins with a chunk on disk.
LEMMA BeginHeard ==
    ASSUME TypeOK, HeardOut, NEW k \in Runs, NEW b \in BOOLEAN, Begin(k, b), UNCHANGED soundVars
    PROVE  HeardOut'
<1> DEFINE listed == IF b THEN {c \in Chunks : disk[c] = "stored"} ELSE {}
<1>1. PICK d \in NextOf(listed) : run' = [run EXCEPT ![k] = [Fresh EXCEPT
              !.stage = "transcribing", !.session = b, !.base = ended,
              !.since = IF b THEN SessionSince ELSE Since,
              !.todo = listed, !.chunk = d, !.after = {j \in Runs : Told(j)}]]
  BY DEF Begin
<1>2. run'[k].chunk = d /\ \A j \in Runs \ {k} : run'[j] = run[j]
  BY <1>1 DEF Fresh, TypeOK
<1>3. d = None \/ disk[d] = "stored"
  BY NextListed
<1> QED
  BY <1>2, <1>3, NoRowHeard DEF soundVars

\* A recap that is stored leaves the chunk under way.
LEMMA StoreChunk ==
    ASSUME TypeOK, NEW k \in Runs, NEW M, NEW K, NEW L, Store(k, M, K, L), NEW j \in Runs
    PROVE  run'[j].chunk = run[j].chunk
BY DEF Store, TypeOK, RunState

LEMMA HeardStep == TypeOK /\ HeardOut /\ [Next]_vars => HeardOut'
<1> SUFFICES ASSUME TypeOK, HeardOut, [Next]_vars PROVE HeardOut'
  OBVIOUS
<1>1. ASSUME UNCHANGED soundVars, \A k \in Runs : run'[k].chunk = run[k].chunk PROVE HeardOut'
  BY <1>1, NoRowHeard DEF soundVars
<1>2. CASE Tick \/ CallBegins \/ CallEnds \/ FieldStart
  BY <1>1, <1>2 DEF Tick, CallBegins, CallEnds, FieldStart
<1>3. CASE FieldFinish \/ TimerFires \/ ManualRun
  BY <1>3, BeginHeard DEF FieldFinish, TimerFires, ManualRun, callVars
<1>4. CASE Restart
  <2>1. ASSUME NEW k \in Runs PROVE run'[k].chunk \in {run[k].chunk, None}
    <3>1. CASE run[k].stage = "idle"
      BY <1>4, <3>1 DEF Restart
    <3>2. CASE run[k].stage # "idle"
      <4>1. run'[k] = [run[k] EXCEPT !.stage = "done", !.todo = {}, !.chunk = None, !.known = {},
                                     !.left = {}, !.material = IF Told(k) THEN @ ELSE {}]
        BY <1>4, <3>2 DEF Restart
      <4> QED BY <4>1 DEF TypeOK, RunState
    <3> QED BY <3>1, <3>2
  <2>2. disk' = disk /\ listening' = {}
    BY <1>4 DEF Restart
  <2>3. CASE NoRow
    BY <2>1, <2>2, <2>3, NoRowHeard DEF NoRow
  <2>4. CASE \E c \in Chunks : (c \in listening \/ Batching(c) # {}) /\ Row(c, TRUE)
    BY <2>1, <2>2, <2>4, RowHeard
  <2> QED BY <1>4, <2>3, <2>4 DEF Restart
<1>5. ASSUME NEW w \in Words, Chat(w) \/ Note(w) PROVE HeardOut'
  BY <1>1, <1>5 DEF Chat, Note
<1>6. ASSUME NEW c \in Chunks, Speak(c) PROVE HeardOut'
  BY <1>6, NoRowHeard DEF Speak
<1>7. ASSUME NEW c \in Chunks, Upload(c) PROVE HeardOut'
  <2>1. /\ disk[c] = "unsent" /\ disk' = [disk EXCEPT ![c] = "stored"]
        /\ listening' \subseteq listening \cup {c} /\ UNCHANGED <<rows, spared, run>>
    BY <1>7 DEF Upload
  <2>2. \A d \in Chunks : disk[d] = "removed" => disk'[d] = "removed"
    BY <2>1 DEF TypeOK
  <2> QED BY <2>1, <2>2, NoRowHeard
<1>8. ASSUME NEW c \in Chunks, LiveHears(c) PROVE HeardOut'
  <2>1. /\ c \in listening /\ listening' = listening \ {c} /\ UNCHANGED run
        /\ disk' \in {disk, [disk EXCEPT ![c] = "removed"]}
    BY <1>8 DEF LiveHears
  <2>2. CASE NoRow
    <3>1. \A d \in Chunks : disk[d] = "removed" => disk'[d] = "removed"
      BY <2>1 DEF TypeOK
    <3> QED BY <2>1, <2>2, <3>1, NoRowHeard DEF NoRow
  <2>3. CASE Row(c, Batching(c) # {}) /\ disk' = [disk EXCEPT ![c] = "removed"]
    <3>1. disk'[c] = "removed" /\ (Batching(c) # {}) \in BOOLEAN
      BY <2>3 DEF TypeOK
    <3>2. Batching(c) = {} => \A k \in Runs : run'[k].chunk # c
      BY <2>1 DEF Batching
    <3> QED BY <2>1, <2>3, <3>1, <3>2, RowHeard
  <2> QED BY <1>8, <2>2, <2>3 DEF LiveHears
<1>9. ASSUME NEW k \in Runs, BatchHears(k) PROVE HeardOut'
  <2> DEFINE c == run[k].chunk
             rest == {d \in run[k].todo \ {c} : disk[d] = "stored"}
             still == c \in listening \/ Batching(c) # {k}
  <2>1. /\ c \in Chunks /\ k \in Batching(c)
        /\ Row(c, still) \/ NoRow
        /\ disk' = [disk EXCEPT ![c] = "removed"] /\ listening' = listening
    BY <1>9 DEF BatchHears, Batching, TypeOK, RunState
  <2>2. PICK d \in NextOf(rest) : run' = [run EXCEPT ![k].todo = rest, ![k].chunk = d]
    BY <1>9 DEF BatchHears
  <2>3. run'[k].chunk = d /\ \A j \in Runs \ {k} : run'[j] = run[j]
    BY <2>2 DEF TypeOK, RunState
  <2>4. d # c /\ (d = None \/ disk[d] = "stored")
    BY <2>1, NextListed, RecapAssumption
  <2>5. \A e \in Chunks : disk[e] = "removed" => disk'[e] = "removed"
    BY <2>1 DEF TypeOK
  <2>6. disk'[c] = "removed"
    BY <2>1 DEF TypeOK
  <2>7. ~still => c \notin listening' /\ \A j \in Runs : run'[j].chunk # c
    BY <2>1, <2>3, <2>4 DEF Batching
  <2>8. still \in BOOLEAN
    OBVIOUS
  <2> HIDE DEF c, rest, still
  <2>9. CASE NoRow
    BY <2>1, <2>3, <2>4, <2>5, <2>9, NoRowHeard DEF NoRow
  <2>10. CASE Row(c, still)
    BY <2>1, <2>3, <2>4, <2>6, <2>7, <2>8, <2>10, RowHeard
  <2> QED BY <2>1, <2>9, <2>10
<1>10. ASSUME NEW k \in Runs, Read(k) PROVE HeardOut'
  <2>1. \A j \in Runs : run'[j].chunk = run[j].chunk
    <3>4. PICK M \in SUBSET Items :
            \/ \E L : Store(k, M, Readable, L)
            \/ Skip(k)
            \/ \E L : run' = [run EXCEPT ![k].stage = "extracting", ![k].material = M,
                                        ![k].known = Readable, ![k].left = L]
      BY <1>10, ReadDoes
    <3>1. CASE \E L : Store(k, M, Readable, L)
      BY <3>1, StoreChunk
    <3>2. CASE Skip(k)
      BY <3>2 DEF Skip, TypeOK, RunState
    <3>3. CASE \E L : run' = [run EXCEPT ![k].stage = "extracting", ![k].material = M,
                                        ![k].known = Readable, ![k].left = L]
      BY <3>3 DEF TypeOK, RunState
    <3> QED BY <3>1, <3>2, <3>3, <3>4
  <2> QED BY <1>1, <1>10, <2>1 DEF Read
<1>11. ASSUME NEW k \in Runs, Extracted(k) \/ Delivered(k) PROVE HeardOut'
  <2>1. \A j \in Runs : run'[j].chunk = run[j].chunk
    <3>1. CASE Extracted(k)
      BY <3>1, StoreChunk DEF Extracted
    <3>2. CASE Delivered(k)
      BY <3>2 DEF Delivered, TypeOK, RunState
    <3> QED BY <1>11, <3>1, <3>2
  <2> QED BY <1>1, <1>11, <2>1 DEF Extracted, Delivered
<1>12. CASE UNCHANGED vars
  BY <1>1, <1>12 DEF vars
<1> QED
  BY <1>2, <1>3, <1>4, <1>5, <1>6, <1>7, <1>8, <1>9, <1>10, <1>11, <1>12 DEF Next

\* However many transcriptions, batches and restarts there are, a chunk is in the
\* transcript twice only if another hearing of it was under way when its row was
\* written, or the process ended between the row and the removal of its file.
THEOREM HeardAgainByOverlap == Spec => []HeardTwiceByOverlap
<1>1. Init => HeardOut
  BY DEF Init, HeardOut
<1>2. HeardOut => HeardTwiceByOverlap
  BY DEF HeardOut, HeardTwiceByOverlap
<1> QED
  BY <1>1, <1>2, HeardStep, TypeCorrect, PTL DEF Spec

-----------------------------------------------------------------------------
(* Successive recaps tell different things.                                *)

\* Nothing was said, and no recap ended, after now.
Clocked ==
    /\ ended # None => ended <= now
    /\ \A i \in Items : said[i] # None => said[i] <= now

\* Only a run that has read its material has any, and all of it is in its window.
InWindow ==
    \A k \in Runs :
        /\ run[k].stage \in {"idle", "transcribing"} => run[k].material = {}
        /\ \A i \in run[k].material : Within(i, run[k].since)

\* What is told was said up to the end of the last recap.
ToldByEnd ==
    \A k \in Runs : Told(k) =>
        ended # None /\ \A i \in run[k].material : said[i] <= ended

\* What the earlier recaps tell lies before the window.
ToldBefore ==
    \A k \in Runs : \A j \in run[k].after :
        Told(j) /\ \A i \in run[j].material : said[i] <= run[k].since

Successive == Clocked /\ InWindow /\ ToldByEnd /\ ToldBefore

LEMMA Disjoint == TypeOK /\ Successive => NoRepeat
<1> SUFFICES ASSUME TypeOK, Successive, NEW k \in Runs, NEW j \in run[k].after,
                    NEW i \in run[k].material, i \in run[j].material
             PROVE  FALSE
  BY DEF NoRepeat
<1>1. i \in Items /\ j \in Runs /\ run[k].since \in Int
  BY DEF TypeOK, RunState
<1>2. said[i] # None /\ said[i] > run[k].since
  BY DEF Successive, InWindow, Within
<1>3. said[i] <= run[k].since
  BY DEF Successive, ToldBefore
<1>4. said[i] \in Int
  BY <1>1, <1>2 DEF TypeOK, Times
<1> QED
  BY <1>1, <1>2, <1>3, <1>4

\* A step that neither moves time, speech or the end of the last recap, nor
\* changes what is told, nor gives a run material it had not.
LEMMA RunsKept ==
    ASSUME TypeOK, Successive, UNCHANGED <<now, said, ended>>,
           \A k \in Runs :
               /\ run'[k].since = run[k].since /\ run'[k].after = run[k].after
               /\ Told(k)' <=> Told(k)
               /\ Told(k) => run'[k].material = run[k].material
               /\ run'[k].material \in {run[k].material, {}}
               /\ run'[k].stage \in {"idle", "transcribing"} => run'[k].material = {}
    PROVE  Successive'
<1>1. Clocked'
  BY DEF Successive, Clocked
<1>2. InWindow'
  BY DEF Successive, InWindow, Within
<1>3. ToldByEnd'
  BY DEF Successive, ToldByEnd
<1>4. ToldBefore'
  <2>1. \A k \in Runs : run[k].after \in SUBSET Runs
    BY DEF TypeOK, RunState
  <2> QED BY <2>1 DEF Successive, ToldBefore
<1> QED
  BY <1>1, <1>2, <1>3, <1>4 DEF Successive

\* A run begins: its window starts no earlier than the last recap ended.
LEMMA BeginKeeps ==
    ASSUME TypeOK, Successive, UNCHANGED <<now, said, ended>>,
           NEW k \in Runs, NEW b \in BOOLEAN, Begin(k, b)
    PROVE  Successive'
<1>1. /\ run[k].stage = "idle"
      /\ run'[k].stage = "transcribing" /\ run'[k].material = {}
      /\ run'[k].after = {j \in Runs : Told(j)}
      /\ run'[k].since = IF b THEN SessionSince ELSE Since
      /\ \A j \in Runs \ {k} : run'[j] = run[j]
  BY DEF Begin, Fresh, TypeOK
<1>2. ended # None => run'[k].since \in Int /\ ended <= run'[k].since
  BY <1>1, RecapAssumption DEF SessionSince, Since, TypeOK, Times
<1>3. ~Told(k) /\ ~Told(k)'
  BY <1>1 DEF Told
<1>4. \A j \in Runs : Told(j)' <=> Told(j)
  BY <1>1, <1>3 DEF Told
<1>5. Clocked' /\ InWindow'
  BY <1>1 DEF Successive, Clocked, InWindow, Within
<1>6. ToldByEnd'
  BY <1>1, <1>3, <1>4 DEF Successive, ToldByEnd
<1>7. ASSUME NEW l \in Runs, NEW j \in run'[l].after
      PROVE  Told(j)' /\ \A i \in run'[j].material : said'[i] <= run'[l].since
  <2>1. CASE l # k
    <3>1. Told(j) /\ j \in Runs /\ \A i \in run[j].material : said[i] <= run[l].since
      BY <1>1, <1>7, <2>1 DEF Successive, ToldBefore, TypeOK, RunState
    <3>2. run'[l] = run[l] /\ j # k
      BY <1>1, <1>3, <2>1, <3>1
    <3> QED BY <1>1, <1>4, <3>1, <3>2
  <2>2. CASE l = k
    <3>1. Told(j) /\ j \in Runs /\ j # k
      BY <1>1, <1>3, <1>7, <2>2
    <3>2. run'[j] = run[j] /\ ended # None /\ \A i \in run[j].material : said[i] <= ended
      BY <1>1, <3>1 DEF Successive, ToldByEnd
    <3>3. ASSUME NEW i \in run[j].material PROVE said[i] <= run'[k].since
      <4>1. i \in Items /\ said[i] # None
        BY <3>1 DEF Successive, InWindow, Within, TypeOK, RunState
      <4>2. said[i] \in Int /\ ended \in Int
        BY <3>2, <4>1 DEF TypeOK, Times
      <4> QED BY <1>2, <3>2, <4>2
    <3> QED BY <1>4, <2>2, <3>1, <3>2, <3>3
  <2> QED BY <2>1, <2>2
<1> QED
  BY <1>5, <1>6, <1>7 DEF Successive, ToldBefore

\* A recap is stored: it ends now, so all it tells was said by then, and no run
\* that has begun follows it.
LEMMA StoreKeeps ==
    ASSUME TypeOK, Successive, UNCHANGED <<now, said>>,
           NEW k \in Runs, run[k].stage \in {"transcribing", "extracting"},
           NEW M \in SUBSET Items, \A i \in M : Within(i, run[k].since),
           NEW K, NEW L, Store(k, M, K, L)
    PROVE  Successive'
<1>1. /\ run'[k].stage = "saved" /\ run'[k].material = M
      /\ run'[k].since = run[k].since /\ run'[k].after = run[k].after
      /\ \A j \in Runs \ {k} : run'[j] = run[j]
      /\ ended' = now
  BY DEF Store, TypeOK, RunState
<1>2. now \in Int /\ (ended # None => ended \in Int)
      /\ \A i \in Items : said[i] # None => said[i] \in Int
  BY RecapAssumption DEF TypeOK, Times
<1>3. ~Told(k)
  BY DEF Told
<1>4. Clocked'
  BY <1>1, <1>2, RecapAssumption DEF Successive, Clocked
<1>5. InWindow'
  BY <1>1 DEF Successive, InWindow, Within
<1>6. ASSUME NEW j \in Runs, Told(j)'
      PROVE  ended' # None /\ \A i \in run'[j].material : said'[i] <= ended'
  <2>1. ended' # None
    BY <1>1, <1>2, RecapAssumption
  <2>2. \A i \in run'[j].material : i \in Items /\ said[i] # None
    <3>1. CASE j = k
      BY <1>1, <3>1 DEF Within
    <3>2. CASE j # k
      BY <1>1, <3>2 DEF Successive, InWindow, Within, TypeOK, RunState
    <3> QED BY <3>1, <3>2
  <2> QED BY <1>1, <2>1, <2>2 DEF Successive, Clocked
<1>7. ASSUME NEW l \in Runs, NEW j \in run'[l].after
      PROVE  Told(j)' /\ \A i \in run'[j].material : said'[i] <= run'[l].since
  <2>1. run'[l].after = run[l].after /\ run'[l].since = run[l].since
    BY <1>1
  <2>2. j \in Runs /\ Told(j) /\ \A i \in run[j].material : said[i] <= run[l].since
    BY <1>7, <2>1 DEF Successive, ToldBefore, TypeOK, RunState
  <2>3. run'[j] = run[j]
    BY <1>1, <1>3, <2>2
  <2> QED BY <2>1, <2>2, <2>3 DEF Told
<1> QED
  BY <1>4, <1>5, <1>6, <1>7 DEF Successive, ToldByEnd, ToldBefore

\* Somebody says something new: nobody's material holds it yet.
LEMMA SayingKeeps ==
    ASSUME TypeOK, Successive, UNCHANGED <<now, ended, run>>,
           NEW i \in Items, said[i] = None, said' = [said EXCEPT ![i] = now]
    PROVE  Successive'
<1>1. now \in Int /\ now # None
  BY RecapAssumption DEF TypeOK, Times
<1>2. \A k \in Runs : run[k].material \in SUBSET Items /\ i \notin run[k].material
                      /\ run[k].after \in SUBSET Runs
  BY DEF Successive, InWindow, Within, TypeOK, RunState
<1>3. \A x \in Items : x # i => said'[x] = said[x]
  BY DEF TypeOK
<1>4. said'[i] = now
  BY DEF TypeOK
<1>5. Clocked'
  BY <1>1, <1>3, <1>4 DEF Successive, Clocked
<1>6. InWindow' /\ ToldByEnd'
  BY <1>2, <1>3 DEF Successive, InWindow, ToldByEnd, Within, Told
<1>7. ToldBefore'
  BY <1>2, <1>3 DEF Successive, ToldBefore, Told
<1> QED
  BY <1>5, <1>6, <1>7 DEF Successive

LEMMA SuccessiveStep == TypeOK /\ Successive /\ [Next]_vars => Successive'
<1> SUFFICES ASSUME TypeOK, Successive, [Next]_vars PROVE Successive'
  OBVIOUS
<1>1. ASSUME UNCHANGED <<now, said, ended, run>> PROVE Successive'
  BY <1>1 DEF Successive, Clocked, InWindow, ToldByEnd, ToldBefore, Told, Within
<1>2. CASE Tick
  <2>1. now \in Int /\ now' = now + 1 /\ UNCHANGED <<said, ended, run>>
    BY <1>2, RecapAssumption DEF Tick, talkVars, TypeOK, Times
  <2>2. (ended # None => ended \in Int) /\ \A i \in Items : said[i] # None => said[i] \in Int
    BY DEF TypeOK, Times
  <2>3. Clocked'
    BY <2>1, <2>2 DEF Successive, Clocked
  <2> QED
    BY <2>1, <2>3 DEF Successive, InWindow, ToldByEnd, ToldBefore, Told, Within
<1>3. CASE CallBegins \/ CallEnds \/ FieldStart
  BY <1>1, <1>3 DEF CallBegins, CallEnds, FieldStart, talkVars
<1>4. CASE FieldFinish
  BY <1>4, BeginKeeps DEF FieldFinish, talkVars
<1>5. CASE TimerFires
  BY <1>5, BeginKeeps DEF TimerFires, talkVars
<1>6. CASE ManualRun
  BY <1>6, BeginKeeps DEF ManualRun, talkVars
<1>7. CASE Restart
  <2>1. UNCHANGED <<now, said, ended>>
    BY <1>7 DEF Restart, talkVars
  <2>2. ASSUME NEW k \in Runs
        PROVE  /\ run'[k].since = run[k].since /\ run'[k].after = run[k].after
               /\ Told(k)' <=> Told(k)
               /\ Told(k) => run'[k].material = run[k].material
               /\ run'[k].material \in {run[k].material, {}}
               /\ run'[k].stage \in {"idle", "transcribing"} => run'[k].material = {}
    <3>1. CASE run[k].stage = "idle"
      <4>1. run'[k] = run[k]
        BY <1>7, <3>1 DEF Restart
      <4> QED BY <3>1, <4>1 DEF Told, Successive, InWindow
    <3>2. CASE run[k].stage # "idle"
      <4>1. run'[k] = [run[k] EXCEPT !.stage = "done", !.todo = {}, !.chunk = None, !.known = {},
                                     !.left = {}, !.material = IF Told(k) THEN @ ELSE {}]
        BY <1>7, <3>2 DEF Restart
      <4>2. /\ run'[k].stage = "done"
            /\ run'[k].since = run[k].since /\ run'[k].after = run[k].after
            /\ run'[k].material = IF Told(k) THEN run[k].material ELSE {}
        BY <4>1 DEF TypeOK, RunState
      <4> QED BY <4>2 DEF Told
    <3> QED BY <3>1, <3>2
  <2> QED BY <2>1, <2>2, RunsKept
<1>8. ASSUME NEW w \in Words, Chat(w) PROVE Successive'
  BY <1>8, SayingKeeps DEF Chat, Items
<1>9. ASSUME NEW w \in Words, Note(w) PROVE Successive'
  BY <1>1, <1>9 DEF Note
<1>10. ASSUME NEW c \in Chunks, Speak(c) PROVE Successive'
  BY <1>10, SayingKeeps DEF Speak, Items
<1>11. ASSUME NEW c \in Chunks, Upload(c) \/ LiveHears(c) PROVE Successive'
  BY <1>1, <1>11 DEF Upload, LiveHears, talkVars
<1>12. ASSUME NEW k \in Runs, BatchHears(k) PROVE Successive'
  <2>1. UNCHANGED <<now, said, ended>> /\ run[k].stage = "transcribing"
    BY <1>12 DEF BatchHears, talkVars
  <2>2. PICK S, d : run' = [run EXCEPT ![k].todo = S, ![k].chunk = d]
    BY <1>12 DEF BatchHears
  <2>3. /\ run'[k].stage = run[k].stage /\ run'[k].material = run[k].material
        /\ run'[k].since = run[k].since /\ run'[k].after = run[k].after
        /\ \A j \in Runs \ {k} : run'[j] = run[j]
    BY <2>2 DEF TypeOK, RunState
  <2>4. \A j \in Runs : run'[j].stage \in {"idle", "transcribing"} => run'[j].material = {}
    BY <2>1, <2>3 DEF Successive, InWindow
  <2> QED BY <2>1, <2>3, <2>4, RunsKept DEF Told
<1>13. ASSUME NEW k \in Runs, Skip(k), run[k].material = {}, UNCHANGED <<now, said>>
       PROVE  Successive'
  <2>1. /\ run'[k].stage = "done" /\ run'[k].material = {}
        /\ run'[k].since = run[k].since /\ run'[k].after = run[k].after
        /\ \A j \in Runs \ {k} : run'[j] = run[j]
        /\ ended' = ended
    BY <1>13 DEF Skip, TypeOK, RunState
  <2>2. \A j \in Runs : run'[j].stage \in {"idle", "transcribing"} => run'[j].material = {}
    BY <2>1 DEF Successive, InWindow
  <2> QED BY <1>13, <2>1, <2>2, RunsKept DEF Told
<1>14. ASSUME NEW k \in Runs, Read(k) PROVE Successive'
  <2>1. UNCHANGED <<now, said>> /\ run[k].stage = "transcribing" /\ run[k].material = {}
    BY <1>14 DEF Read, Rushing, talkVars, Successive, InWindow
  <2>2. PICK M \in SUBSET Items :
          /\ \A i \in M : Within(i, run[k].since)
          /\ \/ \E L : Store(k, M, Readable, L)
             \/ Skip(k)
             \/ ended' = ended /\ \E L : run' = [run EXCEPT ![k].stage = "extracting",
                                    ![k].material = M, ![k].known = Readable, ![k].left = L]
    BY <1>14, ReadDoes
  <2>3. CASE \E L : Store(k, M, Readable, L)
    BY <2>1, <2>2, <2>3, StoreKeeps
  <2>4. CASE Skip(k)
    BY <1>13, <2>1, <2>4
  <2>5. CASE ended' = ended /\ \E L : run' = [run EXCEPT ![k].stage = "extracting",
                                    ![k].material = M, ![k].known = Readable, ![k].left = L]
    <3>1. /\ run'[k].stage = "extracting" /\ run'[k].material = M
          /\ run'[k].since = run[k].since /\ run'[k].after = run[k].after
          /\ \A j \in Runs \ {k} : run'[j] = run[j]
      BY <2>5 DEF TypeOK, RunState
    <3>2. \A j \in Runs : Told(j)' <=> Told(j)
      BY <2>1, <3>1 DEF Told
    <3>3. ~Told(k)
      BY <2>1 DEF Told
    <3>4. Clocked' /\ InWindow' /\ ToldByEnd'
      BY <2>1, <2>2, <2>5, <3>1, <3>2, <3>3 DEF Successive, Clocked, InWindow, ToldByEnd, Within
    <3>5. ToldBefore'
      <4>1. \A l \in Runs : run[l].after \in SUBSET Runs /\ k \notin run[l].after
        BY <3>3 DEF Successive, ToldBefore, TypeOK, RunState
      <4>2. \A l \in Runs : run'[l].after = run[l].after /\ run'[l].since = run[l].since
        BY <3>1
      <4> QED BY <2>1, <3>1, <3>2, <4>1, <4>2 DEF Successive, ToldBefore
    <3> QED BY <3>4, <3>5 DEF Successive
  <2> QED BY <2>2, <2>3, <2>4, <2>5
<1>15. ASSUME NEW k \in Runs, Extracted(k) PROVE Successive'
  <2>1. /\ run[k].material \in SUBSET Items
        /\ \A i \in run[k].material : Within(i, run[k].since)
    BY DEF Successive, InWindow, TypeOK, RunState
  <2>2. /\ UNCHANGED <<now, said>> /\ run[k].stage = "extracting"
        /\ Store(k, run[k].material, run[k].known, run[k].left)
    BY <1>15 DEF Extracted, talkVars
  <2> QED BY <2>1, <2>2, StoreKeeps
<1>16. ASSUME NEW k \in Runs, Delivered(k) PROVE Successive'
  <2>1. UNCHANGED <<now, said, ended>> /\ run[k].stage = "saved"
    BY <1>16 DEF Delivered, talkVars
  <2>2. /\ run'[k].stage = "done" /\ run'[k].material = run[k].material
        /\ run'[k].since = run[k].since /\ run'[k].after = run[k].after
        /\ \A j \in Runs \ {k} : run'[j] = run[j]
    BY <1>16 DEF Delivered, TypeOK, RunState
  <2>3. \A j \in Runs : run'[j].stage \in {"idle", "transcribing"} => run'[j].material = {}
    BY <2>2 DEF Successive, InWindow
  <2> QED BY <2>1, <2>2, <2>3, RunsKept DEF Told
<1>17. CASE UNCHANGED vars
  BY <1>1, <1>17 DEF vars, talkVars
<1> QED
  BY <1>2, <1>3, <1>4, <1>5, <1>6, <1>7, <1>8, <1>9, <1>10, <1>11, <1>12, <1>14, <1>15,
     <1>16, <1>17 DEF Next

\* However runs of calls, recordings and hosts overlap, a recap made after another
\* was stored tells nothing the other told.
THEOREM NothingTwice == Spec => []NoRepeat
<1>1. Init => Successive
  BY DEF Init, Fresh, Successive, Clocked, InWindow, ToldByEnd, ToldBefore, Told
<1> QED
  BY <1>1, SuccessiveStep, Disjoint, TypeCorrect, PTL DEF Spec

-----------------------------------------------------------------------------
(* Nothing else evaporates.                                                *)

\* Only what has been said is uploaded, transcribed, captioned or listed.
Spoken ==
    /\ \A c \in Chunks :
           disk[c] # "unsent" \/ c \in listening \/ rows[c] > 0 \/ c \in captions => said[c] # None
    /\ \A k \in Runs : \A c \in run[k].todo \cup {run[k].chunk} : c # None => said[c] # None

\* What was in the database when a run's material was read, and is in the run's
\* window, is in the material, or is what its queries left out.
Covered(i, since, material, left) ==
    said[i] # None /\ (Within(i, since) => i \in material \cup left)

KnownCovered ==
    \A k \in Runs : run[k].stage = "extracting" =>
        \A i \in run[k].known : Covered(i, run[k].since, run[k].material, run[k].left)

\* The end of the recap a run begins with is never ahead of the last one's.
BaseByEnd == \A k \in Runs : run[k].base # None => ended # None /\ run[k].base <= ended

Accounted == Spoken /\ KnownCovered /\ BaseByEnd /\ NothingElseEvaporates

LEMMA ReadableSpoken == Spoken => \A i \in Readable : said[i] # None
BY DEF Spoken, Readable

\* The queries of a run leave out nothing else.
LEMMA ReadCovers ==
    ASSUME TypeOK, Spoken, NEW since, NEW M
    PROVE  \A i \in Readable : Covered(i, since, M, LeftOut(since, M))
<1> SUFFICES ASSUME NEW i \in Readable, Within(i, since) PROVE i \in M \cup LeftOut(since, M)
  BY ReadableSpoken DEF Covered
<1> QED
  BY DEF Readable, LeftOut, Chatted, Whispered, Captioned

\* What a recap tells stays told.
Retold == \A k \in Runs : Told(k) => Told(k)' /\ run'[k].material = run[k].material

\* No run reads material, those that have keep it, and one that begins does so
\* with the last recap.
Unread ==
    \A k \in Runs :
        /\ run'[k].base \in {run[k].base, ended}
        /\ run'[k].stage = "extracting" =>
               /\ run[k].stage = "extracting"
               /\ run'[k].known = run[k].known /\ run'[k].since = run[k].since
               /\ run'[k].material = run[k].material /\ run'[k].left = run[k].left

\* A step by which nothing becomes readable but what no recap covers, or what
\* is noted as missed.
LEMMA AccountKept ==
    ASSUME TypeOK, Accounted, Spoken', Retold, Unread, ended' = ended,
           missed \subseteq missed',
           \A i \in Items : said[i] # None => said'[i] = said[i],
           \A i \in Readable' : \/ i \in Readable
                                \/ i \in missed'
                                \/ ~(ended # None /\ said'[i] <= ended)
    PROVE  Accounted'
<1>1. KnownCovered'
  <2> SUFFICES ASSUME NEW k \in Runs, run'[k].stage = "extracting", NEW i \in run'[k].known
               PROVE  /\ said'[i] # None
                      /\ said'[i] > run'[k].since =>
                             i \in run'[k].material \cup run'[k].left
    BY DEF KnownCovered, Covered, Within
  <2>1. run[k].stage = "extracting" /\ i \in run[k].known /\ i \in Items
    BY DEF Unread, TypeOK, RunState
  <2>2. Covered(i, run[k].since, run[k].material, run[k].left)
    BY <2>1 DEF Accounted, KnownCovered
  <2>3. said'[i] = said[i]
    BY <2>1, <2>2 DEF Covered
  <2>4. run'[k].since = run[k].since /\ run'[k].material = run[k].material
        /\ run'[k].left = run[k].left
    BY <2>1 DEF Unread
  <2> QED BY <2>2, <2>3, <2>4 DEF Covered, Within
<1>2. NothingElseEvaporates'
  <2> SUFFICES ASSUME NEW i \in Readable', i \notin missed', ended # None, said'[i] <= ended
               PROVE  \E k \in Runs : Told(k)' /\ i \in run'[k].material
    BY DEF NothingElseEvaporates
  <2>1. i \in Readable /\ i \notin missed
    OBVIOUS
  <2>2. said'[i] = said[i]
    BY <2>1, ReadableItems, ReadableSpoken DEF Accounted
  <2>3. PICK k \in Runs : Told(k) /\ i \in run[k].material
    BY <2>1, <2>2 DEF Accounted, NothingElseEvaporates
  <2> QED BY <2>3 DEF Retold
<1>3. BaseByEnd'
  <2>1. ended # None => ended \in Int /\ ended <= ended
    BY DEF TypeOK, Times
  <2> QED BY <2>1 DEF Accounted, BaseByEnd, Unread
<1> QED BY <1>1, <1>2, <1>3 DEF Accounted

\* Nothing that the account speaks of changes, but the runs.
LEMMA RunsAccounted ==
    ASSUME TypeOK, Accounted, UNCHANGED <<said, soundVars, ended, missed>>, Retold, Unread,
           \A k \in Runs : run'[k].todo \subseteq run[k].todo /\ run'[k].chunk \in {run[k].chunk, None}
    PROVE  Accounted'
<1>1. Spoken'
  BY DEF Accounted, Spoken, soundVars
<1>2. Readable' = Readable
  BY DEF Readable, soundVars
<1> QED
  BY <1>1, <1>2, AccountKept DEF soundVars

\* A run begins with chunks on disk.
LEMMA BeginAccounted ==
    ASSUME TypeOK, Accounted, UNCHANGED <<said, soundVars, ended, missed>>,
           NEW k \in Runs, NEW b \in BOOLEAN, Begin(k, b)
    PROVE  Accounted'
<1> DEFINE listed == IF b THEN {c \in Chunks : disk[c] = "stored"} ELSE {}
<1>1. PICK d \in NextOf(listed) : run' = [run EXCEPT ![k] = [Fresh EXCEPT
              !.stage = "transcribing", !.session = b, !.base = ended,
              !.since = IF b THEN SessionSince ELSE Since,
              !.todo = listed, !.chunk = d, !.after = {j \in Runs : Told(j)}]]
  BY DEF Begin
<1>2. /\ run[k].stage = "idle" /\ run'[k].stage = "transcribing"
      /\ run'[k].todo = listed /\ run'[k].chunk = d /\ run'[k].base = ended
      /\ \A j \in Runs \ {k} : run'[j] = run[j]
  BY <1>1 DEF Begin, Fresh, TypeOK
<1>3. d \in listed \cup {None}
  BY <1>1, NextListed
<1>4. \A c \in listed : c \in Chunks /\ disk[c] # "unsent"
  OBVIOUS
<1> HIDE DEF listed
<1>5. Spoken'
  <2>1. \A c \in Chunks : disk'[c] # "unsent" \/ c \in listening' \/ rows'[c] > 0 \/ c \in captions'
                              => said'[c] # None
    BY DEF Accounted, Spoken, soundVars
  <2>2. ASSUME NEW j \in Runs, NEW c \in run'[j].todo \cup {run'[j].chunk}, c # None
        PROVE  said'[c] # None
    <3>1. CASE j = k
      BY <1>2, <1>3, <1>4, <2>2, <3>1 DEF Accounted, Spoken
    <3>2. CASE j # k
      BY <1>2, <2>2, <3>2 DEF Accounted, Spoken
    <3> QED BY <3>1, <3>2
  <2> QED BY <2>1, <2>2 DEF Spoken
<1>6. Retold /\ Unread
  BY <1>2 DEF Retold, Unread, Told
<1>7. Readable' = Readable
  BY DEF Readable, soundVars
<1> QED
  BY <1>5, <1>6, <1>7, AccountKept DEF soundVars

\* A recap is stored: what it leaves out is missed, or was told before.
LEMMA StoreAccounted ==
    ASSUME TypeOK, Clocked, Accounted, UNCHANGED <<now, said, soundVars>>,
           NEW k \in Runs, run[k].stage \in {"transcribing", "extracting"},
           NEW M \in SUBSET Items, NEW K \in SUBSET Items,
           NEW L \in SUBSET Items, \A i \in K : Covered(i, run[k].since, M, L),
           Store(k, M, K, L)
    PROVE  Accounted'
<1>1. /\ run'[k].stage = "saved" /\ run'[k].material = M
      /\ run'[k].todo = run[k].todo /\ run'[k].chunk = run[k].chunk
      /\ run'[k].base = run[k].base
      /\ \A j \in Runs \ {k} : run'[j] = run[j]
  BY DEF Store, TypeOK, RunState
<1>2. Readable' = Readable
  BY DEF Readable, soundVars
<1>3. Spoken'
  BY <1>1 DEF Accounted, Spoken, soundVars
<1>4. KnownCovered'
  <2> SUFFICES ASSUME NEW j \in Runs, run'[j].stage = "extracting", NEW i \in run'[j].known
               PROVE  /\ said'[i] # None
                      /\ said'[i] > run'[j].since =>
                             i \in run'[j].material \cup run'[j].left
    BY DEF KnownCovered, Covered, Within
  <2>1. j # k /\ run'[j] = run[j]
    BY <1>1
  <2> QED BY <2>1 DEF Accounted, KnownCovered, Covered, Within, soundVars
<1>5. BaseByEnd'
  <2>1. ended' = now /\ now \in Int /\ now # None /\ (ended # None => ended \in Int /\ ended <= now)
    BY RecapAssumption DEF Store, Clocked, TypeOK, Times
  <2>2. ASSUME NEW j \in Runs, run'[j].base # None PROVE run'[j].base <= now
    <3>1. run'[j].base = run[j].base
      BY <1>1
    <3>2. ended # None /\ run[j].base <= ended /\ run[j].base \in Int
      BY <2>2, <3>1 DEF Accounted, BaseByEnd, TypeOK, RunState, Times
    <3> QED BY <2>1, <3>1, <3>2
  <2> QED BY <2>1, <2>2 DEF BaseByEnd
<1>6. ~Told(k)
  BY DEF Told
<1>7. NothingElseEvaporates'
  <2> SUFFICES ASSUME NEW i \in Readable, i \notin missed'
               PROVE  \E j \in Runs : Told(j)' /\ i \in run'[j].material
    BY <1>2 DEF NothingElseEvaporates
  <2>1. i \in K /\ i \notin L /\ i \notin Before(k) /\ i \notin missed
    BY DEF Store
  <2>2. CASE Within(i, run[k].since)
    <3>1. i \in M
      BY <2>1, <2>2 DEF Covered
    <3> QED BY <1>1, <3>1 DEF Told
  <2>3. CASE ~Within(i, run[k].since)
    <3>1. run[k].base # None /\ ~Within(i, run[k].base) /\ said[i] # None
      BY <2>1, <2>3 DEF Before, Covered
    <3>2. ended # None /\ run[k].base <= ended
      BY <3>1 DEF Accounted, BaseByEnd
    <3>3. said[i] \in Int /\ run[k].base \in Int /\ ended \in Int
      BY <2>1, <3>1, <3>2 DEF TypeOK, RunState, Times
    <3>4. said[i] <= ended
      BY <3>1, <3>2, <3>3 DEF Within
    <3>5. PICK j \in Runs : Told(j) /\ i \in run[j].material
      BY <2>1, <3>2, <3>4 DEF Accounted, NothingElseEvaporates
    <3> QED BY <1>1, <1>6, <3>5 DEF Told
  <2> QED BY <2>2, <2>3
<1> QED
  BY <1>3, <1>4, <1>5, <1>7 DEF Accounted

\* A transcription stores a row, or none.
LEMMA HearingAccounted ==
    ASSUME TypeOK, Accounted, UNCHANGED <<said, captions, ended>>, Retold, Unread,
           NEW c \in Chunks, said[c] # None, Transcribed(c),
           disk' \in {disk, [disk EXCEPT ![c] = "removed"]},
           listening' \subseteq listening,
           \A k \in Runs : \A d \in run'[k].todo \cup {run'[k].chunk} :
               d \in run[k].todo \cup {run[k].chunk, None}
    PROVE  Accounted'
<1>1. Spoken'
  <2>1. ASSUME NEW d \in Chunks, disk'[d] # "unsent" \/ d \in listening' \/ rows'[d] > 0 \/ d \in captions'
        PROVE  said'[d] # None
    <3>1. CASE d = c
      BY <3>1
    <3>2. CASE d # c
      <4>1. disk'[d] = disk[d] /\ rows'[d] = rows[d]
        BY <3>2 DEF Transcribed, Row, NoRow, TypeOK
      <4> QED BY <2>1, <4>1 DEF Accounted, Spoken
    <3> QED BY <3>1, <3>2
  <2>2. ASSUME NEW k \in Runs, NEW d \in run'[k].todo \cup {run'[k].chunk}, d # None
        PROVE  said'[d] # None
    <3>1. d \in run[k].todo \cup {run[k].chunk}
      BY <2>2
    <3> QED BY <2>2, <3>1 DEF Accounted, Spoken
  <2> QED BY <2>1, <2>2 DEF Spoken
<1>2. ASSUME NEW i \in Readable', i \notin Readable
      PROVE  i \in missed' \/ ~(ended # None /\ said'[i] <= ended)
  <2>1. i = c /\ Miss(c, said[c])
    <3>1. i \in Chunks /\ rows'[i] > 0 /\ ~(rows[i] > 0)
      BY <1>2 DEF Readable
    <3>2. ~NoRow
      BY <3>1 DEF NoRow
    <3>3. PICK still \in BOOLEAN : Row(c, still)
      BY <3>2 DEF Transcribed
    <3> QED BY <3>1, <3>3 DEF Row, TypeOK
  <2> QED BY <2>1 DEF Miss
<1>3. missed \subseteq missed'
  BY DEF Transcribed, Row, NoRow, Miss
<1> QED
  BY <1>1, <1>2, <1>3, AccountKept

LEMMA AccountStep == TypeOK /\ Successive /\ Accounted /\ [Next]_vars => Accounted'
<1> SUFFICES ASSUME TypeOK, Successive, Accounted, [Next]_vars PROVE Accounted'
  OBVIOUS
<1>0. Spoken
  BY DEF Accounted
<1>1. ASSUME UNCHANGED <<said, soundVars, ended, missed, run>> PROVE Accounted'
  BY <1>1, RunsAccounted DEF Retold, Unread, Told
<1>2. CASE Tick
  BY <1>1, <1>2 DEF Tick, talkVars
<1>3. CASE CallBegins \/ CallEnds \/ FieldStart
  BY <1>1, <1>3 DEF CallBegins, CallEnds, FieldStart, talkVars
<1>4. CASE FieldFinish
  BY <1>4, BeginAccounted DEF FieldFinish, talkVars
<1>5. CASE TimerFires
  BY <1>5, BeginAccounted DEF TimerFires, talkVars
<1>6. CASE ManualRun
  BY <1>6, BeginAccounted DEF ManualRun, talkVars
<1>7. CASE Restart
  <2>1. /\ UNCHANGED <<said, ended, disk, captions>> /\ listening' = {}
    BY <1>7 DEF Restart, talkVars
  <2>2. ASSUME NEW k \in Runs
        PROVE  /\ Told(k) => Told(k)' /\ run'[k].material = run[k].material
               /\ run'[k].stage # "extracting" /\ run'[k].base = run[k].base
               /\ run'[k].todo \subseteq run[k].todo /\ run'[k].chunk \in {run[k].chunk, None}
    <3>1. CASE run[k].stage = "idle"
      <4>1. run'[k] = run[k]
        BY <1>7, <3>1 DEF Restart
      <4> QED BY <3>1, <4>1 DEF Told
    <3>2. CASE run[k].stage # "idle"
      <4>1. run'[k] = [run[k] EXCEPT !.stage = "done", !.todo = {}, !.chunk = None, !.known = {},
                                     !.left = {}, !.material = IF Told(k) THEN @ ELSE {}]
        BY <1>7, <3>2 DEF Restart
      <4>2. /\ run'[k].stage = "done" /\ run'[k].todo = {} /\ run'[k].chunk = None
            /\ run'[k].base = run[k].base
            /\ run'[k].material = IF Told(k) THEN run[k].material ELSE {}
        BY <4>1 DEF TypeOK, RunState
      <4> QED BY <4>2 DEF Told
    <3> QED BY <3>1, <3>2
  <2>3. Retold /\ Unread
    BY <2>2 DEF Retold, Unread
  <2>4. CASE NoRow
    <3>1. Spoken'
      BY <1>0, <2>1, <2>2, <2>4 DEF Spoken, NoRow
    <3>2. Readable' = Readable /\ missed' = missed
      BY <2>1, <2>4 DEF Readable, NoRow
    <3> QED BY <2>1, <2>3, <3>1, <3>2, AccountKept
  <2>5. ASSUME NEW c \in Chunks, c \in listening \/ Batching(c) # {}, Row(c, TRUE)
        PROVE  Accounted'
    <3>1. said[c] # None
      BY <1>0, <2>5, RecapAssumption DEF Spoken, Batching
    <3>2. \A k \in Runs : \A d \in run'[k].todo \cup {run'[k].chunk} :
              d \in run[k].todo \cup {run[k].chunk, None}
      BY <2>2
    <3> QED BY <2>1, <2>3, <2>5, <3>1, <3>2, HearingAccounted DEF Transcribed
  <2> QED BY <1>7, <2>4, <2>5 DEF Restart
\* What is said now is said after the last recap, or in its very second.
<1>8. ASSUME NEW i \in Items, said[i] = None, said' = [said EXCEPT ![i] = now],
             UNCHANGED <<disk, listening, rows, ended, run>>,
             \/ captions' = captions
             \/ i \in Chunks /\ captions' = captions \cup {i},
             Readable' \subseteq Readable \cup {i},
             i \in Readable' => Miss(i, now),
             missed \subseteq missed'
      PROVE  Accounted'
  <2>1. /\ \A j \in Items \ {i} : said'[j] = said[j]
        /\ said'[i] = now /\ now # None
    BY <1>8, RecapAssumption DEF TypeOK, Times
  <2>2. Spoken'
    <3>1. ASSUME NEW c \in Chunks,
                 disk'[c] # "unsent" \/ c \in listening' \/ rows'[c] > 0 \/ c \in captions'
          PROVE  said'[c] # None
      <4>1. CASE c = i
        BY <2>1, <4>1
      <4>2. CASE c # i
        <5>1. said'[c] = said[c]
          BY <2>1, <4>2 DEF Items
        <5> QED BY <1>0, <1>8, <3>1, <4>2, <5>1 DEF Spoken
      <4> QED BY <4>1, <4>2
    <3>2. ASSUME NEW k \in Runs, NEW c \in run'[k].todo \cup {run'[k].chunk}, c # None
          PROVE  said'[c] # None
      <4>1. said[c] # None /\ c \in Items
        BY <1>0, <1>8, <3>2 DEF Spoken, TypeOK, RunState, Items
      <4> QED BY <1>8, <2>1, <4>1
    <3> QED BY <3>1, <3>2 DEF Spoken
  <2>3. \A j \in Items : said[j] # None => said'[j] = said[j]
    BY <1>8, <2>1
  <2>4. ASSUME NEW j \in Readable', j \notin Readable
        PROVE  j \in missed' \/ ~(ended # None /\ said'[j] <= ended)
    BY <1>8, <2>1, <2>4 DEF Miss
  <2>5. Retold /\ Unread
    BY <1>8 DEF Retold, Unread, Told
  <2> QED BY <1>8, <2>2, <2>3, <2>4, <2>5, AccountKept
<1>9. ASSUME NEW w \in Words, Chat(w) PROVE Accounted'
  <2>1. /\ said[w] = None /\ said' = [said EXCEPT ![w] = now] /\ Miss(w, now)
        /\ UNCHANGED <<disk, listening, rows, captions, ended, run>> /\ w \in Items
    BY <1>9 DEF Chat, soundVars, Items
  <2>2. Readable' \subseteq Readable \cup {w} /\ missed \subseteq missed'
    BY <2>1 DEF Readable, Miss, TypeOK, Items
  <2> QED BY <1>8, <2>1, <2>2
<1>10. ASSUME NEW w \in Words, Note(w) PROVE Accounted'
  BY <1>1, <1>10 DEF Note
<1>11. ASSUME NEW c \in Chunks, Speak(c) PROVE Accounted'
  <2>1. /\ said[c] = None /\ said' = [said EXCEPT ![c] = now] /\ c \in Items
        /\ UNCHANGED <<disk, listening, rows, ended, run>>
        /\ \/ captions' = captions \cup {c} /\ Miss(c, now)
           \/ captions' = captions /\ missed' = missed
    BY <1>11 DEF Speak, Items
  <2>2. Readable' \subseteq Readable \cup {c}
    BY <2>1, RecapAssumption DEF Readable, TypeOK, Items
  <2>3. missed \subseteq missed'
    BY <2>1 DEF Miss
  <2>4. c \in Readable' => Miss(c, now)
    <3>1. c \notin Words /\ ~(rows[c] > 0) /\ c \notin captions
      BY <1>0, <2>1, RecapAssumption DEF Spoken
    <3> QED BY <2>1, <3>1 DEF Readable
  <2> QED BY <1>8, <2>1, <2>2, <2>3, <2>4
<1>12. ASSUME NEW c \in Chunks, Upload(c) PROVE Accounted'
  <2>1. /\ said[c] # None
        /\ disk' = [disk EXCEPT ![c] = "stored"] /\ listening' \subseteq listening \cup {c}
        /\ UNCHANGED <<said, rows, captions, ended, run, missed>>
    BY <1>12 DEF Upload, talkVars
  <2>2. \A d \in Chunks \ {c} : disk'[d] = disk[d]
    BY <2>1 DEF TypeOK
  <2>3. Spoken'
    BY <1>0, <2>1, <2>2 DEF Spoken
  <2>4. Readable' = Readable /\ Retold /\ Unread
    BY <2>1 DEF Readable, Retold, Unread, Told
  <2> QED BY <2>1, <2>3, <2>4, AccountKept
<1>13. ASSUME NEW c \in Chunks, LiveHears(c) PROVE Accounted'
  <2>1. /\ c \in listening /\ listening' \subseteq listening
        /\ Transcribed(c)
        /\ disk' \in {disk, [disk EXCEPT ![c] = "removed"]}
        /\ UNCHANGED <<said, captions, ended, run>>
    BY <1>13 DEF LiveHears, Transcribed, talkVars
  <2>2. said[c] # None
    BY <1>0, <2>1 DEF Spoken
  <2>3. Retold /\ Unread
    BY <2>1 DEF Retold, Unread, Told
  <2> QED BY <2>1, <2>2, <2>3, HearingAccounted
<1>14. ASSUME NEW k \in Runs, BatchHears(k) PROVE Accounted'
  <2> DEFINE c == run[k].chunk
             rest == {d \in run[k].todo \ {c} : disk[d] = "stored"}
  <2>1. /\ run[k].stage = "transcribing" /\ c # None
        /\ Transcribed(c)
        /\ disk' = [disk EXCEPT ![c] = "removed"]
        /\ UNCHANGED <<said, listening, captions, ended>>
    BY <1>14 DEF BatchHears, Transcribed, talkVars
  <2>2. PICK d \in NextOf(rest) : run' = [run EXCEPT ![k].todo = rest, ![k].chunk = d]
    BY <1>14 DEF BatchHears
  <2>3. c \in Chunks /\ said[c] # None
    BY <1>0, <2>1 DEF Spoken, TypeOK, RunState
  <2>4. rest \subseteq run[k].todo /\ d \in rest \cup {None}
    BY <2>2, NextListed
  <2> HIDE DEF rest
  <2>5. /\ run'[k].stage = run[k].stage /\ run'[k].material = run[k].material
        /\ run'[k].todo = rest /\ run'[k].chunk = d /\ run'[k].base = run[k].base
        /\ \A j \in Runs \ {k} : run'[j] = run[j]
    BY <2>2 DEF TypeOK, RunState
  <2>6. Retold /\ Unread
    BY <2>1, <2>5 DEF Retold, Unread, Told
  <2>7. \A j \in Runs : \A e \in run'[j].todo \cup {run'[j].chunk} :
            e \in run[j].todo \cup {run[j].chunk, None}
    BY <2>4, <2>5
  <2> HIDE DEF c
  <2> QED BY <2>1, <2>3, <2>6, <2>7, HearingAccounted
<1>15. ASSUME NEW k \in Runs, Skip(k), run[k].stage = "transcribing",
              UNCHANGED <<said, soundVars>>
       PROVE  Accounted'
  <2>1. /\ run'[k].stage = "done"
        /\ run'[k].todo = run[k].todo /\ run'[k].chunk = run[k].chunk
        /\ run'[k].base = run[k].base
        /\ \A j \in Runs \ {k} : run'[j] = run[j]
        /\ UNCHANGED <<ended, missed>>
    BY <1>15 DEF Skip, TypeOK, RunState
  <2>2. Retold /\ Unread
    BY <1>15, <2>1 DEF Retold, Unread, Told
  <2>3. \A j \in Runs : run'[j].todo \subseteq run[j].todo /\ run'[j].chunk \in {run[j].chunk, None}
    BY <2>1
  <2> QED BY <1>15, <2>1, <2>2, <2>3, RunsAccounted
<1>16. ASSUME NEW k \in Runs, Read(k) PROVE Accounted'
  <2>1. UNCHANGED <<now, said, soundVars>> /\ run[k].stage = "transcribing"
    BY <1>16 DEF Read, Rushing, talkVars
  <2>2. PICK M \in SUBSET Items :
          \/ Store(k, M, Readable, LeftOut(run[k].since, M))
          \/ Skip(k)
          \/ /\ UNCHANGED <<ended, missed>>
             /\ run' = [run EXCEPT ![k].stage = "extracting", ![k].material = M,
                                   ![k].known = Readable, ![k].left = LeftOut(run[k].since, M)]
    BY <1>16, ReadDoes
  <2> DEFINE L == LeftOut(run[k].since, M)
  <2>3. \A i \in Readable : Covered(i, run[k].since, M, L)
    BY <1>0, ReadCovers
  <2>7. L \in SUBSET Items /\ Readable \in SUBSET Items
    BY LeftItems, ReadableItems
  <2> HIDE DEF L
  <2>4. CASE Store(k, M, Readable, L)
    BY <2>1, <2>3, <2>4, <2>7, StoreAccounted DEF Successive
  <2>5. CASE Skip(k)
    BY <1>15, <2>1, <2>5
  <2>6. CASE /\ ended' = ended /\ missed' = missed
             /\ run' = [run EXCEPT ![k].stage = "extracting", ![k].material = M,
                                   ![k].known = Readable, ![k].left = L]
    <3>1. /\ run'[k].stage = "extracting" /\ run'[k].material = M /\ run'[k].known = Readable
          /\ run'[k].left = L /\ run'[k].since = run[k].since /\ run'[k].base = run[k].base
          /\ run'[k].todo = run[k].todo /\ run'[k].chunk = run[k].chunk
          /\ \A j \in Runs \ {k} : run'[j] = run[j]
      BY <2>6 DEF TypeOK, RunState
    <3>2. Readable' = Readable
      BY <2>1 DEF Readable, soundVars
    <3>3. Spoken'
      BY <1>0, <2>1, <3>1 DEF Spoken, soundVars
    <3>4. KnownCovered'
      <4> SUFFICES ASSUME NEW j \in Runs, run'[j].stage = "extracting", NEW i \in run'[j].known
                   PROVE  /\ said'[i] # None
                          /\ said'[i] > run'[j].since =>
                                 i \in run'[j].material \cup run'[j].left
        BY DEF KnownCovered, Covered, Within
      <4>1. CASE j = k
        <5>1. Covered(i, run[k].since, M, L)
          BY <2>3, <3>1, <4>1
        <5> QED BY <2>1, <3>1, <4>1, <5>1 DEF Covered, Within, soundVars
      <4>2. CASE j # k
        <5>1. run'[j] = run[j]
          BY <3>1, <4>2
        <5> QED BY <2>1, <5>1 DEF Accounted, KnownCovered, Covered, Within, soundVars
      <4> QED BY <4>1, <4>2
    <3>5. NothingElseEvaporates'
      <4>1. \A j \in Runs : Told(j) => Told(j)' /\ run'[j].material = run[j].material
        BY <2>1, <3>1 DEF Told
      <4> QED BY <2>1, <2>6, <3>2, <4>1 DEF Accounted, NothingElseEvaporates
    <3>6. BaseByEnd'
      BY <2>6, <3>1 DEF Accounted, BaseByEnd
    <3> QED BY <3>3, <3>4, <3>5, <3>6 DEF Accounted
  <2> QED BY <2>2, <2>4, <2>5, <2>6 DEF L
<1>17. ASSUME NEW k \in Runs, Extracted(k) PROVE Accounted'
  <2>1. /\ UNCHANGED <<now, said, soundVars>> /\ run[k].stage = "extracting"
        /\ Store(k, run[k].material, run[k].known, run[k].left)
    BY <1>17 DEF Extracted, talkVars
  <2>2. run[k].material \in SUBSET Items /\ run[k].known \in SUBSET Items
        /\ run[k].left \in SUBSET Items
    BY DEF TypeOK, RunState
  <2>3. \A i \in run[k].known : Covered(i, run[k].since, run[k].material, run[k].left)
    BY <2>1 DEF Accounted, KnownCovered
  <2> QED BY <2>1, <2>2, <2>3, StoreAccounted DEF Successive
<1>18. ASSUME NEW k \in Runs, Delivered(k) PROVE Accounted'
  <2>1. UNCHANGED <<said, soundVars, ended, missed>> /\ run[k].stage = "saved"
    BY <1>18 DEF Delivered, talkVars
  <2>2. /\ run'[k].stage = "done" /\ run'[k].material = run[k].material
        /\ run'[k].todo = run[k].todo /\ run'[k].chunk = run[k].chunk
        /\ run'[k].base = run[k].base
        /\ \A j \in Runs \ {k} : run'[j] = run[j]
    BY <1>18 DEF Delivered, TypeOK, RunState
  <2>3. Retold /\ Unread
    BY <2>1, <2>2 DEF Retold, Unread, Told
  <2>4. \A j \in Runs : run'[j].todo \subseteq run[j].todo /\ run'[j].chunk \in {run[j].chunk, None}
    BY <2>2
  <2> QED BY <2>1, <2>3, <2>4, RunsAccounted
<1>19. CASE UNCHANGED vars
  BY <1>1, <1>19 DEF vars, talkVars
<1> QED
  BY <1>2, <1>3, <1>4, <1>5, <1>6, <1>7, <1>9, <1>10, <1>11, <1>12, <1>13, <1>14,
     <1>16, <1>17, <1>18, <1>19 DEF Next

\* What was said up to the last recap is in a recap or was missed in one of the
\* four ways the code has: late, beyond LIMIT, beside better text, or before the
\* window of a session or of the first recap.
THEOREM AllAccounted == Spec => []NothingElseEvaporates
<1>1. Init => Accounted
  BY DEF Init, Fresh, Accounted, Spoken, KnownCovered, BaseByEnd, NothingElseEvaporates
<1>2. Accounted => NothingElseEvaporates
  BY DEF Accounted
<1>3. Init => Successive
  BY DEF Init, Fresh, Successive, Clocked, InWindow, ToldByEnd, ToldBefore, Told
<1> QED
  BY <1>1, <1>2, <1>3, AccountStep, SuccessiveStep, TypeCorrect, PTL DEF Spec

-----------------------------------------------------------------------------
(* The detailed run implements the scheduler's.                            *)

\* How the scheduler sees a run, by its stage.
SeenAs(session, stage) ==
    IF ~session \/ stage \in {"idle", "done"} THEN "idle"
    ELSE IF stage = "saved" THEN "saved" ELSE "working"

LEMMA SeenByStage ==
    RunSeen = [k \in Runs |-> SeenAs(run[k].session, run[k].stage)]
BY DEF RunSeen, SeenAs

\* A step of one run shows as the change of its stage.
LEMMA OneRunSeen ==
    ASSUME NEW k \in Runs, \A j \in Runs \ {k} : run'[j] = run[j]
    PROVE  RunSeen' = [RunSeen EXCEPT ![k] = SeenAs(run'[k].session, run'[k].stage)]
BY DEF RunSeen, SeenAs

LEMMA RunsSeenSame ==
    ASSUME \A k \in Runs : run'[k].session = run[k].session
                           /\ (run'[k].stage = run[k].stage \/ ~run[k].session)
    PROVE  RunSeen' = RunSeen
BY DEF RunSeen

\* Beginning a session's run is the scheduler's StartRun; any other is hidden.
LEMMA BeginSeen ==
    ASSUME TypeOK, NEW k \in Runs, NEW b \in BOOLEAN, Begin(k, b)
    PROVE  /\ b => Timer!StartRun
           /\ ~b => RunSeen' = RunSeen
<1>1. /\ run[k].stage = "idle"
      /\ run'[k].stage = "transcribing" /\ run'[k].session = b
      /\ \A j \in Runs \ {k} : run'[j] = run[j]
  BY DEF Begin, Fresh, TypeOK
<1>2. RunSeen[k] = "idle"
  BY <1>1 DEF RunSeen
<1>3. RunSeen' = [RunSeen EXCEPT ![k] = SeenAs(b, "transcribing")]
  BY <1>1, OneRunSeen
<1>4. CASE b
  <2>1. RunSeen' = [RunSeen EXCEPT ![k] = "working"]
    BY <1>3, <1>4 DEF SeenAs
  <2> QED BY <1>2, <1>4, <2>1 DEF Timer!StartRun
<1>5. CASE ~b
  <2>1. RunSeen' = [RunSeen EXCEPT ![k] = "idle"]
    BY <1>3, <1>5 DEF SeenAs
  <2>2. RunSeen' = RunSeen
    BY <1>2, <2>1 DEF RunSeen
  <2> QED BY <1>5, <2>2
<1> QED BY <1>4, <1>5

LEMMA TimerRefined == TypeOK /\ [Next]_vars => [TimerStep]_(Timer!timerVars)
<1> SUFFICES ASSUME TypeOK, [Next]_vars PROVE [TimerStep]_(Timer!timerVars)
  OBVIOUS
<1> DEFINE Step == [TimerStep]_(Timer!timerVars)
<1>0. /\ None # {} /\ now # None
      /\ phase \in {"off", "on", "grace"} /\ spinner \in BOOLEAN
      /\ run \in [Runs -> RunState]
      /\ \A k \in Runs : run[k].session \in BOOLEAN /\ run[k].stage \in Stages
  BY RecapAssumption DEF TypeOK, Times, RunState
<1>1. ASSUME UNCHANGED <<phase, started, spinner>>, RunSeen' = RunSeen PROVE Step
  BY <1>1 DEF Timer!timerVars, TimerSeen
<1>2. ASSUME UNCHANGED <<phase, started, spinner, run>> PROVE Step
  BY <1>1, <1>2 DEF RunSeen
<1>3. CASE Tick
  BY <1>2, <1>3 DEF Tick, callVars
<1>4. CASE CallBegins
  <2>1. /\ TimerSeen' = None /\ (started' # None) = TRUE /\ RunSeen' = RunSeen
        /\ spinner' = (spinner /\ TimerSeen = None)
    BY <1>0, <1>4 DEF CallBegins, Mark, TimerSeen, RunSeen
  <2>2. Timer!MarkCallStarted /\ Timer!CancelScheduledRecap
    BY <2>1 DEF Timer!MarkCallStarted, Timer!CancelScheduledRecap
  <2>3. UNCHANGED run
    BY <1>4 DEF CallBegins
  <2> QED BY <2>2, <2>3 DEF TimerStep
<1>5. CASE CallEnds
  <2>1. TimerSeen' = {} /\ spinner' = TRUE /\ UNCHANGED <<started, run>>
    BY <1>5 DEF CallEnds, TimerSeen
  <2>2. Timer!ScheduleRecap({})
    BY <2>1 DEF Timer!ScheduleRecap
  <2> QED BY <2>1, <2>2 DEF TimerStep
<1>6. CASE FieldStart
  <2>1. /\ (started' # None) = TRUE
        /\ TimerSeen' = TimerSeen /\ spinner' = spinner /\ RunSeen' = RunSeen
    BY <1>0, <1>6 DEF FieldStart, Mark, TimerSeen, RunSeen
  <2>2. Timer!FieldStart
    BY <2>1 DEF Timer!FieldStart, Timer!MarkCallStarted
  <2> QED BY <2>2 DEF TimerStep
<1>7. CASE FieldFinish
  <2>1. TimerSeen' = None /\ spinner' = TRUE /\ started' = started
    BY <1>7 DEF FieldFinish, TimerSeen
  <2>2. Timer!StartRun
    BY <1>7, BeginSeen DEF FieldFinish
  <2>3. Timer!FieldFinish
    BY <2>1, <2>2 DEF Timer!FieldFinish
  <2> QED BY <2>3 DEF TimerStep
<1>8. CASE TimerFires
  <2>1. TimerSeen # None /\ TimerSeen' = None /\ UNCHANGED <<started, spinner>>
    BY <1>0, <1>8 DEF TimerFires, TimerSeen
  <2>2. Timer!StartRun
    BY <1>8, BeginSeen DEF TimerFires
  <2>3. Timer!TimerFires
    BY <2>1, <2>2 DEF Timer!TimerFires
  <2> QED BY <2>3 DEF TimerStep
<1>9. CASE ManualRun
  <2>1. RunSeen' = RunSeen
    BY <1>9, BeginSeen DEF ManualRun
  <2> QED BY <1>1, <1>9, <2>1 DEF ManualRun, callVars
<1>10. CASE Restart
  <2>1. phase' = "off" /\ UNCHANGED <<started, spinner>>
    BY <1>10 DEF Restart
  <2>2. \A k \in Runs : run'[k].stage \in {"idle", "done"}
    <3> SUFFICES ASSUME NEW k \in Runs PROVE run'[k].stage \in {"idle", "done"}
      OBVIOUS
    <3>1. CASE run[k].stage = "idle"
      BY <1>10, <3>1 DEF Restart
    <3>2. CASE run[k].stage # "idle"
      <4>1. run'[k] = [run[k] EXCEPT !.stage = "done", !.todo = {}, !.chunk = None, !.known = {},
                                     !.left = {}, !.material = IF Told(k) THEN @ ELSE {}]
        BY <1>10, <3>2 DEF Restart
      <4> QED BY <1>0, <4>1 DEF RunState
    <3> QED BY <3>1, <3>2
  <2>3. RunSeen' = [k \in Runs |-> "idle"] /\ TimerSeen' = None
    BY <2>1, <2>2 DEF RunSeen, TimerSeen
  <2>4. TimersLost
    BY <2>1, <2>3 DEF TimersLost
  <2> QED BY <2>4 DEF TimerStep
<1>11. ASSUME NEW w \in Words, Chat(w) \/ Note(w) PROVE Step
  BY <1>2, <1>11 DEF Chat, Note, callVars
<1>12. ASSUME NEW c \in Chunks, Speak(c) \/ Upload(c) \/ LiveHears(c) PROVE Step
  BY <1>2, <1>12 DEF Speak, Upload, LiveHears, callVars
<1>13. ASSUME NEW k \in Runs, BatchHears(k) PROVE Step
  <2>1. PICK S, d : run' = [run EXCEPT ![k].todo = S, ![k].chunk = d]
    BY <1>13 DEF BatchHears
  <2>2. \A j \in Runs : run'[j].session = run[j].session /\ run'[j].stage = run[j].stage
    BY <1>0, <2>1 DEF RunState
  <2>3. RunSeen' = RunSeen
    BY <2>2, RunsSeenSame
  <2> QED BY <1>1, <1>13, <2>3 DEF BatchHears, callVars
\* A run that is neither idle nor done ends.
<1>14. ASSUME NEW k \in Runs, run[k].stage \notin {"idle", "done"},
              run' = [run EXCEPT ![k].stage = "done"], Report(k), phase' = phase,
              started' = started \/ (run[k].stage # "saved" /\ Consume(k))
       PROVE  Step
  <2>1. /\ run'[k].stage = "done" /\ run'[k].session = run[k].session
        /\ \A j \in Runs \ {k} : run'[j] = run[j]
    BY <1>0, <1>14 DEF RunState
  <2>2. CASE ~run[k].session
    <3>1. \A j \in Runs : run'[j].session = run[j].session
                          /\ (run'[j].stage = run[j].stage \/ ~run[j].session)
      BY <2>1, <2>2
    <3>2. RunSeen' = RunSeen
      BY <3>1, RunsSeenSame
    <3>3. spinner' = spinner /\ started' = started
      BY <1>0, <1>14, <2>2 DEF Report, Consume
    <3> QED BY <1>1, <1>14, <3>2, <3>3
  <2>3. CASE run[k].session
    <3>1. RunSeen' = [RunSeen EXCEPT ![k] = "idle"]
      BY <2>1, <2>3, OneRunSeen DEF SeenAs
    <3>2. RunSeen[k] = IF run[k].stage = "saved" THEN "saved" ELSE "working"
      BY <1>14, <2>3 DEF RunSeen
    <3>3. spinner' = FALSE /\ TimerSeen' = TimerSeen
      BY <1>14, <2>3 DEF Report, TimerSeen
    <3>4. \/ RunSeen[k] = "saved" /\ (started' # None) = (started # None)
          \/ RunSeen[k] = "working" /\ (started' # None) \in {started # None, FALSE}
      BY <1>14, <2>3, <3>2 DEF Consume
    <3>5. Timer!RunEnds(k)
      BY <3>1, <3>3, <3>4 DEF Timer!RunEnds
    <3> QED BY <3>5 DEF TimerStep
  <2> QED BY <1>0, <2>2, <2>3
<1>15. ASSUME NEW k \in Runs, NEW M, NEW K, NEW L, Store(k, M, K, L), phase' = phase,
              run[k].stage \in {"transcribing", "extracting"}
       PROVE  Step
  <2>1. /\ run'[k].stage = "saved" /\ run'[k].session = run[k].session
        /\ \A j \in Runs \ {k} : run'[j] = run[j]
    BY <1>0, <1>15 DEF Store, RunState
  <2>2. CASE ~run[k].session
    <3>1. \A j \in Runs : run'[j].session = run[j].session
                          /\ (run'[j].stage = run[j].stage \/ ~run[j].session)
      BY <2>1, <2>2
    <3>2. RunSeen' = RunSeen
      BY <3>1, RunsSeenSame
    <3>3. spinner' = spinner /\ started' = started
      BY <1>15, <2>2 DEF Store, Consume
    <3> QED BY <1>1, <1>15, <3>2, <3>3
  <2>3. CASE run[k].session
    <3>1. RunSeen' = [RunSeen EXCEPT ![k] = "saved"]
      BY <2>1, <2>3, OneRunSeen DEF SeenAs
    <3>2. RunSeen[k] = "working"
      BY <1>15, <2>3 DEF RunSeen
    <3>3. spinner' = spinner /\ TimerSeen' = TimerSeen /\ (started' # None) = FALSE
      BY <1>15, <2>3 DEF Store, Consume, TimerSeen
    <3>4. Timer!RunSaves(k)
      BY <3>1, <3>2, <3>3 DEF Timer!RunSaves
    <3> QED BY <3>4 DEF TimerStep
  <2> QED BY <1>0, <2>2, <2>3
<1>16. ASSUME NEW k \in Runs, Read(k) PROVE Step
  <2>1. phase' = phase /\ run[k].stage = "transcribing"
    BY <1>16 DEF Read, Rushing
  <2>5. PICK M \in SUBSET Items :
          \/ \E L : Store(k, M, Readable, L)
          \/ Skip(k) /\ (started' = started \/ Consume(k))
          \/ UNCHANGED <<started, spinner>> /\ \E L :
                run' = [run EXCEPT ![k].stage = "extracting", ![k].material = M,
                                   ![k].known = Readable, ![k].left = L]
    BY <1>16, ReadDoes
  <2>2. CASE \E L : Store(k, M, Readable, L)
    BY <1>15, <2>1, <2>2
  <2>3. CASE Skip(k) /\ (started' = started \/ Consume(k))
    BY <1>14, <2>1, <2>3 DEF Skip
  <2>4. CASE UNCHANGED <<started, spinner>> /\ \E L :
                run' = [run EXCEPT ![k].stage = "extracting", ![k].material = M,
                                   ![k].known = Readable, ![k].left = L]
    <3>1. /\ run'[k].stage = "extracting" /\ run'[k].session = run[k].session
          /\ \A j \in Runs \ {k} : run'[j] = run[j]
      BY <1>0, <2>4 DEF RunState
    <3>2. RunSeen' = RunSeen
      BY <2>1, <3>1 DEF RunSeen
    <3> QED BY <1>1, <2>1, <2>4, <3>2
  <2> QED BY <2>2, <2>3, <2>4, <2>5
<1>17. ASSUME NEW k \in Runs, Extracted(k) PROVE Step
  BY <1>15, <1>17 DEF Extracted
<1>18. ASSUME NEW k \in Runs, Delivered(k) PROVE Step
  BY <1>14, <1>18 DEF Delivered
<1>19. CASE UNCHANGED vars
  BY <1>2, <1>19 DEF vars, callVars
<1> QED
  BY <1>3, <1>4, <1>5, <1>6, <1>7, <1>8, <1>9, <1>10, <1>11, <1>12, <1>13, <1>16, <1>17,
     <1>18, <1>19 DEF Next

\* The run of the pipeline does to the timer, the session and the spinner only
\* what the scheduler's run of three stages does.
THEOREM TimerImplemented == Spec => ImplementsTimer
BY TimerRefined, TypeCorrect, PTL DEF Spec, ImplementsTimer
=============================================================================

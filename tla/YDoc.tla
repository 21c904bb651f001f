-------------------------------- MODULE YDoc --------------------------------
(***************************************************************************)
(* One collaborative document (server/src/ydoc.ts): the copy the server    *)
(* keeps in memory, its .bin file, and the tabs that edit it over          *)
(* WebSockets.  The file is written 1500 ms after the last update and read *)
(* when a tab opens a room that is not in memory.                          *)
(*                                                                         *)
(* A Yjs document is the set of edits it has merged; a state vector is the *)
(* set of edits its sender has.  The tabs (y-websocket) are external: they *)
(* reconnect by themselves and keep what was typed while they were off     *)
(* line.  Cursors (awareness) are left out.                                *)
(***************************************************************************)
EXTENDS Integers, FiniteSets, Sequences

CONSTANTS
    Tabs,           \* browser tabs
    Edits,          \* edits; each is made once, by any tab
    None,           \* no file
    Torn,           \* a file whose writing was cut short
    MaxFaults       \* bound: crashes, lost connections and failed writes

ASSUME YDocAssumption ==
    /\ \A S \in SUBSET Edits : S # None /\ S # Torn
    /\ None # Torn
    /\ MaxFaults \in Nat

VARIABLES
    doc,        \* what the latest SharedDoc of the room has merged
    listed,     \* whether docs, the map of open rooms, has it
    timer,      \* whether its saveTimer is set
    disk,       \* the .bin file
    tab,        \* tab[c]: whether tab c is open
    local,      \* local[c]: what its Y.Doc has merged
    conn,       \* conn[c]: whether it is connected, and in doc.conns
    toServer,   \* toServer[c], toClient[c]: messages under way, in order
    toClient,
    faults,     \* bound
    made,       \* history: the edits made
    purged,     \* history, and a bound: a room is purged once
    gone,       \* history: edits no tab had when the room was purged
    failed      \* history: the last write of the file has failed

serverVars == <<doc, listed, timer, disk>>
netVars == <<conn, toServer, toClient>>
history == <<made, purged, gone, failed>>
vars == <<serverVars, tab, local, netVars, faults, history>>

\* sync step 1 asks for what is not in "edits"; step 2 and updates put them.
Message == [kind : {"ask", "put"}, edits : SUBSET Edits]
Ask(S) == [kind |-> "ask", edits |-> S]
Put(S) == [kind |-> "put", edits |-> S]

TypeOK ==
    /\ doc \subseteq Edits
    /\ listed \in BOOLEAN
    /\ timer \in BOOLEAN /\ (timer => listed)
    /\ disk \in {None, Torn} \/ disk \in SUBSET Edits
    /\ tab \in [Tabs -> BOOLEAN]
    /\ local \in [Tabs -> SUBSET Edits]
    /\ conn \in [Tabs -> BOOLEAN]
    /\ toServer \in [Tabs -> Seq(Message)]
    /\ toClient \in [Tabs -> Seq(Message)]
    /\ faults \in 0 .. MaxFaults
    /\ made \subseteq Edits
    /\ purged \in BOOLEAN
    /\ gone \subseteq made
    /\ failed \in BOOLEAN

Silent == [c \in Tabs |-> << >>]

Init ==
    /\ doc = {} /\ listed = FALSE /\ timer = FALSE /\ disk = None
    /\ tab = [c \in Tabs |-> FALSE]
    /\ local = [c \in Tabs |-> {}]
    /\ conn = [c \in Tabs |-> FALSE]
    /\ toServer = Silent /\ toClient = Silent
    /\ faults = 0
    /\ made = {} /\ purged = FALSE /\ gone = {} /\ failed = FALSE

\* What can be read back from the file.
Saved == IF disk \in {None, Torn} THEN {} ELSE disk

Fault ==
    /\ faults < MaxFaults
    /\ faults' = faults + 1

-----------------------------------------------------------------------------
(* The tabs.                                                               *)

OpenTab(c) ==
    /\ ~tab[c]
    /\ tab' = [tab EXCEPT ![c] = TRUE]
    /\ UNCHANGED <<serverVars, local, netVars, faults, history>>

\* What the tab has not sent is lost with it.
CloseTab(c) ==
    /\ tab[c]
    /\ tab' = [tab EXCEPT ![c] = FALSE]
    /\ local' = [local EXCEPT ![c] = {}]
    /\ conn' = [conn EXCEPT ![c] = FALSE]
    /\ toServer' = [toServer EXCEPT ![c] = << >>]
    /\ toClient' = [toClient EXCEPT ![c] = << >>]
    /\ UNCHANGED <<serverVars, faults, history>>

Edit(c, e) ==
    /\ tab[c]
    /\ e \notin made
    /\ made' = made \cup {e}
    /\ local' = [local EXCEPT ![c] = @ \cup {e}]
    /\ toServer' = IF conn[c] THEN [toServer EXCEPT ![c] = Append(@, Put({e}))] ELSE toServer
    /\ UNCHANGED <<serverVars, tab, conn, toClient, faults, purged, gone, failed>>

\* A tab answers a question and merges what it is sent.
ClientStep(c) ==
    /\ toClient[c] # << >>
    /\ toClient' = [toClient EXCEPT ![c] = Tail(@)]
    /\ LET m == Head(toClient[c])
       IN  \/ /\ m.kind = "ask"
              /\ toServer' = [toServer EXCEPT ![c] = Append(@, Put(local[c] \ m.edits))]
              /\ UNCHANGED local
           \/ /\ m.kind = "put"
              /\ local' = [local EXCEPT ![c] = @ \cup m.edits]
              /\ UNCHANGED toServer
    /\ UNCHANGED <<serverVars, tab, conn, faults, history>>

-----------------------------------------------------------------------------
(* The server.                                                             *)

\* Mutant: the document starts empty and nothing is read.
StartEmpty == {}

\* getYDoc: a room that is not open is read from its file; what cannot be
\* parsed counts for nothing.
Load == Saved

\* Mutant: the server does not ask what the tab has.
GreetNothing(c, content) == << >>

\* setupConn greets a connection with sync step 1.
Greet(c, content) == <<Ask(content)>>

\* A tab connects: setupConn, and the tab's own first message.  The observer of the
\* document is there before the file is read, so that what is read is an update too
\* and has itself saved again.
Connect(c) ==
    /\ tab[c] /\ ~conn[c]
    /\ conn' = [conn EXCEPT ![c] = TRUE]
    /\ listed' = TRUE
    /\ doc' = IF listed THEN doc ELSE Load
    /\ toClient' = [toClient EXCEPT ![c] = Greet(c, doc')]
    /\ toServer' = [toServer EXCEPT ![c] = <<Ask(local[c])>>]
    /\ timer' = (timer \/ (~listed /\ doc' # {}))
    /\ UNCHANGED <<disk, tab, local, faults, history>>

\* Mutant: what is merged is saved only if there is somebody to send it to.
ArmedForOthers(c) == timer \/ \E d \in Tabs \ {c} : conn[d]

\* scheduleSave: any change sets the timer again.
Armed(c) == TRUE

\* messageListener.  A question is answered with what is missing.  An update is
\* merged; if it changes the document it is sent to every connection, its
\* sender's too, and the file is scheduled.
ServerStep(c) ==
    /\ toServer[c] # << >>
    /\ toServer' = [toServer EXCEPT ![c] = Tail(@)]
    /\ LET m == Head(toServer[c])
           new == m.edits \ doc
       IN  \/ /\ m.kind = "ask"
              /\ toClient' = [toClient EXCEPT ![c] = Append(@, Put(doc \ m.edits))]
              /\ UNCHANGED <<doc, timer>>
           \/ /\ m.kind = "put" /\ new # {}
              /\ doc' = doc \cup new
              /\ toClient' = [d \in Tabs |-> IF conn[d] THEN Append(toClient[d], Put(new))
                                             ELSE toClient[d]]
              /\ timer' = Armed(c)
           \/ /\ m.kind = "put" /\ new = {}
              /\ UNCHANGED <<doc, toClient, timer>>
    /\ UNCHANGED <<listed, disk, tab, local, conn, faults, history>>

\* The timer of scheduleSave fires.
Save ==
    /\ timer
    /\ timer' = FALSE
    /\ disk' = doc
    /\ failed' = FALSE
    /\ UNCHANGED <<doc, listed, tab, local, netVars, faults, made, purged, gone>>

\* writeFileSync opens the file, which empties it, and then writes: one that throws
\* has left it as it was or torn.
WriteThrows ==
    /\ disk' \in {disk, Torn}
    /\ failed' = TRUE

\* The write of the timer throws: nothing tries again before the next update.
SaveFails ==
    /\ Fault
    /\ timer
    /\ timer' = FALSE
    /\ WriteThrows
    /\ UNCHANGED <<doc, listed, tab, local, netVars, made, purged, gone>>

\* SIGINT: every open room is written; the handler ends nothing.
Flush ==
    /\ listed
    /\ disk' = doc
    /\ failed' = FALSE
    /\ UNCHANGED <<doc, listed, timer, tab, local, netVars, faults, made, purged, gone>>

FlushFails ==
    /\ Fault
    /\ listed
    /\ WriteThrows
    /\ UNCHANGED <<doc, listed, timer, tab, local, netVars, made, purged, gone>>

AllDown ==
    /\ conn' = [c \in Tabs |-> FALSE]
    /\ toServer' = Silent
    /\ toClient' = Silent

\* Mutant: the timer of the document that is deleted is left.
PurgeKeepsTimer ==
    /\ ~purged /\ listed
    /\ purged' = TRUE
    /\ listed' = FALSE
    /\ disk' = None
    /\ AllDown
    /\ gone' = made \ UNION {local[c] : c \in Tabs}
    /\ failed' = FALSE
    /\ UNCHANGED <<doc, timer, tab, local, faults, made>>

\* deleteYdoc: connections are closed, the document leaves memory, its timer is
\* cleared and the file removed.  Until they have closed, messages of the
\* connections reach a document that has no observers any more.
Purge ==
    /\ ~purged
    /\ purged' = TRUE
    /\ listed' = FALSE
    /\ timer' = FALSE
    /\ disk' = None
    /\ AllDown
    /\ gone' = made \ UNION {local[c] : c \in Tabs}
    /\ failed' = FALSE
    /\ UNCHANGED <<doc, tab, local, faults, made>>

\* The connection is lost, or does not answer a ping (closeConn).
Drop(c) ==
    /\ Fault
    /\ conn[c]
    /\ conn' = [conn EXCEPT ![c] = FALSE]
    /\ toServer' = [toServer EXCEPT ![c] = << >>]
    /\ toClient' = [toClient EXCEPT ![c] = << >>]
    /\ UNCHANGED <<serverVars, tab, local, history>>

\* The server stops and starts again; a file it was writing is torn.
Crash ==
    /\ Fault
    /\ listed' = FALSE
    /\ doc' = {}
    /\ timer' = FALSE
    /\ disk' \in {disk} \cup (IF listed THEN {Torn} ELSE {})
    /\ AllDown
    /\ UNCHANGED <<tab, local, history>>

Next ==
    \/ \E c \in Tabs : \/ OpenTab(c) \/ CloseTab(c) \/ Connect(c) \/ Drop(c)
                       \/ ClientStep(c) \/ ServerStep(c)
                       \/ \E e \in Edits : Edit(c, e)
    \/ Save \/ SaveFails \/ Flush \/ FlushFails
    \/ Purge
    \/ Crash

\* Messages are handled, the timer fires, and a tab that is open connects again.
Fairness ==
    /\ WF_vars(Save)
    /\ \A c \in Tabs :
          WF_vars(Connect(c)) /\ WF_vars(ClientStep(c)) /\ WF_vars(ServerStep(c))

Spec == Init /\ [][Next]_vars /\ Fairness

-----------------------------------------------------------------------------
(* Properties.                                                             *)

\* Once nothing is under way, everybody who is connected sees one document, and
\* it is the server's: what was typed off line has been exchanged both ways.
Converged ==
    (\A c \in Tabs : toServer[c] = << >> /\ toClient[c] = << >>)
        => \A c \in Tabs : conn[c] => local[c] = doc

\* An edit that no tab had any more when the room was purged never comes back to
\* the disk.  (What a tab had open does: the tab connects again and sends it.)
GoneStaysGone == Saved \cap gone = {}

\* The file never loses an edit, over restarts, rooms opened and saved again,
\* except to a purge or to a write that was cut short.
SavedStays ==
    [][disk' \in {None, Torn} \/ Saved \subseteq Saved']_vars

\* Once nothing is under way and no save is due, the file has whatever anybody who is
\* connected has typed or read, unless its last write has failed: no merge forgets
\* to set the timer, and none is lost between two saves.
RestIsSaved ==
    (\A c \in Tabs : toServer[c] = << >> /\ toClient[c] = << >>) /\ ~timer /\ ~failed
        => \A c \in Tabs : conn[c] => local[c] \subseteq Saved

\* What a tab keeps open gets into the file for good, whatever connections and
\* servers were lost in between, unless the last write of the file has failed.
Durable ==
    \A e \in Edits :
        <>[](\E c \in Tabs : tab[c] /\ e \in local[c]) => <>[](e \in Saved \/ failed)
=============================================================================

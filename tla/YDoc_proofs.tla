----------------------------- MODULE YDoc_proofs -----------------------------
(***************************************************************************)
(* What holds of a collaborative document for any number of tabs, edits,   *)
(* crashes, lost connections and failed writes.                            *)
(***************************************************************************)
EXTENDS YDoc, TLAPS

\* The messages of a queue.
In(q) == {q[i] : i \in DOMAIN q}

LEMMA InAppend ==
    ASSUME NEW S, NEW q \in Seq(S), NEW m \in S
    PROVE  Append(q, m) \in Seq(S) /\ In(Append(q, m)) = In(q) \cup {m}
<1>1. /\ Append(q, m) \in Seq(S) /\ Len(Append(q, m)) = Len(q) + 1
      /\ \A i \in 1 .. Len(q) : Append(q, m)[i] = q[i]
      /\ Append(q, m)[Len(q) + 1] = m
  OBVIOUS
<1>2. Len(q) \in Nat /\ DOMAIN q = 1 .. Len(q) /\ DOMAIN Append(q, m) = 1 .. Len(q) + 1
  BY <1>1
<1>3. ASSUME NEW x \in In(Append(q, m)) PROVE x \in In(q) \cup {m}
  <2>1. PICK i \in 1 .. Len(q) + 1 : x = Append(q, m)[i]
    BY <1>2 DEF In
  <2>2. i \in 1 .. Len(q) \/ i = Len(q) + 1
    BY <1>2
  <2> QED BY <1>1, <1>2, <2>1, <2>2 DEF In
<1>4. ASSUME NEW x \in In(q) PROVE x \in In(Append(q, m))
  <2>1. PICK i \in 1 .. Len(q) : x = q[i]
    BY <1>2 DEF In
  <2>2. i \in 1 .. Len(q) + 1
    BY <1>2
  <2> QED BY <1>1, <1>2, <2>1, <2>2 DEF In
<1>5. m \in In(Append(q, m))
  <2>1. Len(q) + 1 \in 1 .. Len(q) + 1
    BY <1>2
  <2> QED BY <1>1, <1>2, <2>1 DEF In
<1> QED BY <1>1, <1>3, <1>4, <1>5

LEMMA InTail ==
    ASSUME NEW S, NEW q \in Seq(S), q # << >>
    PROVE  Head(q) \in S /\ Tail(q) \in Seq(S) /\ In(q) = {Head(q)} \cup In(Tail(q))
<1>1. /\ Head(q) = q[1] /\ Head(q) \in S /\ Tail(q) \in Seq(S)
      /\ Len(q) \in Nat \ {0} /\ Len(Tail(q)) = Len(q) - 1
      /\ \A i \in 1 .. Len(Tail(q)) : Tail(q)[i] = q[i + 1]
  OBVIOUS
<1>2. DOMAIN q = 1 .. Len(q) /\ DOMAIN Tail(q) = 1 .. Len(q) - 1
  BY <1>1
<1>3. ASSUME NEW x \in In(q) PROVE x \in {Head(q)} \cup In(Tail(q))
  <2>1. PICK i \in 1 .. Len(q) : x = q[i]
    BY <1>2 DEF In
  <2>2. i = 1 \/ (i - 1 \in 1 .. Len(q) - 1 /\ (i - 1) + 1 = i)
    BY <1>1
  <2>3. ASSUME i # 1 PROVE x = Tail(q)[i - 1]
    BY <1>1, <2>1, <2>2, <2>3
  <2> QED BY <1>1, <1>2, <2>1, <2>2, <2>3 DEF In
<1>4. ASSUME NEW x \in In(Tail(q)) PROVE x \in In(q)
  <2>1. PICK i \in 1 .. Len(q) - 1 : x = Tail(q)[i]
    BY <1>2 DEF In
  <2>2. x = q[i + 1] /\ i + 1 \in 1 .. Len(q)
    BY <1>1, <2>1
  <2> QED BY <1>2, <2>2 DEF In
<1>5. Head(q) \in In(q)
  <2>1. 1 \in 1 .. Len(q)
    BY <1>1
  <2> QED BY <1>1, <1>2, <2>1 DEF In
<1> QED BY <1>1, <1>3, <1>4, <1>5

LEMMA InEmpty == In(<< >>) = {}
BY DEF In

LEMMA InOne == ASSUME NEW S, NEW m \in S PROVE <<m>> \in Seq(S) /\ In(<<m>>) = {m}
<1>1. <<m>> \in Seq(S) /\ DOMAIN <<m>> = {1} /\ <<m>>[1] = m
  OBVIOUS
<1> QED BY <1>1 DEF In

\* What a message is made of.
LEMMA MessageType ==
    /\ \A S \in SUBSET Edits :
          /\ Ask(S) \in Message /\ Ask(S).kind = "ask" /\ Ask(S).edits = S
          /\ Put(S) \in Message /\ Put(S).kind = "put" /\ Put(S).edits = S
    /\ \A m \in Message : m.kind \in {"ask", "put"} /\ m.edits \subseteq Edits
BY DEF Message, Ask, Put

LEMMA FileIsNoMark == \A S \in SUBSET Edits : S \notin {None, Torn}
BY YDocAssumption

-----------------------------------------------------------------------------
(* Types.                                                                  *)

\* Only a connected tab has messages under way, and only to a room that is open.
LinksListed ==
    \A c \in Tabs : /\ conn[c] => tab[c] /\ listed
                    /\ ~conn[c] => toServer[c] = << >> /\ toClient[c] = << >>

TypeInv == TypeOK /\ LinksListed

LEMMA SavedType == TypeOK => Saved \in SUBSET Edits
BY DEF TypeOK, Saved

LEMMA TypeStep == TypeInv /\ [Next]_vars => TypeInv'
<1> SUFFICES ASSUME TypeInv, [Next]_vars PROVE TypeInv'
  OBVIOUS
<1>0. << >> \in Seq(Message) /\ Silent \in [Tabs -> Seq(Message)]
  BY DEF Silent
<1> USE YDocAssumption DEF serverVars, netVars, history
<1>1. ASSUME NEW c \in Tabs, OpenTab(c) PROVE TypeInv'
  BY <1>1 DEF OpenTab, TypeInv, TypeOK, LinksListed
<1>2. ASSUME NEW c \in Tabs, CloseTab(c) PROVE TypeInv'
  BY <1>0, <1>2 DEF CloseTab, TypeInv, TypeOK, LinksListed
<1>3. ASSUME NEW c \in Tabs, NEW e \in Edits, Edit(c, e) PROVE TypeInv'
  <2>1. Append(toServer[c], Put({e})) \in Seq(Message)
    BY MessageType, InAppend DEF TypeInv, TypeOK
  <2>2. toServer' \in [Tabs -> Seq(Message)] /\ made' \subseteq Edits /\ gone' \subseteq made'
    BY <1>3, <2>1 DEF Edit, TypeInv, TypeOK
  <2>3. LinksListed'
    BY <1>3 DEF Edit, TypeInv, TypeOK, LinksListed
  <2>4. local' \in [Tabs -> SUBSET Edits]
    BY <1>3 DEF Edit, TypeInv, TypeOK
  <2> QED BY <1>3, <2>2, <2>3, <2>4 DEF Edit, TypeInv, TypeOK
<1>4. ASSUME NEW c \in Tabs, ClientStep(c) PROVE TypeInv'
  <2> DEFINE m == Head(toClient[c])
  <2>1. m \in Message /\ Tail(toClient[c]) \in Seq(Message) /\ conn[c]
    BY <1>4, InTail DEF ClientStep, TypeInv, TypeOK, LinksListed
  <2>2. m.edits \in SUBSET Edits /\ local[c] \in SUBSET Edits
    BY <2>1, MessageType DEF TypeInv, TypeOK
  <2>3. Append(toServer[c], Put(local[c] \ m.edits)) \in Seq(Message)
    BY <2>2, MessageType, InAppend DEF TypeInv, TypeOK
  <2>4. toServer' \in [Tabs -> Seq(Message)] /\ toClient' \in [Tabs -> Seq(Message)]
    BY <1>4, <2>1, <2>3 DEF ClientStep, TypeInv, TypeOK
  <2>5. local' \in [Tabs -> SUBSET Edits]
    BY <1>4, <2>2 DEF ClientStep, TypeInv, TypeOK
  <2>6. \A d \in Tabs : d # c => toServer'[d] = toServer[d] /\ toClient'[d] = toClient[d]
    BY <1>4 DEF ClientStep, TypeInv, TypeOK
  <2>7. UNCHANGED <<doc, listed, timer, disk, tab, conn, faults, made, purged, gone, failed>>
    BY <1>4 DEF ClientStep
  <2> QED BY <2>1, <2>4, <2>5, <2>6, <2>7 DEF TypeInv, TypeOK, LinksListed
<1>5. ASSUME NEW c \in Tabs, Connect(c) PROVE TypeInv'
  <2>1. doc' \in SUBSET Edits
    BY <1>5, SavedType DEF Connect, Load, TypeInv, TypeOK
  <2>2. Greet(c, doc') \in Seq(Message) /\ <<Ask(local[c])>> \in Seq(Message)
    BY <2>1, MessageType, InOne DEF Greet, TypeInv, TypeOK
  <2>3. toServer' \in [Tabs -> Seq(Message)] /\ toClient' \in [Tabs -> Seq(Message)]
    BY <1>5, <2>2 DEF Connect, TypeInv, TypeOK
  <2>4. LinksListed'
    BY <1>5 DEF Connect, TypeInv, TypeOK, LinksListed
  <2>5. timer' \in BOOLEAN /\ listed' = TRUE
    BY <1>5, <2>1, Zenon DEF Connect, TypeInv, TypeOK
  <2> QED BY <1>5, <2>1, <2>3, <2>4, <2>5 DEF Connect, TypeInv, TypeOK
<1>6. ASSUME NEW c \in Tabs, ServerStep(c) PROVE TypeInv'
  <2> DEFINE m == Head(toServer[c])
             new == m.edits \ doc
  <2>1. m \in Message /\ Tail(toServer[c]) \in Seq(Message) /\ conn[c] /\ listed
    BY <1>6, InTail DEF ServerStep, TypeInv, TypeOK, LinksListed
  <2>2. m.edits \in SUBSET Edits /\ new \in SUBSET Edits /\ doc \in SUBSET Edits
    BY <2>1, MessageType DEF TypeInv, TypeOK
  <2>3. ASSUME NEW d \in Tabs
        PROVE  /\ Append(toClient[d], Put(doc \ m.edits)) \in Seq(Message)
               /\ Append(toClient[d], Put(new)) \in Seq(Message)
    BY <2>2, MessageType, InAppend DEF TypeInv, TypeOK
  <2>4. toServer' \in [Tabs -> Seq(Message)]
    BY <1>6, <2>1 DEF ServerStep, TypeInv, TypeOK
  <2>5. toClient' \in [Tabs -> Seq(Message)]
    BY <1>6, <2>3 DEF ServerStep, TypeInv, TypeOK
  <2>6. \A d \in Tabs : ~conn[d] => toClient'[d] = toClient[d] /\ toServer'[d] = toServer[d]
    BY <1>6, <2>1 DEF ServerStep, TypeInv, TypeOK
  <2>7. /\ doc' \in SUBSET Edits /\ timer' \in BOOLEAN
        /\ UNCHANGED <<listed, disk, tab, local, conn, faults, made, purged, gone, failed>>
    BY <1>6, <2>2 DEF ServerStep, Armed, TypeInv, TypeOK
  <2> QED BY <2>1, <2>4, <2>5, <2>6, <2>7 DEF TypeInv, TypeOK, LinksListed
<1>7. CASE Save \/ SaveFails \/ Flush \/ FlushFails
  <2>1. /\ timer' = FALSE \/ timer' = timer
        /\ disk' = disk \/ disk' = doc \/ disk' = Torn
        /\ failed' \in BOOLEAN
        /\ UNCHANGED <<doc, listed, tab, local, conn, toServer, toClient, made, purged, gone>>
    BY <1>7 DEF Save, SaveFails, Flush, FlushFails, WriteThrows
  <2>2. faults' \in 0 .. MaxFaults
    BY <1>7 DEF Save, SaveFails, Flush, FlushFails, Fault, TypeInv, TypeOK
  <2>3. disk' \in {None, Torn} \/ disk' \in SUBSET Edits
    BY <2>1 DEF TypeInv, TypeOK
  <2>4. LinksListed'
    BY <2>1 DEF TypeInv, LinksListed
  <2>5. timer' \in BOOLEAN /\ (timer' => listed')
    <3>1. timer \in BOOLEAN /\ (timer => listed) /\ listed' = listed
      BY <2>1 DEF TypeInv, TypeOK
    <3>2. CASE timer' = FALSE
      BY <3>2
    <3>3. CASE timer' = timer
      BY <3>1, <3>3, Zenon
    <3> QED BY <2>1, <3>2, <3>3
  <2> QED BY <2>1, <2>2, <2>3, <2>4, <2>5 DEF TypeInv, TypeOK
<1>8. CASE Purge
  BY <1>0, <1>8 DEF Purge, AllDown, Silent, TypeInv, TypeOK, LinksListed
<1>9. ASSUME NEW c \in Tabs, Drop(c) PROVE TypeInv'
  BY <1>0, <1>9 DEF Drop, Fault, TypeInv, TypeOK, LinksListed
<1>10. CASE Crash
  <2>1. /\ doc' = {} /\ listed' = FALSE /\ timer' = FALSE
        /\ disk' = disk \/ disk' = Torn
        /\ conn' = [c \in Tabs |-> FALSE] /\ toServer' = Silent /\ toClient' = Silent
        /\ UNCHANGED <<tab, local, made, purged, gone, failed>>
    BY <1>10 DEF Crash, AllDown
  <2>2. faults' \in 0 .. MaxFaults
    BY <1>10 DEF Crash, Fault, TypeInv, TypeOK
  <2>3. disk' \in {None, Torn} \/ disk' \in SUBSET Edits
    BY <2>1 DEF TypeInv, TypeOK
  <2>4. LinksListed'
    BY <2>1 DEF Silent, LinksListed
  <2> QED BY <1>0, <2>1, <2>2, <2>3, <2>4 DEF TypeInv, TypeOK
<1>11. CASE UNCHANGED vars
  BY <1>11 DEF vars, TypeInv, TypeOK, LinksListed
<1> QED
  BY <1>1, <1>2, <1>3, <1>4, <1>5, <1>6, <1>7, <1>8, <1>9, <1>10, <1>11 DEF Next

LEMMA InitInv == Init => TypeInv
<1> SUFFICES ASSUME Init PROVE TypeInv
  OBVIOUS
<1>1. Silent \in [Tabs -> Seq(Message)]
  BY DEF Silent
<1>2. /\ doc = {} /\ made = {} /\ gone = {} /\ faults = 0 /\ 0 \in 0 .. MaxFaults
      /\ listed = FALSE /\ timer = FALSE /\ purged = FALSE /\ failed = FALSE /\ disk = None
      /\ tab = [c \in Tabs |-> FALSE] /\ conn = [c \in Tabs |-> FALSE]
      /\ local = [c \in Tabs |-> {}] /\ toServer = Silent /\ toClient = Silent
  BY YDocAssumption DEF Init
<1>3. LinksListed
  BY <1>2 DEF LinksListed, Silent
<1> QED BY <1>1, <1>2, <1>3 DEF TypeInv, TypeOK

\* The variables keep their types (ydoc.ts): only a room that is open has a timer.
THEOREM TypeCorrect == Spec => []TypeOK
<1>1. TypeInv => TypeOK
  BY DEF TypeInv
<1> QED BY <1>1, InitInv, TypeStep, PTL DEF Spec

-----------------------------------------------------------------------------
(* The file.                                                               *)

\* What is saved is in the document as long as the room is open.
OpenHoldsSaved == listed => Saved \subseteq doc

LEMMA SavedAfter ==
    ASSUME TypeInv PROVE /\ disk' = disk => Saved' = Saved
                         /\ disk' = doc => Saved' = doc
                         /\ disk' \in {None, Torn} => Saved' = {}
BY FileIsNoMark DEF Saved, TypeInv, TypeOK

\* How a step changes the file and the room.
LEMMA FileStep ==
    ASSUME TypeInv, OpenHoldsSaved, [Next]_vars
    PROVE  OpenHoldsSaved' /\ (disk' \in {None, Torn} \/ Saved \subseteq Saved')
<1> USE DEF serverVars, netVars, history, OpenHoldsSaved
<1>1. ASSUME disk' = disk, doc \subseteq doc', listed' = listed
      PROVE  OpenHoldsSaved' /\ Saved \subseteq Saved'
  BY <1>1, SavedAfter
<1>2. ASSUME NEW c \in Tabs, NEW e \in Edits,
             OpenTab(c) \/ CloseTab(c) \/ Edit(c, e) \/ Drop(c) \/ ClientStep(c)
      PROVE  disk' = disk /\ doc \subseteq doc' /\ listed' = listed
  BY <1>2 DEF OpenTab, CloseTab, Edit, Drop, ClientStep
<1>3. ASSUME NEW c \in Tabs, ServerStep(c)
      PROVE  disk' = disk /\ doc \subseteq doc' /\ listed' = listed
  BY <1>3 DEF ServerStep
<1>4. ASSUME NEW c \in Tabs, Connect(c)
      PROVE  OpenHoldsSaved' /\ Saved \subseteq Saved'
  BY <1>4, SavedAfter DEF Connect, Load
<1>5. CASE Save \/ Flush
  <2>1. listed /\ disk' = doc /\ doc' = doc
    BY <1>5 DEF Save, Flush, TypeInv, TypeOK
  <2> QED BY <2>1, SavedAfter
<1>6. CASE SaveFails \/ FlushFails
  <2>1. disk' \in {disk, Torn} /\ doc' = doc /\ listed' = listed
    BY <1>6 DEF SaveFails, FlushFails, WriteThrows
  <2> QED BY <1>1, <2>1, SavedAfter
<1>7. CASE Purge
  BY <1>7, SavedAfter DEF Purge
<1>8. CASE Crash
  BY <1>8, SavedAfter DEF Crash
<1>9. CASE UNCHANGED vars
  BY <1>1, <1>9 DEF vars
<1>10. ASSUME NEW c \in Tabs, OpenTab(c) \/ CloseTab(c) \/ Drop(c) \/ ClientStep(c)
       PROVE  disk' = disk /\ doc \subseteq doc' /\ listed' = listed
  BY <1>10 DEF OpenTab, CloseTab, Drop, ClientStep
<1> HIDE DEF serverVars, netVars, history, OpenHoldsSaved
<1> QED
  BY <1>1, <1>2, <1>3, <1>4, <1>5, <1>6, <1>7, <1>8, <1>9, <1>10 DEF Next

\* The file loses nothing but to a purge or to a torn write, over any number of
\* crashes, failed writes, and rooms closed and opened again (ydoc.ts, getYDoc and
\* scheduleSave).
THEOREM SavedEditsStay == Spec => SavedStays
<1>1. Init => OpenHoldsSaved
  BY DEF Init, OpenHoldsSaved
<1>2. TypeInv /\ OpenHoldsSaved /\ [Next]_vars => OpenHoldsSaved'
  BY FileStep
<1>3. TypeInv /\ OpenHoldsSaved /\ [Next]_vars
        => [disk' \in {None, Torn} \/ Saved \subseteq Saved']_vars
  BY FileStep
<1> QED BY <1>1, <1>2, <1>3, InitInv, TypeStep, PTL DEF Spec, SavedStays

-----------------------------------------------------------------------------
(* What has been purged.                                                   *)

\* Neither the room, nor a tab, nor a message has what is gone.
NobodyHasGone ==
    /\ ~purged => gone = {}
    /\ Saved \cap gone = {}
    /\ listed => doc \cap gone = {}
    /\ \A c \in Tabs :
          /\ local[c] \cap gone = {}
          /\ \A m \in In(toServer[c]) \cup In(toClient[c]) :
                m.kind = "put" => m.edits \cap gone = {}

LEMMA GoneStep ==
    ASSUME TypeInv, OpenHoldsSaved, NobodyHasGone, [Next]_vars PROVE NobodyHasGone'
<1> USE DEF serverVars, netVars, history
<1>0. /\ Saved \in SUBSET Edits /\ doc \in SUBSET Edits /\ gone \subseteq made
      /\ \A c \in Tabs : /\ local[c] \in SUBSET Edits
                         /\ toServer[c] \in Seq(Message) /\ toClient[c] \in Seq(Message)
      /\ local \in [Tabs -> SUBSET Edits]
      /\ toServer \in [Tabs -> Seq(Message)] /\ toClient \in [Tabs -> Seq(Message)]
  BY SavedType DEF TypeInv, TypeOK
<1>1. ASSUME NEW c \in Tabs, OpenTab(c) PROVE NobodyHasGone'
  BY <1>1, SavedAfter DEF OpenTab, NobodyHasGone
<1>2. ASSUME NEW c \in Tabs, CloseTab(c) \/ Drop(c) PROVE NobodyHasGone'
  <2>1. /\ UNCHANGED <<doc, listed, disk, purged, gone>>
        /\ toServer' = [toServer EXCEPT ![c] = << >>]
        /\ toClient' = [toClient EXCEPT ![c] = << >>]
        /\ \A d \in Tabs : local'[d] \subseteq local[d]
    BY <1>0, <1>2 DEF CloseTab, Drop
  <2>2. \A d \in Tabs : In(toServer'[d]) \subseteq In(toServer[d])
                        /\ In(toClient'[d]) \subseteq In(toClient[d])
    BY <1>0, <2>1, InEmpty
  <2> QED BY <2>1, <2>2, SavedAfter DEF NobodyHasGone
<1>3. ASSUME NEW c \in Tabs, NEW e \in Edits, Edit(c, e) PROVE NobodyHasGone'
  <2>1. /\ UNCHANGED <<doc, listed, disk, toClient, purged, gone>> /\ e \notin gone
        /\ local' = [local EXCEPT ![c] = local[c] \cup {e}]
    BY <1>0, <1>3 DEF Edit
  <2>2. \A d \in Tabs : \A m \in In(toServer'[d]) : m \in In(toServer[d]) \/ m = Put({e})
    <3> SUFFICES ASSUME NEW d \in Tabs
                 PROVE  In(toServer'[d]) \subseteq In(toServer[d]) \cup {Put({e})}
      OBVIOUS
    <3>1. toServer'[d] = toServer[d] \/ toServer'[d] = Append(toServer[d], Put({e}))
      BY <1>0, <1>3 DEF Edit
    <3>2. Put({e}) \in Message /\ toServer[d] \in Seq(Message)
      BY <1>0, MessageType
    <3>3. In(Append(toServer[d], Put({e}))) = In(toServer[d]) \cup {Put({e})}
      BY <3>2, InAppend
    <3> QED BY <3>1, <3>3
  <2>3. Put({e}).edits \cap gone = {}
    BY <2>1, MessageType
  <2> QED BY <1>0, <2>1, <2>2, <2>3, SavedAfter DEF NobodyHasGone
<1>4. ASSUME NEW c \in Tabs, ClientStep(c) PROVE NobodyHasGone'
  <2> DEFINE m == Head(toClient[c])
             answer == Put(local[c] \ m.edits)
  <2>1. /\ m \in Message /\ In(toClient[c]) = {m} \cup In(Tail(toClient[c]))
        /\ toClient' = [toClient EXCEPT ![c] = Tail(toClient[c])]
        /\ UNCHANGED <<doc, listed, disk, purged, gone>>
    BY <1>0, <1>4, InTail DEF ClientStep
  <2>2. \A d \in Tabs : In(toClient'[d]) \subseteq In(toClient[d])
    BY <1>0, <2>1
  <2>3. answer \in Message /\ answer.edits \cap gone = {}
    <3>1. local[c] \ m.edits \in SUBSET Edits /\ local[c] \cap gone = {}
      BY <1>0 DEF NobodyHasGone
    <3>2. answer \in Message /\ answer.edits = local[c] \ m.edits
      BY <3>1, MessageType
    <3> QED BY <3>1, <3>2
  <2>4. \A d \in Tabs : \A k \in In(toServer'[d]) : k \in In(toServer[d]) \/ k = answer
    <3> SUFFICES ASSUME NEW d \in Tabs
                 PROVE  In(toServer'[d]) \subseteq In(toServer[d]) \cup {answer}
      OBVIOUS
    <3>1. toServer'[d] = toServer[d] \/ toServer'[d] = Append(toServer[d], answer)
      BY <1>0, <1>4 DEF ClientStep
    <3>2. In(Append(toServer[d], answer)) = In(toServer[d]) \cup {answer}
      BY <1>0, <2>3, InAppend
    <3> HIDE DEF answer
    <3> QED BY <3>1, <3>2
  <2>5. \A d \in Tabs : local'[d] \cap gone = {}
    BY <1>0, <1>4, <2>1 DEF ClientStep, NobodyHasGone
  <2> HIDE DEF answer
  <2> QED BY <2>1, <2>2, <2>3, <2>4, <2>5, SavedAfter DEF NobodyHasGone
<1>5. ASSUME NEW c \in Tabs, Connect(c) PROVE NobodyHasGone'
  <2>1. /\ doc' \in SUBSET Edits /\ doc' \cap gone = {}
        /\ toServer' = [toServer EXCEPT ![c] = <<Ask(local[c])>>]
        /\ toClient' = [toClient EXCEPT ![c] = <<Ask(doc')>>]
        /\ UNCHANGED <<disk, local, purged, gone>>
    BY <1>0, <1>5 DEF Connect, Load, Greet, NobodyHasGone
  <2>2. /\ In(<<Ask(local[c])>>) = {Ask(local[c])} /\ Ask(local[c]).kind = "ask"
        /\ In(<<Ask(doc')>>) = {Ask(doc')} /\ Ask(doc').kind = "ask"
    BY <1>0, <2>1, MessageType, InOne
  <2>3. \A d \in Tabs : \A m \in In(toServer'[d]) \cup In(toClient'[d]) :
            m.kind = "put" => m \in In(toServer[d]) \cup In(toClient[d])
    BY <1>0, <2>1, <2>2
  <2> QED BY <2>1, <2>3, SavedAfter DEF NobodyHasGone
<1>6. ASSUME NEW c \in Tabs, ServerStep(c) PROVE NobodyHasGone'
  <2> DEFINE m == Head(toServer[c])
             new == m.edits \ doc
             answer == Put(doc \ m.edits)
  <2>1. /\ m \in Message /\ In(toServer[c]) = {m} \cup In(Tail(toServer[c]))
        /\ toServer' = [toServer EXCEPT ![c] = Tail(toServer[c])]
        /\ UNCHANGED <<listed, disk, local, purged, gone>> /\ listed
    BY <1>0, <1>6, InTail DEF ServerStep, TypeInv, LinksListed
  <2>2. \A d \in Tabs : In(toServer'[d]) \subseteq In(toServer[d])
    BY <1>0, <2>1
  <2>3. /\ answer \in Message /\ answer.edits \cap gone = {}
        /\ Put(new) \in Message /\ Put(new).edits = new
        /\ m.kind = "put" => new \cap gone = {}
    <3>1. doc \ m.edits \in SUBSET Edits /\ doc \cap gone = {}
      BY <1>0, <2>1 DEF NobodyHasGone
    <3>2. answer \in Message /\ answer.edits = doc \ m.edits
      BY <3>1, MessageType
    <3>3. new \in SUBSET Edits
      BY <1>0, <2>1, MessageType
    <3>4. Put(new) \in Message /\ Put(new).edits = new
      BY <3>3, MessageType
    <3>5. m.kind = "put" => m.edits \cap gone = {}
      BY <2>1 DEF NobodyHasGone
    <3> QED BY <3>1, <3>2, <3>4, <3>5
  <2>4. \A d \in Tabs : \A k \in In(toClient'[d]) :
            \/ k \in In(toClient[d])
            \/ k = answer
            \/ k = Put(new) /\ m.kind = "put"
    <3>1. \A d \in Tabs : /\ In(Append(toClient[d], answer)) = In(toClient[d]) \cup {answer}
                          /\ In(Append(toClient[d], Put(new))) = In(toClient[d]) \cup {Put(new)}
      BY <1>0, <2>3, InAppend
    <3> QED BY <1>0, <1>6, <3>1 DEF ServerStep
  <2>5. doc' \cap gone = {}
    BY <1>0, <1>6, <2>1, <2>3 DEF ServerStep, NobodyHasGone
  <2> HIDE DEF m, new, answer
  <2> QED BY <2>1, <2>2, <2>3, <2>4, <2>5, SavedAfter DEF NobodyHasGone
<1>7. CASE Save \/ Flush
  <2>1. listed /\ disk' = doc
        /\ UNCHANGED <<doc, listed, local, toServer, toClient, purged, gone>>
    BY <1>7 DEF Save, Flush, TypeInv, TypeOK
  <2> QED BY <2>1, SavedAfter DEF NobodyHasGone
<1>8. CASE SaveFails \/ FlushFails
  <2>1. Saved' \subseteq Saved /\ UNCHANGED <<doc, listed, local, toServer, toClient, purged, gone>>
    BY <1>8, SavedAfter DEF SaveFails, FlushFails, WriteThrows
  <2> QED BY <2>1 DEF NobodyHasGone
<1>9. CASE Purge
  <2>1. /\ purged' = TRUE /\ listed' = FALSE /\ Saved' = {} /\ local' = local
        /\ toServer' = Silent /\ toClient' = Silent
        /\ gone' = made \ UNION {local[c] : c \in Tabs}
    BY <1>9, SavedAfter DEF Purge, AllDown
  <2>2. \A c \in Tabs : local'[c] \cap gone' = {}
    BY <2>1
  <2> QED BY <2>1, <2>2, InEmpty DEF NobodyHasGone, Silent
<1>10. CASE Crash
  <2>1. /\ listed' = FALSE /\ Saved' \subseteq Saved
        /\ toServer' = Silent /\ toClient' = Silent
        /\ UNCHANGED <<local, purged, gone>>
    BY <1>10, SavedAfter DEF Crash, AllDown
  <2> QED BY <2>1, InEmpty DEF NobodyHasGone, Silent
<1>11. CASE UNCHANGED vars
  BY <1>11, SavedAfter DEF vars, NobodyHasGone
<1> QED
  BY <1>1, <1>2, <1>3, <1>4, <1>5, <1>6, <1>7, <1>8, <1>9, <1>10, <1>11 DEF Next

\* What had left every tab when the room was purged never comes back to the disk,
\* however many tabs connect again with what they have (ydoc.ts, deleteYdoc).
THEOREM PurgedStaysPurged == Spec => []GoneStaysGone
<1>1. Init => OpenHoldsSaved /\ NobodyHasGone
  BY InEmpty DEF Init, Saved, Silent, OpenHoldsSaved, NobodyHasGone
<1>2. TypeInv /\ OpenHoldsSaved /\ [Next]_vars => OpenHoldsSaved'
  BY FileStep
<1>3. TypeInv /\ OpenHoldsSaved /\ NobodyHasGone /\ [Next]_vars => NobodyHasGone'
  BY GoneStep
<1>4. NobodyHasGone => GoneStaysGone
  BY DEF NobodyHasGone, GoneStaysGone
<1> QED BY <1>1, <1>2, <1>3, <1>4, InitInv, TypeStep, PTL DEF Spec

-----------------------------------------------------------------------------
(* The exchange between the server and a tab.                              *)

Asked(q) == \E m \in In(q) : m.kind = "ask"
Carried(q, e) == \E m \in In(q) : m.kind = "put" /\ e \in m.edits

\* Whatever one side of a connection lacks of the other's is under way to it, or
\* the question is to which it is the answer.
Exchanged(c) ==
    conn[c] =>
        /\ \/ \E m \in In(toServer[c]) : m.kind = "ask" /\ m.edits \subseteq local[c]
           \/ \A e \in doc : e \in local[c] \/ Carried(toClient[c], e)
        /\ \/ Asked(toClient[c])
           \/ \A e \in local[c] : e \in doc \/ Carried(toServer[c], e)
        /\ \A m \in In(toClient[c]) : m.edits \subseteq doc

LEMMA ExchangeStep ==
    ASSUME TypeInv, \A c \in Tabs : Exchanged(c), [Next]_vars, NEW d \in Tabs
    PROVE  Exchanged(d)'
<1> USE DEF serverVars, netVars, history
<1>0. /\ Saved \in SUBSET Edits /\ doc \in SUBSET Edits
      /\ \A c \in Tabs : /\ local[c] \in SUBSET Edits
                         /\ toServer[c] \in Seq(Message) /\ toClient[c] \in Seq(Message)
      /\ local \in [Tabs -> SUBSET Edits] /\ conn \in [Tabs -> BOOLEAN]
      /\ toServer \in [Tabs -> Seq(Message)] /\ toClient \in [Tabs -> Seq(Message)]
  BY SavedType DEF TypeInv, TypeOK
<1>1. ASSUME doc' = doc, local'[d] = local[d], conn'[d] = conn[d],
             toServer'[d] = toServer[d], toClient'[d] = toClient[d]
      PROVE  Exchanged(d)'
  BY <1>1 DEF Exchanged, Asked, Carried
<1>2. ASSUME ~conn'[d] PROVE Exchanged(d)'
  BY <1>2 DEF Exchanged
<1>3. ASSUME NEW c \in Tabs, OpenTab(c) PROVE Exchanged(d)'
  BY <1>1, <1>3 DEF OpenTab
<1>4. ASSUME NEW c \in Tabs, CloseTab(c) \/ Drop(c) PROVE Exchanged(d)'
  <2>1. CASE d = c
    BY <1>0, <1>2, <1>4, <2>1 DEF CloseTab, Drop
  <2>2. CASE d # c
    BY <1>0, <1>1, <1>4, <2>2 DEF CloseTab, Drop
  <2> QED BY <2>1, <2>2
<1>5. ASSUME NEW c \in Tabs, NEW e \in Edits, Edit(c, e) PROVE Exchanged(d)'
  <2>1. CASE d # c
    BY <1>0, <1>1, <1>5, <2>1 DEF Edit
  <2>2. CASE d = c /\ conn[c]
    <3>1. /\ local'[d] = local[d] \cup {e} /\ conn'[d]
          /\ toServer'[d] = Append(toServer[d], Put({e}))
          /\ toClient'[d] = toClient[d] /\ doc' = doc
      BY <1>0, <1>5, <2>2 DEF Edit
    <3>2. /\ Put({e}) \in Message /\ Put({e}).kind = "put" /\ Put({e}).edits = {e}
      BY MessageType
    <3>3. In(toServer'[d]) = In(toServer[d]) \cup {Put({e})}
      BY <1>0, <3>1, <3>2, InAppend
    <3> QED BY <2>2, <3>1, <3>2, <3>3 DEF Exchanged, Asked, Carried
  <2>3. CASE d = c /\ ~conn[c]
    BY <1>2, <1>5, <2>3 DEF Edit
  <2> QED BY <2>1, <2>2, <2>3
<1>6. ASSUME NEW c \in Tabs, ClientStep(c) PROVE Exchanged(d)'
  <2> DEFINE m == Head(toClient[c])
             answer == Put(local[c] \ m.edits)
  <2>1. /\ m \in Message /\ In(toClient[c]) = {m} \cup In(Tail(toClient[c])) /\ conn[c]
        /\ toClient' = [toClient EXCEPT ![c] = Tail(toClient[c])]
        /\ UNCHANGED <<doc, conn>>
    BY <1>0, <1>6, InTail DEF ClientStep, TypeInv, LinksListed
  <2>2. CASE d # c
    BY <1>0, <1>1, <1>6, <2>1, <2>2 DEF ClientStep
  <2>3. CASE d = c /\ m.kind = "ask"
    <3>1. /\ local'[d] = local[d] /\ conn'[d]
          /\ toServer'[d] = Append(toServer[d], answer)
          /\ toClient'[d] = Tail(toClient[d])
      BY <1>0, <1>6, <2>1, <2>3 DEF ClientStep
    <3>2. local[c] \ m.edits \in SUBSET Edits
      BY <1>0
    <3>3. answer \in Message /\ answer.kind = "put" /\ answer.edits = local[c] \ m.edits
      BY <3>2, MessageType
    <3>4. In(toServer'[d]) = In(toServer[d]) \cup {answer}
      BY <1>0, <3>1, <3>3, InAppend
    <3>5. m.edits \subseteq doc
      BY <2>1, <2>3 DEF Exchanged
    <3> HIDE DEF m, answer
    <3> QED BY <2>1, <2>3, <3>1, <3>3, <3>4, <3>5 DEF Exchanged, Asked, Carried
  <2>4. CASE d = c /\ m.kind = "put"
    <3>1. /\ local'[d] = local[d] \cup m.edits /\ conn'[d]
          /\ toServer'[d] = toServer[d] /\ toClient'[d] = Tail(toClient[d])
      BY <1>0, <1>6, <2>1, <2>4 DEF ClientStep
    <3>2. m.edits \subseteq doc
      BY <2>1, <2>4 DEF Exchanged
    <3> HIDE DEF m
    <3> QED BY <2>1, <2>4, <3>1, <3>2 DEF Exchanged, Asked, Carried
  <2> QED BY <2>1, <2>2, <2>3, <2>4, MessageType
<1>7. ASSUME NEW c \in Tabs, Connect(c) PROVE Exchanged(d)'
  <2>1. CASE d = c
    <3>1. /\ doc' \in SUBSET Edits /\ local'[d] = local[d]
          /\ toServer'[d] = <<Ask(local[d])>> /\ toClient'[d] = <<Ask(doc')>>
      BY <1>0, <1>7, <2>1 DEF Connect, Load, Greet
    <3>2. /\ In(toServer'[d]) = {Ask(local[d])} /\ In(toClient'[d]) = {Ask(doc')}
          /\ Ask(local[d]).kind = "ask" /\ Ask(local[d]).edits = local[d]
          /\ Ask(doc').kind = "ask" /\ Ask(doc').edits = doc'
      BY <1>0, <3>1, MessageType, InOne
    <3> QED BY <3>1, <3>2 DEF Exchanged, Asked, Carried
  <2>2. CASE d # c /\ conn[d]
    BY <1>0, <1>1, <1>7, <2>2 DEF Connect, TypeInv, LinksListed
  <2>3. CASE d # c /\ ~conn[d]
    BY <1>0, <1>2, <1>7, <2>3 DEF Connect
  <2> QED BY <2>1, <2>2, <2>3
<1>8. ASSUME NEW c \in Tabs, ServerStep(c) PROVE Exchanged(d)'
  <2> DEFINE m == Head(toServer[c])
             new == m.edits \ doc
             answer == Put(doc \ m.edits)
  <2>1. /\ m \in Message /\ In(toServer[c]) = {m} \cup In(Tail(toServer[c])) /\ conn[c]
        /\ toServer' = [toServer EXCEPT ![c] = Tail(toServer[c])]
        /\ UNCHANGED <<local, conn>>
    BY <1>0, <1>8, InTail DEF ServerStep, TypeInv, LinksListed
  <2>2. m.edits \in SUBSET Edits
    BY <2>1, MessageType
  <2>3. CASE m.kind = "ask"
    <3>1. doc' = doc /\ toClient' = [toClient EXCEPT ![c] = Append(toClient[c], answer)]
      BY <1>8, <2>3 DEF ServerStep
    <3>2. CASE d # c
      BY <1>0, <1>1, <2>1, <3>1, <3>2
    <3>3. CASE d = c
      <4>1. doc \ m.edits \in SUBSET Edits
        BY <1>0
      <4>2. answer \in Message /\ answer.kind = "put" /\ answer.edits = doc \ m.edits
        BY <4>1, MessageType
      <4>3. In(toClient'[d]) = In(toClient[d]) \cup {answer}
        BY <1>0, <3>1, <3>3, <4>2, InAppend
      <4>4. toServer'[d] = Tail(toServer[d]) /\ conn'[d] /\ local'[d] = local[d]
        BY <1>0, <2>1, <3>3
      <4> HIDE DEF m, answer
      <4> QED BY <2>1, <2>3, <3>1, <3>3, <4>2, <4>3, <4>4 DEF Exchanged, Asked, Carried
    <3> QED BY <3>2, <3>3
  <2>4. CASE m.kind = "put" /\ new # {}
    <3>1. /\ doc' = doc \cup new
          /\ toClient' = [k \in Tabs |-> IF conn[k] THEN Append(toClient[k], Put(new))
                                         ELSE toClient[k]]
      BY <1>8, <2>4 DEF ServerStep
    <3> SUFFICES ASSUME conn[d] PROVE Exchanged(d)'
      BY <1>2, <2>1
    <3>2. Put(new) \in Message /\ Put(new).kind = "put" /\ Put(new).edits = new
      BY <2>2, MessageType
    <3>3. In(toClient'[d]) = In(toClient[d]) \cup {Put(new)}
      <4>1. toClient'[d] = Append(toClient[d], Put(new))
        BY <3>1
      <4> QED BY <1>0, <3>2, <4>1, InAppend
    <3>4. \A k \in In(toServer[d]) : k = m \/ k \in In(toServer'[d])
      BY <1>0, <2>1
    <3>5. conn'[d] /\ local'[d] = local[d] /\ m.edits \subseteq doc'
      BY <2>1, <3>1
    <3> DEFINE sent == Put(new)
    <3> HIDE DEF m, new, sent
    <3>6. sent.kind = "put" /\ sent.edits = new /\ In(toClient'[d]) = In(toClient[d]) \cup {sent}
      BY <3>2, <3>3 DEF sent
    <3> QED BY <2>4, <3>1, <3>4, <3>5, <3>6 DEF Exchanged, Asked, Carried
  <2>5. CASE m.kind = "put" /\ new = {}
    <3>1. doc' = doc /\ toClient' = toClient /\ m.edits \subseteq doc
      BY <1>8, <2>5 DEF ServerStep
    <3>2. \A k \in In(toServer[d]) : k = m \/ k \in In(toServer'[d])
      BY <1>0, <2>1
    <3> HIDE DEF m, new
    <3> QED BY <2>1, <2>5, <3>1, <3>2 DEF Exchanged, Asked, Carried
  <2> QED BY <2>1, <2>3, <2>4, <2>5, MessageType
<1>9. CASE Save \/ SaveFails \/ Flush \/ FlushFails
  BY <1>1, <1>9 DEF Save, SaveFails, Flush, FlushFails
<1>10. CASE Purge \/ Crash
  BY <1>2, <1>10 DEF Purge, Crash, AllDown
<1>11. CASE UNCHANGED vars
  BY <1>1, <1>11 DEF vars
<1> QED
  BY <1>3, <1>4, <1>5, <1>6, <1>7, <1>8, <1>9, <1>10, <1>11 DEF Next

\* When nothing is under way, every tab that is connected shows what the server
\* has, and the server has what they show, whatever was typed off line and
\* whatever connections and servers were lost (ydoc.ts, setupConn and
\* messageListener).
THEOREM EverybodyConverges == Spec => []Converged
<1> DEFINE Inv == \A c \in Tabs : Exchanged(c)
<1>1. Init => Inv
  BY DEF Init, Exchanged
<1>2. TypeInv /\ Inv /\ [Next]_vars => Inv'
  BY ExchangeStep
<1>3. TypeInv /\ Inv => Converged
  <2> SUFFICES ASSUME TypeInv, Inv, NEW c \in Tabs, conn[c],
                      toServer[c] = << >>, toClient[c] = << >>
               PROVE  local[c] = doc
    BY DEF Converged
  <2>1. doc \subseteq local[c] /\ local[c] \subseteq doc
    BY InEmpty DEF Exchanged, Asked, Carried
  <2> QED BY <2>1
<1> HIDE DEF Inv
<1> QED BY <1>1, <1>2, <1>3, InitInv, TypeStep, PTL DEF Spec

-----------------------------------------------------------------------------
(* What has to be written.                                                 *)

\* What an open room has merged and not saved has its timer set.
UnsavedIsDue == listed /\ ~timer /\ ~failed => doc \subseteq Saved

LEMMA DueStep == TypeInv /\ UnsavedIsDue /\ [Next]_vars => UnsavedIsDue'
<1> SUFFICES ASSUME TypeInv, UnsavedIsDue, [Next]_vars PROVE UnsavedIsDue'
  OBVIOUS
<1> USE DEF serverVars, history, UnsavedIsDue
<1>1. ASSUME UNCHANGED serverVars, failed' = failed PROVE UnsavedIsDue'
  BY <1>1, SavedAfter
<1>2. ASSUME NEW c \in Tabs, OpenTab(c) \/ CloseTab(c) \/ Drop(c) \/ ClientStep(c)
      PROVE  UnsavedIsDue'
  BY <1>1, <1>2 DEF OpenTab, CloseTab, Drop, ClientStep
<1>3. ASSUME NEW c \in Tabs, NEW e \in Edits, Edit(c, e) PROVE UnsavedIsDue'
  BY <1>1, <1>3 DEF Edit
\* What is loaded is what is saved.
<1>4. ASSUME NEW c \in Tabs, Connect(c) PROVE UnsavedIsDue'
  BY <1>4, SavedAfter DEF Connect, Load
\* A merge that changes the document sets the timer.
<1>5. ASSUME NEW c \in Tabs, ServerStep(c) PROVE UnsavedIsDue'
  <2>1. UNCHANGED <<listed, disk, failed>> /\ (timer' \/ UNCHANGED <<doc, timer>>)
    BY <1>5 DEF ServerStep, Armed
  <2> QED BY <2>1, SavedAfter
<1>6. CASE Save \/ Flush
  <2>1. disk' = doc /\ doc' = doc
    BY <1>6 DEF Save, Flush
  <2> QED BY <2>1, SavedAfter
<1>7. CASE SaveFails \/ FlushFails \/ Purge \/ Crash
  BY <1>7 DEF SaveFails, FlushFails, WriteThrows, Purge, Crash
<1>8. CASE UNCHANGED vars
  BY <1>1, <1>8 DEF vars
<1> HIDE DEF serverVars, history, UnsavedIsDue
<1> QED BY <1>2, <1>3, <1>4, <1>5, <1>6, <1>7, <1>8 DEF Next

\* At rest, what is connected is on the disk (ydoc.ts, scheduleSave): the part of
\* durability that needs no fairness, for any tabs, edits, crashes and failed writes
\* before the last.
THEOREM RestIsDurable == Spec => []RestIsSaved
<1> DEFINE Inv == \A c \in Tabs : Exchanged(c)
<1>1. Init => Inv /\ UnsavedIsDue
  BY DEF Init, Exchanged, UnsavedIsDue
<1>2. TypeInv /\ Inv /\ [Next]_vars => Inv'
  BY ExchangeStep
<1>3. TypeInv /\ Inv /\ UnsavedIsDue => RestIsSaved
  <2> SUFFICES ASSUME TypeInv, Inv, UnsavedIsDue, ~timer, ~failed, NEW c \in Tabs, conn[c],
                      toServer[c] = << >>, toClient[c] = << >>
               PROVE  local[c] \subseteq Saved
    BY DEF RestIsSaved
  <2>1. local[c] \subseteq doc
    BY InEmpty DEF Exchanged, Asked, Carried
  <2>2. listed
    BY DEF TypeInv, LinksListed
  <2> QED BY <2>1, <2>2 DEF UnsavedIsDue
<1> HIDE DEF Inv
<1> QED BY <1>1, <1>2, <1>3, DueStep, InitInv, TypeStep, PTL DEF Spec
=============================================================================

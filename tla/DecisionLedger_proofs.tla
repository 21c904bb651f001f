------------------------ MODULE DecisionLedger_proofs ------------------------
(***************************************************************************)
(* What holds of the decision ledger for any number of recaps, lines,      *)
(* sentences, people, corrections and days.                                *)
(***************************************************************************)
EXTENDS DecisionLedger, TLAPS

\* A line of a recap that exists has a sentence: what types need besides
\* themselves, since a revision records the sentence it replaces.
LinesHaveText == \A l \in Lines : IsLine(l) => text[l] \in Texts

TypeInv == TypeOK /\ LinesHaveText

LEMMA LineParts == \A l \in Lines : l[1] \in Recaps /\ l[2] \in Nat
BY LedgerAssumption DEF Lines

\* What a revision adds is a revision.
LEMMA ReviseType ==
    ASSUME TypeInv, NEW l \in Lines, IsLine(l),
           NEW kind \in {"edit", "withdraw"}, NEW next \in Texts \union {NoText},
           NEW snapshot \in SUBSET People, Revise(l, kind, next, snapshot)
    PROVE  revs' \in [Lines -> Seq(Revision)]
<1> DEFINE new == [kind |-> kind, prev |-> text[l], next |-> next,
                   acks |-> snapshot, version |-> version[l]]
<1>1. text[l] \in Texts /\ version[l] \in Nat
  BY DEF TypeInv, TypeOK, LinesHaveText
<1>2. new \in Revision
  BY <1>1 DEF Revision
<1>3. revs[l] \in Seq(Revision) /\ revs \in [Lines -> Seq(Revision)]
  BY DEF TypeInv, TypeOK
<1>4. revs' = [revs EXCEPT ![l] = Append(revs[l], new)]
  BY DEF Revise
<1> HIDE DEF new
<1>5. Append(revs[l], new) \in Seq(Revision)
  BY <1>2, <1>3
<1> QED
  BY <1>3, <1>4, <1>5

LEMMA TypeStep == TypeInv /\ [Next]_vars => TypeInv'
<1> SUFFICES ASSUME TypeInv, [Next]_vars PROVE TypeInv'
  OBVIOUS
<1> USE LedgerAssumption, LineParts
<1>1. ASSUME NEW r \in Recaps, NEW kind \in {"call", "auto", "manual"}, NEW n \in 1 .. MaxLines,
             Record(r, kind, n)
      PROVE  TypeInv'
  <2>1. PICK t \in Texts :
            text' = [l \in Lines |-> IF l[1] = r /\ l[2] < n THEN t ELSE text[l]]
    BY <1>1 DEF Record
  <2>2. TypeOK'
    BY <1>1, <2>1 DEF TypeInv, TypeOK, Sources, Record, ackVars, remindVars, timeVars
  <2>3. ASSUME NEW l \in Lines, IsLine(l)' PROVE text'[l] \in Texts
    <3>1. CASE l[1] = r
      BY <1>1, <2>1, <2>3, <3>1 DEF IsLine, Record, TypeInv, TypeOK
    <3>2. CASE l[1] # r
      BY <1>1, <2>1, <2>3, <3>2 DEF IsLine, Exists, Record, TypeInv, TypeOK, LinesHaveText
    <3> QED BY <3>1, <3>2
  <2> QED BY <2>2, <2>3 DEF TypeInv, LinesHaveText
<1>2. ASSUME NEW r \in Recaps, Cite(r) PROVE TypeInv'
  BY <1>2 DEF Cite, TypeInv, TypeOK, LinesHaveText, IsLine, Exists, lineVars, ackVars, remindVars, timeVars
<1>3. ASSUME NEW p \in People, NEW l \in Lines, NEW d \in BOOLEAN, Ack(p, l, d) PROVE TypeInv'
  <2>1. version[l] \in Nat
    BY DEF TypeInv, TypeOK
  <2>2. UNCHANGED <<rowVars, lineVars, remindVars, timeVars, torn>>
    BY <1>3 DEF Ack
  <2>3. /\ acks' \in [Lines -> SUBSET People] /\ drawn' \in [Lines -> SUBSET People]
        /\ signed' \in SUBSET (Lines \X People \X Nat \X BOOLEAN)
    BY <1>3, <2>1 DEF Ack, TypeInv, TypeOK
  <2> QED
    BY <2>2, <2>3 DEF TypeInv, TypeOK, LinesHaveText, IsLine, Exists, rowVars, lineVars, remindVars, timeVars
<1>4. ASSUME NEW p \in People, NEW l \in Lines, NEW t \in Texts, EditText(p, l, t) PROVE TypeInv'
  <2>1. IsLine(l) /\ Revise(l, "edit", t, acks[l]) /\ acks[l] \in SUBSET People
    BY <1>4 DEF EditText, Correctable, TypeInv, TypeOK
  <2>2. revs' \in [Lines -> Seq(Revision)]
    BY <2>1, ReviseType
  <2>3. /\ acks' \in [Lines -> SUBSET People] /\ drawn' \in [Lines -> SUBSET People]
        /\ softSent' \in [Recaps -> SUBSET People]
        /\ nagged' \in [Recaps -> [People -> Nat]]
    BY <1>4 DEF EditText, ResetSignatures, TypeInv, TypeOK
  <2>4. /\ text' = [text EXCEPT ![l] = t]
        /\ version' \in [Lines -> Nat]
        /\ quiet' \in [Lines -> Nat]
        /\ UNCHANGED <<rowVars, withdrawn, signed, autoLast, cooling, timeVars, torn>>
    BY <1>4 DEF EditText, TypeInv, TypeOK
  <2> QED
    BY <2>2, <2>3, <2>4 DEF TypeInv, TypeOK, LinesHaveText, IsLine, Exists, rowVars, timeVars
<1>5. ASSUME NEW p \in People, NEW l \in Lines, EditWhy(p, l) PROVE TypeInv'
  <2>1. /\ IsLine(l) /\ Revise(l, "edit", text[l], acks[l])
        /\ acks[l] \in SUBSET People /\ text[l] \in Texts \union {NoText}
    BY <1>5 DEF EditWhy, Correctable, TypeInv, TypeOK
  <2>2. revs' \in [Lines -> Seq(Revision)]
    BY <2>1, ReviseType
  <2> QED
    BY <1>5, <2>2 DEF EditWhy, TypeInv, TypeOK, LinesHaveText, IsLine, Exists, rowVars, ackVars, remindVars, timeVars
<1>6. ASSUME NEW p \in People, NEW l \in Lines, Withdraw(p, l) PROVE TypeInv'
  <2>1. IsLine(l) /\ Revise(l, "withdraw", NoText, {})
    BY <1>6 DEF Withdraw, Correctable
  <2>2. revs' \in [Lines -> Seq(Revision)]
    BY <2>1, ReviseType
  <2> QED
    BY <1>6, <2>2 DEF Withdraw, TypeInv, TypeOK, LinesHaveText, IsLine, Exists, rowVars, ackVars, remindVars, timeVars
<1>7. ASSUME NEW r \in Recaps, DropRows(r)
      PROVE  /\ acks' \in [Lines -> SUBSET People] /\ drawn' \in [Lines -> SUBSET People]
             /\ softSent' \in [Recaps -> SUBSET People]
             /\ autoLast' \in [Lines -> Nat \union {Never}]
             /\ quiet' \in [Lines -> Nat]
             /\ nagged' \in [Recaps -> [People -> Nat]]
             /\ cooling' \in SUBSET Lines
  BY <1>7 DEF DropRows, TypeInv, TypeOK
<1>8. ASSUME NEW r \in Recaps, CancelAuto(r) PROVE TypeInv'
  <2>1. revs' \in [Lines -> Seq(Revision)]
    BY <1>8 DEF CancelAuto, TypeInv, TypeOK
  <2>2. /\ source' = [source EXCEPT ![r] = "gone"]
        /\ UNCHANGED <<count, born, cited, text, withdrawn, version, timeVars, torn>>
        /\ signed' \subseteq signed
    BY <1>8 DEF CancelAuto
  <2>3. DropRows(r)
    BY <1>8 DEF CancelAuto
  <2>4. TypeOK'
    BY <1>7, <2>1, <2>2, <2>3 DEF TypeInv, TypeOK, Sources, timeVars
  <2>5. LinesHaveText'
    BY <2>2 DEF TypeInv, TypeOK, LinesHaveText, IsLine, Exists
  <2> QED BY <2>4, <2>5 DEF TypeInv
<1>9. ASSUME NEW r \in Recaps, CancelAutoFails(r) PROVE TypeInv'
  <2>1. DropRows(r) /\ torn' = torn \union {r} /\ UNCHANGED <<rowVars, lineVars, signed, timeVars>>
    BY <1>9 DEF CancelAutoFails
  <2> QED
    BY <1>7, <2>1 DEF TypeInv, TypeOK, LinesHaveText, IsLine, Exists, rowVars, lineVars, timeVars
<1>10. CASE SoftRemind
  <2>1. \A r \in Recaps : SoftTargets(r) \in SUBSET People
    BY DEF SoftTargets
  <2>2. softSent' \in [Recaps -> SUBSET People] /\ nagged' \in [Recaps -> [People -> Nat]]
    BY <1>10, <2>1 DEF SoftRemind, TypeInv, TypeOK
  <2> QED
    BY <1>10, <2>2 DEF SoftRemind, TypeInv, TypeOK, LinesHaveText, IsLine, Exists, rowVars, lineVars, ackVars
<1>11. CASE AutoRemind
  <2>1. autoLast' \in [Lines -> Nat \union {Never}] /\ quiet' \in [Lines -> Nat]
    BY <1>11 DEF AutoRemind, TypeInv, TypeOK
  <2> QED
    BY <1>11, <2>1 DEF AutoRemind, TypeInv, TypeOK, LinesHaveText, IsLine, Exists, rowVars, lineVars, ackVars
<1>12. ASSUME NEW p \in People, NEW l \in Lines, ManualRemind(p, l) PROVE TypeInv'
  BY <1>12 DEF ManualRemind, TypeInv, TypeOK, LinesHaveText, IsLine, Exists, rowVars, lineVars, ackVars, timeVars
<1>13. CASE Tick
  <2>1. quiet' \in [Lines -> Nat] /\ now' \in Nat /\ swept' = {} /\ cooling' = {}
    BY <1>13 DEF Tick, TypeInv, TypeOK
  <2> QED
    BY <1>13, <2>1 DEF Tick, TypeInv, TypeOK, LinesHaveText, IsLine, Exists, rowVars, lineVars, ackVars
<1>14. CASE Restart
  BY <1>14 DEF Restart, TypeInv, TypeOK, LinesHaveText, IsLine, Exists, rowVars, lineVars, ackVars, timeVars
<1>15. CASE UNCHANGED vars
  BY <1>15 DEF vars, TypeInv, TypeOK, LinesHaveText, IsLine, Exists, rowVars, lineVars, ackVars, remindVars, timeVars
<1> QED
  BY <1>1, <1>2, <1>3, <1>4, <1>5, <1>6, <1>8, <1>9, <1>10, <1>11, <1>12, <1>13, <1>14, <1>15 DEF Next

LEMMA TypesHold == Spec => []TypeInv
<1>1. Init => TypeInv
  <2>1. Init => TypeOK
    BY LedgerAssumption DEF Init, TypeOK, Sources
  <2>2. Init => LinesHaveText
    BY LineParts DEF Init, LinesHaveText, IsLine, Exists
  <2> QED BY <2>1, <2>2 DEF TypeInv
<1> QED
  BY <1>1, TypeStep, PTL DEF Spec

\* Every variable keeps its type; above all, every revision records a real
\* sentence as the one it replaced.
THEOREM TypeCorrect == Spec => []TypeOK
<1>1. TypeInv => TypeOK
  BY DEF TypeInv
<1> QED
  BY <1>1, TypesHold, PTL

-----------------------------------------------------------------------------
(* Signatures.                                                             *)

\* Steps that touch neither rows, sentences nor revisions.
SignaturesAlone == UNCHANGED <<version, ackVars, revs, torn>>

LEMMA OtherSteps ==
    ASSUME [Next]_vars
    PROVE  \/ SignaturesAlone
           \/ \E p \in People, l \in Lines :
                 \/ \E d \in BOOLEAN : Ack(p, l, d)
                 \/ \E t \in Texts : EditText(p, l, t)
                 \/ EditWhy(p, l) \/ Withdraw(p, l)
           \/ \E r \in Recaps : CancelAuto(r) \/ CancelAutoFails(r)
<1> USE DEF SignaturesAlone, lineVars, ackVars
<1>1. ASSUME NEW r \in Recaps, NEW kind, NEW n, Record(r, kind, n) PROVE SignaturesAlone
  BY <1>1 DEF Record
<1>2. ASSUME NEW r \in Recaps, Cite(r) PROVE SignaturesAlone
  BY <1>2 DEF Cite
<1>3. ASSUME NEW p \in People, NEW l \in Lines, ManualRemind(p, l) PROVE SignaturesAlone
  BY <1>3 DEF ManualRemind
<1>4. CASE SoftRemind \/ AutoRemind \/ Tick \/ Restart
  BY <1>4 DEF SoftRemind, AutoRemind, Tick, Restart
<1>5. CASE UNCHANGED vars
  BY <1>5 DEF vars
<1> QED
  BY <1>1, <1>2, <1>3, <1>4, <1>5 DEF Next

\* A revision is added at the end: it keeps the snapshots there are, and its
\* own is the last.
LEMMA ReviseKeeps ==
    ASSUME TypeInv, NEW l \in Lines, NEW kind, NEW next, NEW snapshot,
           Revise(l, kind, next, snapshot)
    PROVE  /\ \A m \in Lines : \A k \in 1 .. Len(revs[m]) :
                 k \in 1 .. Len(revs'[m]) /\ revs'[m][k] = revs[m][k]
           /\ LET k == Len(revs[l]) + 1
              IN  /\ k \in 1 .. Len(revs'[l])
                  /\ revs'[l][k].acks = snapshot
                  /\ revs'[l][k].version = version[l]
<1> DEFINE new == [kind |-> kind, prev |-> text[l], next |-> next,
                   acks |-> snapshot, version |-> version[l]]
<1>1. new.acks = snapshot /\ new.version = version[l]
  OBVIOUS
<1>2. revs' = [revs EXCEPT ![l] = Append(revs[l], new)]
  BY DEF Revise
<1>3. revs \in [Lines -> Seq(Revision)]
  BY DEF TypeInv, TypeOK
<1> HIDE DEF new
<1>4. revs'[l] = Append(revs[l], new) /\ \A m \in Lines \ {l} : revs'[m] = revs[m]
  BY <1>2, <1>3
<1>5. revs[l] \in Seq(Revision) /\ Len(revs[l]) \in Nat
  BY <1>3
<1>6. /\ Len(revs'[l]) = Len(revs[l]) + 1
      /\ revs'[l][Len(revs[l]) + 1] = new
      /\ \A k \in 1 .. Len(revs[l]) : revs'[l][k] = revs[l][k]
  BY <1>4, <1>5
<1> QED
  BY <1>1, <1>4, <1>5, <1>6

\* Where the signature e is to be found.
InRow(e) ==
    e[3] = version[e[1]] /\ e[2] \in acks[e[1]] /\ (e[4] => e[2] \in drawn[e[1]])

InSnapshot(e) ==
    /\ e[3] < version[e[1]]
    /\ \E k \in 1 .. Len(revs[e[1]]) :
           revs[e[1]][k].version = e[3] /\ e[2] \in revs[e[1]][k].acks

Found(e) == e[1][1] \in torn \/ InRow(e) \/ InSnapshot(e)

LEMMA KeptIsFound == SignaturesKept <=> \A e \in signed : Found(e)
BY DEF SignaturesKept, Found, InRow, InSnapshot

\* A correction or a withdrawal loses no snapshot.
LEMMA SnapshotsStay ==
    ASSUME TypeInv, NEW l \in Lines, NEW kind, NEW next, NEW snapshot,
           Revise(l, kind, next, snapshot),
           NEW e, e[1] \in Lines, InSnapshot(e),
           e[3] < version'[e[1]]
    PROVE  InSnapshot(e)'
<1>1. PICK k \in 1 .. Len(revs[e[1]]) : revs[e[1]][k].version = e[3] /\ e[2] \in revs[e[1]][k].acks
  BY DEF InSnapshot
<1>2. k \in 1 .. Len(revs'[e[1]]) /\ revs'[e[1]][k] = revs[e[1]][k]
  BY ReviseKeeps
<1> QED
  BY <1>1, <1>2 DEF InSnapshot

\* A correction moves the rows it deletes into the snapshot it takes.
LEMMA SignatureStep == TypeInv /\ SignaturesKept /\ [Next]_vars => SignaturesKept'
<1> SUFFICES ASSUME TypeInv, \A e \in signed : Found(e), [Next]_vars, NEW e \in signed'
             PROVE  Found(e)'
  BY KeptIsFound DEF SignaturesKept, Found, InRow, InSnapshot
<1>0. \A f \in signed : f[1] \in Lines /\ f[2] \in People /\ f[3] \in Nat /\ f[4] \in BOOLEAN
  BY DEF TypeInv, TypeOK
<1>1. CASE SignaturesAlone
  BY <1>1 DEF SignaturesAlone, ackVars, Found, InRow, InSnapshot
<1>2. ASSUME NEW p \in People, NEW l \in Lines, NEW d \in BOOLEAN, Ack(p, l, d) PROVE Found(e)'
  <2>1. /\ acks' = [acks EXCEPT ![l] = acks[l] \union {p}]
        /\ drawn' = IF d THEN [drawn EXCEPT ![l] = drawn[l] \union {p}] ELSE drawn
        /\ signed' = signed \union {<<l, p, version[l], d>>}
        /\ UNCHANGED <<version, revs, torn>>
    BY <1>2 DEF Ack, lineVars
  <2>2. acks \in [Lines -> SUBSET People] /\ drawn \in [Lines -> SUBSET People]
    BY DEF TypeInv, TypeOK
  <2>3. CASE e \in signed
    <3>1. Found(e) /\ e[1] \in Lines
      BY <2>3, <1>0
    <3>2. acks[e[1]] \subseteq acks'[e[1]] /\ drawn[e[1]] \subseteq drawn'[e[1]]
      BY <2>1, <2>2, <3>1
    <3> QED BY <2>1, <3>1, <3>2 DEF Found, InRow, InSnapshot
  <2>4. CASE e = <<l, p, version[l], d>>
    <3>1. e[1] = l /\ e[2] = p /\ e[3] = version[l] /\ e[4] = d
      BY <2>4
    <3>2. p \in acks'[l] /\ (d => p \in drawn'[l])
      BY <2>1, <2>2
    <3> QED BY <2>1, <3>1, <3>2 DEF Found, InRow
  <2> QED BY <2>1, <2>3, <2>4
<1>3. ASSUME NEW p \in People, NEW l \in Lines, NEW t, EditText(p, l, t) PROVE Found(e)'
  <2>1. /\ Revise(l, "edit", t, acks[l])
        /\ acks' = [acks EXCEPT ![l] = {}]
        /\ drawn' = [drawn EXCEPT ![l] = {}]
        /\ version' = [version EXCEPT ![l] = version[l] + 1]
        /\ signed' = signed /\ torn' = torn
    BY <1>3 DEF EditText, ResetSignatures
  <2>2. Found(e) /\ e[1] \in Lines
    BY <2>1, <1>0
  <2>3. CASE e[1][1] \in torn
    BY <2>1, <2>3 DEF Found
  <2>4. CASE InSnapshot(e)
    <3>1. e[3] < version'[e[1]]
      BY <1>0, <2>1, <2>2, <2>4 DEF InSnapshot, TypeInv, TypeOK
    <3> QED BY <2>1, <2>2, <2>4, <3>1, SnapshotsStay DEF Found
  <2>5. CASE InRow(e) /\ e[1] = l
    <3>1. LET k == Len(revs[l]) + 1
          IN k \in 1 .. Len(revs'[l]) /\ revs'[l][k].acks = acks[l] /\ revs'[l][k].version = version[l]
      BY <2>1, ReviseKeeps
    <3>2. e[3] < version'[l]
      BY <2>1, <2>2, <2>5 DEF InRow, TypeInv, TypeOK
    <3>3. InSnapshot(e)'
      BY <2>5, <3>1, <3>2 DEF InRow, InSnapshot
    <3> QED BY <3>3 DEF Found
  <2>6. CASE InRow(e) /\ e[1] # l
    <3>1. acks'[e[1]] = acks[e[1]] /\ drawn'[e[1]] = drawn[e[1]] /\ version'[e[1]] = version[e[1]]
      BY <2>1, <2>2, <2>6 DEF TypeInv, TypeOK
    <3> QED BY <2>6, <3>1 DEF InRow, Found
  <2> QED BY <2>2, <2>3, <2>4, <2>5, <2>6 DEF Found
<1>4. ASSUME NEW p \in People, NEW l \in Lines, EditWhy(p, l) \/ Withdraw(p, l) PROVE Found(e)'
  <2>1. /\ \E kind, next, snapshot : Revise(l, kind, next, snapshot)
        /\ UNCHANGED <<acks, drawn, version, signed, torn>>
    BY <1>4 DEF EditWhy, Withdraw, ackVars
  <2>2. Found(e) /\ e[1] \in Lines
    BY <2>1, <1>0
  <2>3. CASE InSnapshot(e)
    <3>1. e[3] < version'[e[1]]
      BY <2>1, <2>3 DEF InSnapshot
    <3> QED BY <2>1, <2>2, <2>3, <3>1, SnapshotsStay DEF Found
  <2>4. CASE e[1][1] \in torn \/ InRow(e)
    BY <2>1, <2>4 DEF Found, InRow
  <2> QED BY <2>2, <2>3, <2>4 DEF Found
<1>5. ASSUME NEW r \in Recaps, CancelAuto(r) PROVE Found(e)'
  <2>1. /\ e \in signed /\ e[1][1] # r /\ e[1] \in Lines
        /\ acks' = [l \in Lines |-> IF l[1] = r THEN {} ELSE acks[l]]
        /\ drawn' = [l \in Lines |-> IF l[1] = r THEN {} ELSE drawn[l]]
        /\ revs' = [l \in Lines |-> IF l[1] = r THEN <<>> ELSE revs[l]]
        /\ UNCHANGED <<version, torn>>
    BY <1>5, <1>0 DEF CancelAuto, DropRows
  <2>2. acks'[e[1]] = acks[e[1]] /\ drawn'[e[1]] = drawn[e[1]] /\ revs'[e[1]] = revs[e[1]]
    BY <2>1
  <2> QED BY <2>1, <2>2 DEF Found, InRow, InSnapshot
<1>6. ASSUME NEW r \in Recaps, CancelAutoFails(r) PROVE Found(e)'
  <2>1. /\ acks' = [l \in Lines |-> IF l[1] = r THEN {} ELSE acks[l]]
        /\ drawn' = [l \in Lines |-> IF l[1] = r THEN {} ELSE drawn[l]]
        /\ torn' = torn \union {r}
        /\ UNCHANGED <<version, revs, signed>>
    BY <1>6 DEF CancelAutoFails, DropRows, lineVars
  <2>2. e \in signed /\ e[1] \in Lines
    BY <2>1, <1>0
  <2>3. CASE e[1][1] = r
    BY <2>1, <2>3 DEF Found
  <2>4. CASE e[1][1] # r
    <3>1. acks'[e[1]] = acks[e[1]] /\ drawn'[e[1]] = drawn[e[1]]
      BY <2>1, <2>2, <2>4
    <3> QED BY <2>1, <2>2, <3>1 DEF Found, InRow, InSnapshot
  <2> QED BY <2>3, <2>4
<1> QED
  BY <1>1, <1>2, <1>3, <1>4, <1>5, <1>6, OtherSteps

\* No correction, withdrawal or cancellation of another record loses who signed
\* which sentence of a line, and none but the correction that replaces the
\* sentence loses what was drawn or noted on it (recap.ts: editDecision).
THEOREM SignaturesStay == Spec => []SignaturesKept
<1>1. Init => SignaturesKept
  BY DEF Init, SignaturesKept
<1> QED
  BY <1>1, SignatureStep, TypesHold, PTL DEF Spec

-----------------------------------------------------------------------------
(* Soft reminders.                                                         *)

\* NudgedOnce is not inductive: it needs that whoever has been nudged since the
\* last new sentence also has the row that says so.
NudgesRecorded ==
    \A r \in Recaps : \A p \in People :
        nagged[r][p] <= 1 /\ (p \notin softSent[r] => nagged[r][p] = 0)

LEMMA NudgeStep == TypeInv /\ NudgesRecorded /\ [Next]_vars => NudgesRecorded'
<1> SUFFICES ASSUME TypeInv, NudgesRecorded, [Next]_vars PROVE NudgesRecorded'
  OBVIOUS
<1>0. nagged \in [Recaps -> [People -> Nat]] /\ softSent \in [Recaps -> SUBSET People]
  BY DEF TypeInv, TypeOK
<1>1. CASE UNCHANGED <<softSent, nagged>>
  BY <1>1 DEF NudgesRecorded
<1>2. ASSUME NEW r \in Recaps,
             softSent' = [softSent EXCEPT ![r] = {}],
             nagged' = [nagged EXCEPT ![r] = [q \in People |-> 0]]
      PROVE  NudgesRecorded'
  BY <1>0, <1>2 DEF NudgesRecorded
<1>3. CASE SoftRemind
  <2>1. SUFFICES ASSUME NEW r \in Recaps, NEW p \in People
                 PROVE  nagged'[r][p] <= 1 /\ (p \notin softSent'[r] => nagged'[r][p] = 0)
    BY DEF NudgesRecorded
  <2>2. /\ softSent'[r] = softSent[r] \union SoftTargets(r)
        /\ nagged'[r][p] = IF p \in SoftTargets(r) THEN nagged[r][p] + 1 ELSE nagged[r][p]
    BY <1>3 DEF SoftRemind
  <2>3. p \in SoftTargets(r) => p \notin softSent[r]
    BY DEF SoftTargets
  <2>4. nagged[r][p] \in Nat /\ nagged[r][p] <= 1 /\ (p \notin softSent[r] => nagged[r][p] = 0)
    BY <1>0 DEF NudgesRecorded
  <2> QED BY <2>2, <2>3, <2>4
<1>4. ASSUME NEW r \in Recaps, CancelAuto(r) \/ CancelAutoFails(r) PROVE NudgesRecorded'
  BY <1>2, <1>4 DEF CancelAuto, CancelAutoFails, DropRows
<1>5. ASSUME NEW r \in Recaps, Cite(r) \/ \E kind, n : Record(r, kind, n) PROVE NudgesRecorded'
  BY <1>1, <1>5 DEF Cite, Record, remindVars
<1>6. ASSUME NEW p \in People, NEW l \in Lines, NEW t, EditText(p, l, t) PROVE NudgesRecorded'
  BY <1>2, <1>6, LineParts DEF EditText, ResetSignatures
<1>7. ASSUME NEW p \in People, NEW l \in Lines,
             EditWhy(p, l) \/ Withdraw(p, l) \/ ManualRemind(p, l) \/ \E d \in BOOLEAN : Ack(p, l, d)
      PROVE  NudgesRecorded'
  BY <1>1, <1>7 DEF EditWhy, Withdraw, ManualRemind, Ack, remindVars
<1>8. CASE AutoRemind \/ Tick \/ Restart \/ UNCHANGED vars
  BY <1>1, <1>8 DEF AutoRemind, Tick, Restart, vars, remindVars
<1> QED
  BY <1>3, <1>4, <1>5, <1>6, <1>7, <1>8 DEF Next

\* Nobody gets a second soft reminder about sentences that have not changed.
THEOREM NudgedOnlyOnce == Spec => []NudgedOnce
<1>1. Init => NudgesRecorded
  BY DEF Init, NudgesRecorded
<1>2. NudgesRecorded => NudgedOnce
  BY DEF NudgesRecorded, NudgedOnce
<1> QED
  BY <1>1, <1>2, NudgeStep, TypesHold, PTL DEF Spec

-----------------------------------------------------------------------------
(* The history of a line.                                                  *)

\* What HistoryReplays says of one line whose history is h.
Replays(h, sentence, ended) ==
    \A k \in 1 .. Len(h) :
        /\ h[k].kind = "withdraw" <=> (k = Len(h) /\ ended)
        /\ IF k < Len(h) THEN h[k].next = h[k + 1].prev
           ELSE sentence = IF ended THEN h[k].prev ELSE h[k].next

\* HistoryReplays is not inductive: recording a decision gives its lines their
\* sentences, which is right only because nothing has been revised before.
HistoryInv ==
    \A l \in Lines :
        /\ Replays(revs[l], text[l], withdrawn[l])
        /\ source[l[1]] = "none" => revs[l] = <<>>

LEMMA NoHistoryReplays == ASSUME NEW t, NEW w PROVE Replays(<<>>, t, w)
BY DEF Replays

\* A revision of a line that stands, starting from its present sentence,
\* extends a history that replays to one that does.
LEMMA AppendReplays ==
    ASSUME NEW h \in Seq(Revision), NEW t, Replays(h, t, FALSE),
           NEW new \in Revision, NEW s, NEW w \in BOOLEAN,
           new.prev = t,
           new.kind = "withdraw" <=> w,
           s = IF w THEN new.prev ELSE new.next
    PROVE  Replays(Append(h, new), s, w)
<1> DEFINE n == Len(h)
           g == Append(h, new)
<1>1. n \in Nat /\ Len(g) = n + 1 /\ g[n + 1] = new /\ \A k \in 1 .. n : g[k] = h[k]
  OBVIOUS
<1> HIDE DEF n, g
<1>2. \A k \in 1 .. n : h[k].kind # "withdraw"
                        /\ (k < n => h[k].next = h[k + 1].prev)
                        /\ (k = n => h[k].next = t)
  BY <1>1 DEF Replays, n
<1> SUFFICES ASSUME NEW k \in 1 .. Len(g)
             PROVE  /\ g[k].kind = "withdraw" <=> (k = Len(g) /\ w)
                    /\ IF k < Len(g) THEN g[k].next = g[k + 1].prev
                       ELSE s = IF w THEN g[k].prev ELSE g[k].next
  BY DEF Replays, g
<1>3. CASE k = n + 1
  BY <1>1, <1>3
<1>4. CASE k = n
  <2>1. g[k] = h[k] /\ g[k + 1] = new /\ k < Len(g) /\ k \in 1 .. n
    BY <1>1, <1>4
  <2> QED BY <1>2, <1>4, <2>1
<1>5. CASE k < n
  <2>1. k \in 1 .. n /\ k + 1 \in 1 .. n /\ k < Len(g) /\ k # Len(g)
    BY <1>1, <1>5
  <2>2. g[k] = h[k] /\ g[k + 1] = h[k + 1]
    BY <1>1, <2>1
  <2> QED BY <1>2, <1>5, <2>1, <2>2
<1> QED
  BY <1>1, <1>3, <1>4, <1>5

\* The three actions that revise a line leave the other lines alone.
LEMMA ReviseHistory ==
    ASSUME TypeInv, HistoryInv, NEW l \in Lines, IsLine(l), ~withdrawn[l],
           NEW kind \in {"edit", "withdraw"}, NEW next \in Texts \union {NoText},
           NEW snapshot \in SUBSET People, Revise(l, kind, next, snapshot),
           source' = source,
           \A m \in Lines \ {l} : text'[m] = text[m] /\ withdrawn'[m] = withdrawn[m],
           withdrawn'[l] = (kind = "withdraw"),
           text'[l] = IF withdrawn'[l] THEN text[l] ELSE next
    PROVE  HistoryInv'
<1> DEFINE new == [kind |-> kind, prev |-> text[l], next |-> next,
                   acks |-> snapshot, version |-> version[l]]
<1>1. text[l] \in Texts /\ version[l] \in Nat /\ revs \in [Lines -> Seq(Revision)]
  BY DEF TypeInv, TypeOK, LinesHaveText
<1>2. new \in Revision /\ new.prev = text[l] /\ new.next = next /\ new.kind = kind
  BY <1>1 DEF Revision
<1>3. revs' = [revs EXCEPT ![l] = Append(revs[l], new)]
  BY DEF Revise
<1> HIDE DEF new
<1>4. revs'[l] = Append(revs[l], new) /\ \A m \in Lines \ {l} : revs'[m] = revs[m]
  BY <1>1, <1>3
<1>5. Replays(revs[l], text[l], FALSE)
  <2>1. withdrawn[l] = FALSE
    BY DEF TypeInv, TypeOK
  <2> QED BY <2>1 DEF HistoryInv
<1>6. Replays(revs'[l], text'[l], withdrawn'[l])
  <2>1. withdrawn'[l] \in BOOLEAN /\ (new.kind = "withdraw" <=> withdrawn'[l])
    BY <1>2
  <2>2. text'[l] = IF withdrawn'[l] THEN new.prev ELSE new.next
    BY <1>2
  <2>3. revs[l] \in Seq(Revision)
    BY <1>1
  <2>4. PICK h, t, n, s, w :
            h = revs[l] /\ t = text[l] /\ n = new /\ s = text'[l] /\ w = withdrawn'[l]
    OBVIOUS
  <2>5. /\ h \in Seq(Revision) /\ n \in Revision /\ w \in BOOLEAN
        /\ Replays(h, t, FALSE)
        /\ n.prev = t /\ (n.kind = "withdraw" <=> w)
        /\ s = IF w THEN n.prev ELSE n.next
    BY <1>2, <1>5, <2>1, <2>2, <2>3, <2>4
  <2>6. Replays(Append(h, n), s, w)
    BY <2>5, AppendReplays
  <2> QED BY <1>4, <2>4, <2>6
<1>7. source'[l[1]] # "none"
  BY DEF IsLine, Exists
<1> SUFFICES ASSUME NEW m \in Lines
             PROVE  /\ Replays(revs'[m], text'[m], withdrawn'[m])
                    /\ source'[m[1]] = "none" => revs'[m] = <<>>
  BY DEF HistoryInv
<1>8. CASE m = l
  BY <1>6, <1>7, <1>8
<1>9. CASE m # l
  BY <1>4, <1>9 DEF HistoryInv
<1> QED BY <1>8, <1>9

LEMMA HistoryStep == TypeInv /\ HistoryInv /\ [Next]_vars => HistoryInv'
<1> SUFFICES ASSUME TypeInv, HistoryInv, [Next]_vars PROVE HistoryInv'
  OBVIOUS
<1>0. /\ text \in [Lines -> Texts \union {NoText}]
      /\ withdrawn \in [Lines -> BOOLEAN]
      /\ acks \in [Lines -> SUBSET People]
  BY DEF TypeInv, TypeOK
<1>1. CASE UNCHANGED <<revs, text, withdrawn, source>>
  BY <1>1 DEF HistoryInv
<1>2. ASSUME NEW r \in Recaps, NEW kind \in {"call", "auto", "manual"}, NEW n \in 1 .. MaxLines,
             Record(r, kind, n)
      PROVE  HistoryInv'
  <2>1. PICK t \in Texts :
            text' = [l \in Lines |-> IF l[1] = r /\ l[2] < n THEN t ELSE text[l]]
    BY <1>2 DEF Record
  <2>2. /\ source[r] = "none" /\ source' = [source EXCEPT ![r] = kind]
        /\ UNCHANGED <<revs, withdrawn>>
    BY <1>2 DEF Record
  <2> SUFFICES ASSUME NEW m \in Lines
               PROVE  /\ Replays(revs'[m], text'[m], withdrawn'[m])
                      /\ source'[m[1]] = "none" => revs'[m] = <<>>
    BY DEF HistoryInv
  <2>3. CASE m[1] = r
    <3>1. revs'[m] = <<>>
      BY <2>2, <2>3 DEF HistoryInv
    <3> QED BY <3>1, NoHistoryReplays
  <2>4. CASE m[1] # r
    <3>1. text'[m] = text[m] /\ source'[m[1]] = source[m[1]]
      BY <2>1, <2>2, <2>4, LineParts DEF TypeInv, TypeOK
    <3> QED BY <2>2, <3>1 DEF HistoryInv
  <2> QED BY <2>3, <2>4
<1>3. ASSUME NEW p \in People, NEW l \in Lines, NEW t \in Texts, EditText(p, l, t) PROVE HistoryInv'
  <2>1. /\ IsLine(l) /\ ~withdrawn[l] /\ Revise(l, "edit", t, acks[l])
        /\ text' = [text EXCEPT ![l] = t]
        /\ withdrawn' = withdrawn /\ source' = source
    BY <1>3 DEF EditText, Correctable, rowVars
  <2>2. withdrawn'[l] = FALSE /\ text'[l] = t /\ \A m \in Lines \ {l} : text'[m] = text[m]
    BY <1>0, <2>1
  <2>3. withdrawn'[l] = ("edit" = "withdraw")
    BY <2>2
  <2> QED BY <1>0, <2>1, <2>2, <2>3, ReviseHistory
<1>4. ASSUME NEW p \in People, NEW l \in Lines, EditWhy(p, l) PROVE HistoryInv'
  <2>1. /\ IsLine(l) /\ ~withdrawn[l] /\ Revise(l, "edit", text[l], acks[l])
        /\ text' = text /\ withdrawn' = withdrawn /\ source' = source
    BY <1>4 DEF EditWhy, Correctable, rowVars
  <2>2. withdrawn'[l] = FALSE /\ text[l] \in Texts \union {NoText} /\ acks[l] \in SUBSET People
    BY <1>0, <2>1
  <2>3. withdrawn'[l] = ("edit" = "withdraw")
    BY <2>2
  <2> QED BY <2>1, <2>2, <2>3, ReviseHistory
<1>5. ASSUME NEW p \in People, NEW l \in Lines, Withdraw(p, l) PROVE HistoryInv'
  <2>1. /\ IsLine(l) /\ ~withdrawn[l] /\ Revise(l, "withdraw", NoText, {})
        /\ withdrawn' = [withdrawn EXCEPT ![l] = TRUE]
        /\ text' = text /\ source' = source
    BY <1>5 DEF Withdraw, Correctable, rowVars
  <2>2. withdrawn'[l] = TRUE /\ \A m \in Lines \ {l} : withdrawn'[m] = withdrawn[m]
    BY <1>0, <2>1
  <2>3. withdrawn'[l] = ("withdraw" = "withdraw") /\ text'[l] = text[l]
    BY <2>1, <2>2
  <2>4. {} \in SUBSET People /\ NoText \in Texts \union {NoText}
    OBVIOUS
  <2> QED BY <2>1, <2>2, <2>3, <2>4, ReviseHistory
<1>6. ASSUME NEW r \in Recaps, CancelAuto(r) PROVE HistoryInv'
  <2>1. /\ source' = [source EXCEPT ![r] = "gone"]
        /\ revs' = [l \in Lines |-> IF l[1] = r THEN <<>> ELSE revs[l]]
        /\ UNCHANGED <<text, withdrawn>>
    BY <1>6 DEF CancelAuto
  <2> SUFFICES ASSUME NEW m \in Lines
               PROVE  /\ Replays(revs'[m], text'[m], withdrawn'[m])
                      /\ source'[m[1]] = "none" => revs'[m] = <<>>
    BY DEF HistoryInv
  <2>2. CASE m[1] = r
    BY <2>1, <2>2, NoHistoryReplays
  <2>3. CASE m[1] # r
    <3>1. revs'[m] = revs[m] /\ source'[m[1]] = source[m[1]]
      BY <2>1, <2>3, LineParts DEF TypeInv, TypeOK
    <3> QED BY <2>1, <3>1 DEF HistoryInv
  <2> QED BY <2>2, <2>3
<1>7. ASSUME NEW r \in Recaps, Cite(r) \/ CancelAutoFails(r) PROVE HistoryInv'
  BY <1>1, <1>7 DEF Cite, CancelAutoFails, rowVars, lineVars
<1>8. ASSUME NEW p \in People, NEW l \in Lines,
             (\E d \in BOOLEAN : Ack(p, l, d)) \/ ManualRemind(p, l)
      PROVE  HistoryInv'
  BY <1>1, <1>8 DEF Ack, ManualRemind, rowVars, lineVars
<1>9. CASE SoftRemind \/ AutoRemind \/ Tick \/ Restart \/ UNCHANGED vars
  BY <1>1, <1>9 DEF SoftRemind, AutoRemind, Tick, Restart, vars, rowVars, lineVars
<1> QED
  BY <1>2, <1>3, <1>4, <1>5, <1>6, <1>7, <1>8, <1>9 DEF Next

\* A line's corrections and its withdrawal form one unbroken history that ends
\* in what the ledger shows.
THEOREM HistoriesReplay == Spec => []HistoryReplays
<1>1. Init => HistoryInv
  <2>1. Init => \A l \in Lines : revs[l] = <<>>
    BY DEF Init
  <2> QED BY <2>1, NoHistoryReplays DEF HistoryInv
<1>2. HistoryInv => HistoryReplays
  BY DEF HistoryInv, HistoryReplays, Replays
<1> QED
  BY <1>1, <1>2, HistoryStep, TypesHold, PTL DEF Spec

-----------------------------------------------------------------------------
(* The automatic reminder.                                                 *)

\* SilenceIsBroken is not inductive.  What keeps a line from going unasked too
\* long is that it has not been quiet for longer than since its last automatic
\* reminder, and that the sweep of a day leaves no line behind whose reminder
\* is due.
QuietSinceAsked ==
    \A l \in Lines : autoLast[l] # Never =>
        autoLast[l] <= now /\ quiet[l] <= now - autoLast[l]

NoneLeftBehind ==
    "auto" \in swept => \A l \in Lines : Outstanding(l) =>
        quiet[l] = 0 \/ (autoLast[l] # Never /\ now - autoLast[l] < AutoEvery)

SilenceInv == SilenceIsBroken /\ QuietSinceAsked /\ NoneLeftBehind

\* A step that makes no line outstanding, and starts no line's silence, but
\* may end one.
Calm ==
    /\ now' = now
    /\ ("auto" \in swept' => "auto" \in swept)
    /\ \A l \in Lines :
        /\ Outstanding(l)' => Outstanding(l) \/ quiet'[l] = 0
        /\ \/ quiet'[l] = 0 /\ autoLast'[l] = Never
           \/ autoLast'[l] = autoLast[l] /\ quiet'[l] \in {0, quiet[l]}

LEMMA CalmStep == TypeInv /\ SilenceInv /\ Calm => SilenceInv'
<1> SUFFICES ASSUME TypeInv, SilenceInv, Calm PROVE SilenceInv'
  OBVIOUS
<1>0. /\ now \in Nat /\ now' = now /\ AutoEvery \in Nat \ {0}
      /\ \A l \in Lines : quiet[l] \in Nat /\ autoLast[l] \in Nat \union {Never}
  BY LedgerAssumption DEF TypeInv, TypeOK, Calm
<1>1. SilenceIsBroken'
  BY <1>0 DEF SilenceInv, SilenceIsBroken, Calm
<1>2. QuietSinceAsked'
  <2> SUFFICES ASSUME NEW l \in Lines, autoLast'[l] # Never
               PROVE  autoLast'[l] <= now' /\ quiet'[l] <= now' - autoLast'[l]
    BY DEF QuietSinceAsked
  <2>1. autoLast'[l] = autoLast[l] /\ quiet'[l] \in {0, quiet[l]}
    BY DEF Calm
  <2>2. autoLast[l] <= now /\ quiet[l] <= now - autoLast[l]
    BY <2>1 DEF SilenceInv, QuietSinceAsked
  <2> QED BY <1>0, <2>1, <2>2
<1>3. NoneLeftBehind'
  <2> SUFFICES ASSUME "auto" \in swept', NEW l \in Lines, Outstanding(l)', quiet'[l] # 0
               PROVE  autoLast'[l] # Never /\ now' - autoLast'[l] < AutoEvery
    BY DEF NoneLeftBehind
  <2>1. Outstanding(l) /\ autoLast'[l] = autoLast[l] /\ quiet[l] # 0 /\ "auto" \in swept
    BY DEF Calm
  <2> QED BY <1>0, <2>1 DEF SilenceInv, NoneLeftBehind
<1> QED BY <1>1, <1>2, <1>3 DEF SilenceInv

LEMMA SilenceStep == TypeInv /\ SilenceInv /\ [Next]_vars => SilenceInv'
<1> SUFFICES ASSUME TypeInv, SilenceInv, [Next]_vars PROVE SilenceInv'
  OBVIOUS
<1>0. /\ now \in Nat /\ AutoEvery \in Nat \ {0} /\ Never \notin Nat
      /\ acks \in [Lines -> SUBSET People]
      /\ quiet \in [Lines -> Nat]
      /\ autoLast \in [Lines -> Nat \union {Never}]
      /\ source \in [Recaps -> Sources] /\ count \in [Recaps -> 0 .. MaxLines]
      /\ born \in [Recaps -> Nat]
  BY LedgerAssumption DEF TypeInv, TypeOK
<1>1. CASE UNCHANGED <<source, count, born, now, swept, acks, autoLast, quiet>>
  <2>1. Calm
    BY <1>1 DEF Calm, Outstanding, IsLine, Exists, Age
  <2> QED BY <2>1, CalmStep
<1>2. ASSUME NEW r \in Recaps, NEW kind, NEW n, Record(r, kind, n) PROVE SilenceInv'
  <2>1. /\ source' = [source EXCEPT ![r] = kind]
        /\ count' = [count EXCEPT ![r] = n]
        /\ born' = [born EXCEPT ![r] = now]
        /\ UNCHANGED <<acks, autoLast, quiet, now, swept>>
    BY <1>2 DEF Record, ackVars, remindVars, timeVars
  <2>2. ASSUME NEW l \in Lines, Outstanding(l)' PROVE Outstanding(l)
    <3>1. CASE l[1] = r
      <4>1. born'[l[1]] = now
        BY <1>0, <2>1, <3>1
      <4>2. AutoEvery <= now - now
        BY <2>1, <2>2, <4>1 DEF Outstanding, Age
      <4> QED BY <1>0, <4>2
    <3>2. CASE l[1] # r
      <4>1. /\ source'[l[1]] = source[l[1]] /\ count'[l[1]] = count[l[1]]
            /\ born'[l[1]] = born[l[1]]
        BY <1>0, <2>1, <3>2, LineParts
      <4> QED BY <2>1, <2>2, <4>1 DEF Outstanding, IsLine, Exists, Age
    <3> QED BY <3>1, <3>2
  <2>3. Calm
    BY <2>1, <2>2 DEF Calm
  <2> QED BY <2>3, CalmStep
<1>3. ASSUME NEW p \in People, NEW l \in Lines, NEW d \in BOOLEAN, Ack(p, l, d)
      PROVE  SilenceInv'
  <2>1. /\ acks' = [acks EXCEPT ![l] = acks[l] \union {p}]
        /\ UNCHANGED <<source, count, born, autoLast, quiet, now, swept>>
    BY <1>3 DEF Ack, rowVars, remindVars, timeVars
  <2>2. \A m \in Lines : acks[m] \subseteq acks'[m]
    BY <1>0, <2>1
  <2>3. ASSUME NEW m \in Lines, Outstanding(m)' PROVE Outstanding(m)
    BY <2>1, <2>2, <2>3 DEF Outstanding, IsLine, Exists, Age
  <2>4. Calm
    BY <2>1, <2>3 DEF Calm
  <2> QED BY <2>4, CalmStep
<1>4. ASSUME NEW p \in People, NEW l \in Lines, NEW t, EditText(p, l, t) PROVE SilenceInv'
  <2>1. /\ acks' = [acks EXCEPT ![l] = {}]
        /\ quiet' = [quiet EXCEPT ![l] = 0]
        /\ UNCHANGED <<source, count, born, autoLast, now, swept>>
    BY <1>4 DEF EditText, ResetSignatures, rowVars, timeVars
  <2>2. ASSUME NEW m \in Lines
        PROVE  /\ Outstanding(m)' => Outstanding(m) \/ quiet'[m] = 0
               /\ quiet'[m] \in {0, quiet[m]}
    <3>1. CASE m = l
      BY <1>0, <2>1, <3>1
    <3>2. CASE m # l
      <4>1. acks'[m] = acks[m] /\ quiet'[m] = quiet[m]
        BY <1>0, <2>1, <3>2
      <4> QED BY <2>1, <4>1 DEF Outstanding, IsLine, Exists, Age
    <3> QED BY <3>1, <3>2
  <2>3. Calm
    BY <2>1, <2>2 DEF Calm
  <2> QED BY <2>3, CalmStep
<1>5. ASSUME NEW r \in Recaps, CancelAuto(r) \/ CancelAutoFails(r) PROVE SilenceInv'
  <2>1. /\ acks' = [l \in Lines |-> IF l[1] = r THEN {} ELSE acks[l]]
        /\ autoLast' = [l \in Lines |-> IF l[1] = r THEN Never ELSE autoLast[l]]
        /\ quiet' = [l \in Lines |-> IF l[1] = r THEN 0 ELSE quiet[l]]
        /\ source' \in {source, [source EXCEPT ![r] = "gone"]}
        /\ UNCHANGED <<count, born, now, swept>>
    BY <1>5 DEF CancelAuto, CancelAutoFails, DropRows, rowVars, timeVars
  <2>2. ASSUME NEW m \in Lines, m[1] # r PROVE Outstanding(m)' => Outstanding(m)
    <3>1. acks'[m] = acks[m] /\ source'[m[1]] = source[m[1]]
      BY <1>0, <2>1, <2>2, LineParts
    <3> QED BY <2>1, <3>1 DEF Outstanding, IsLine, Exists, Age
  <2>3. Calm
    BY <2>1, <2>2 DEF Calm
  <2> QED BY <2>3, CalmStep
<1>6. CASE AutoRemind
  <2>1. /\ autoLast' = [l \in Lines |-> IF AutoDue(l) THEN now ELSE autoLast[l]]
        /\ quiet' = [l \in Lines |-> IF AutoDue(l) THEN 0 ELSE quiet[l]]
        /\ UNCHANGED <<source, count, born, now, acks>>
    BY <1>6 DEF AutoRemind, rowVars, ackVars
  <2>2. \A l \in Lines : Outstanding(l)' <=> Outstanding(l)
    BY <2>1 DEF Outstanding, IsLine, Exists, Age
  <2>3. SilenceIsBroken'
    BY <1>0, <2>1 DEF SilenceInv, SilenceIsBroken
  <2>4. QuietSinceAsked'
    <3> SUFFICES ASSUME NEW l \in Lines, autoLast'[l] # Never
                 PROVE  autoLast'[l] <= now' /\ quiet'[l] <= now' - autoLast'[l]
      BY DEF QuietSinceAsked
    <3>1. CASE AutoDue(l)
      BY <1>0, <2>1, <3>1
    <3>2. CASE ~AutoDue(l)
      BY <2>1, <3>2 DEF SilenceInv, QuietSinceAsked
    <3> QED BY <3>1, <3>2
  <2>5. NoneLeftBehind'
    <3> SUFFICES ASSUME NEW l \in Lines, Outstanding(l)'
                 PROVE  quiet'[l] = 0 \/ (autoLast'[l] # Never /\ now' - autoLast'[l] < AutoEvery)
      BY DEF NoneLeftBehind
    <3>1. CASE AutoDue(l)
      BY <2>1, <3>1
    <3>2. CASE ~AutoDue(l)
      <4>1. autoLast[l] # Never /\ ~(now - autoLast[l] >= AutoEvery)
        BY <2>2, <3>2 DEF AutoDue
      <4>2. autoLast[l] \in Nat
        BY <1>0, <4>1
      <4> QED BY <1>0, <2>1, <3>2, <4>1, <4>2
    <3> QED BY <3>1, <3>2
  <2> QED BY <2>3, <2>4, <2>5 DEF SilenceInv
<1>7. CASE Tick
  <2>1. /\ "auto" \in swept /\ swept' = {} /\ now' = now + 1
        /\ quiet' = [l \in Lines |-> IF Awaited(l) THEN quiet[l] + 1 ELSE 0]
        /\ autoLast' = autoLast
    BY <1>7 DEF Tick
  <2>2. \A l \in Lines : autoLast[l] # Never =>
            autoLast[l] \in Nat /\ autoLast[l] <= now /\ quiet[l] <= now - autoLast[l]
    BY <1>0 DEF SilenceInv, QuietSinceAsked
  <2>3. SilenceIsBroken'
    <3> SUFFICES ASSUME NEW l \in Lines PROVE quiet'[l] <= AutoEvery
      BY DEF SilenceIsBroken
    <3>1. CASE Awaited(l)
      <4>1. quiet[l] = 0 \/ (autoLast[l] # Never /\ now - autoLast[l] < AutoEvery)
        BY <2>1, <3>1 DEF Awaited, SilenceInv, NoneLeftBehind
      <4>2. quiet'[l] = quiet[l] + 1
        BY <2>1, <3>1
      <4> QED BY <1>0, <2>2, <4>1, <4>2
    <3>2. CASE ~Awaited(l)
      BY <1>0, <2>1, <3>2
    <3> QED BY <3>1, <3>2
  <2>4. QuietSinceAsked'
    <3> SUFFICES ASSUME NEW l \in Lines, autoLast[l] # Never
                 PROVE  autoLast[l] <= now + 1 /\ quiet'[l] <= (now + 1) - autoLast[l]
      BY <2>1 DEF QuietSinceAsked
    <3>1. quiet'[l] = quiet[l] + 1 \/ quiet'[l] = 0
      BY <2>1
    <3> QED BY <1>0, <2>2, <3>1
  <2>5. NoneLeftBehind'
    BY <2>1 DEF NoneLeftBehind
  <2> QED BY <2>3, <2>4, <2>5 DEF SilenceInv
<1>8. CASE SoftRemind
  <2>1. Calm
    BY <1>8 DEF SoftRemind, Calm, Outstanding, IsLine, Exists, Age, rowVars, ackVars
  <2> QED BY <2>1, CalmStep
<1>9. ASSUME NEW r \in Recaps, Cite(r) PROVE SilenceInv'
  BY <1>1, <1>9 DEF Cite, ackVars, remindVars, timeVars
<1>10. ASSUME NEW p \in People, NEW l \in Lines,
              EditWhy(p, l) \/ Withdraw(p, l) \/ ManualRemind(p, l)
       PROVE  SilenceInv'
  BY <1>1, <1>10 DEF EditWhy, Withdraw, ManualRemind, rowVars, ackVars, remindVars, timeVars
<1>11. CASE Restart \/ UNCHANGED vars
  BY <1>1, <1>11 DEF Restart, vars, rowVars, ackVars, remindVars, timeVars
<1> QED
  BY <1>2, <1>3, <1>4, <1>5, <1>6, <1>7, <1>8, <1>9, <1>10, <1>11 DEF Next

\* No signature that a line still standing awaits goes unasked for longer than the
\* automatic sweep's interval, whatever that interval is
\* (sweepDecisionAckAutoReminders).
THEOREM SilenceEnds == Spec => []SilenceIsBroken
<1>1. Init => SilenceInv
  BY LedgerAssumption DEF Init, SilenceInv, SilenceIsBroken, QuietSinceAsked, NoneLeftBehind
<1>2. SilenceInv => SilenceIsBroken
  BY DEF SilenceInv
<1> QED
  BY <1>1, <1>2, SilenceStep, TypesHold, PTL DEF Spec
=============================================================================

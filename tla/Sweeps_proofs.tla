---------------------------- MODULE Sweeps_proofs ----------------------------
(***************************************************************************)
(* The three components a timer of index.ts serves, over one group:        *)
(* reminders, handovers and files in circulation.  What holds of each for  *)
(* any people, dates and number of revisions, and any delays.              *)
(***************************************************************************)
EXTENDS Circulation, Handover, Reminders, FiniteSetTheorems, WellFoundedInduction, TLAPS

-----------------------------------------------------------------------------
(* Files in circulation: the types.                                        *)

USE CirculationAssumption

\* What an upload has read of the row is a blob the file had.
UploadsRead == \A u \in uploads : u.old \in 1 .. blobs

CirculationInv == TypeOK /\ UploadsRead

\* A revision, whoever publishes it and whatever the row told them.
LEMMA RevisedType ==
    ASSUME CirculationInv, NEW p \in People, NEW asks \in BOOLEAN, Revised(p, asks)
    PROVE  /\ rev' \in 1 .. MaxRev
           /\ signed' = {} /\ past' \subseteq People \X (1 .. rev' - 1)
           /\ jobs' \subseteq Job
           /\ age' \in Ages /\ auto' \in Ages
           /\ given \subseteq People \X (1 .. rev')
           /\ known' \subseteq People
           /\ silent' \subseteq People
<1>1. /\ rev' = rev + 1 /\ rev \in 1 .. MaxRev /\ rev < MaxRev /\ MaxRev \in Nat
      /\ past' = past \cup (signed \X {rev}) /\ signed' = {}
      /\ past \subseteq People \X (1 .. rev - 1) /\ signed \subseteq People
      /\ given \subseteq People \X (1 .. rev)
  BY DEF Revised, FiledUnder, CirculationInv, TypeOK
<1>2. past' \subseteq People \X (1 .. rev' - 1)
  BY <1>1
<1>3. given \subseteq People \X (1 .. rev')
  BY <1>1
<1>4. [rev |-> rev + 1, ack |-> asks, by |-> p] \in Job
  BY <1>1 DEF Job, CirculationInv, TypeOK
<1>5. /\ jobs' \subseteq Job /\ age' \in Ages /\ auto' \in Ages
      /\ known' \subseteq People /\ silent' \subseteq People
  BY <1>4 DEF Revised, Ages, CirculationInv, TypeOK
<1> QED BY <1>1, <1>2, <1>3, <1>5

LEMMA CirculationStarts == Init => CirculationInv
<1> SUFFICES ASSUME Init PROVE CirculationInv
  OBVIOUS
<1>1. /\ members = {Creator} /\ owner = Creator /\ trashed = FALSE /\ required = FALSE
      /\ rev = 1 /\ blob = 1 /\ blobs = 1 /\ silent = {}
      /\ age = 0 /\ auto = Patience /\ manual = Patience
      /\ signed = {} /\ past = {} /\ versions = {} /\ uploads = {} /\ jobs = {}
      /\ given = {} /\ known = {} /\ dropped = {}
  BY DEF Init
<1>2. members \subseteq People /\ owner \in People /\ rev \in 1 .. MaxRev
      /\ blobs \in Nat /\ blob \in 1 .. blobs
      /\ age \in Ages /\ auto \in Ages /\ manual \in Ages
  BY <1>1 DEF Ages
<1>3. /\ signed \subseteq People /\ past \subseteq People \X (1 .. rev - 1)
      /\ versions \subseteq 1 .. blobs /\ uploads \subseteq Upload /\ jobs \subseteq Job
      /\ given \subseteq People \X (1 .. rev) /\ known \subseteq People
      /\ dropped \subseteq 1 .. blobs
  BY <1>1
<1>4. UploadsRead
  BY <1>1 DEF UploadsRead
<1> QED BY <1>1, <1>2, <1>3, <1>4 DEF CirculationInv, TypeOK

LEMMA CirculationStep == CirculationInv /\ [Next]_vars => CirculationInv'
<1> SUFFICES ASSUME CirculationInv, [Next]_vars PROVE CirculationInv'
  OBVIOUS
<1> USE DEF CirculationInv, TypeOK, UploadsRead, file, content, clocks
<1>1. CASE Tick
  BY <1>1 DEF Tick, Older, Ages
<1>2. ASSUME NEW p \in People, JoinOrLeave(p) PROVE CirculationInv'
  BY <1>2 DEF JoinOrLeave, Joins, Leaves
<1>3. CASE TrashOrRestore
  BY <1>3 DEF TrashOrRestore
<1>4. CASE Touch
  BY <1>4 DEF Touch, SinceRevision, Ages
<1>5. ASSUME NEW p \in People, NEW on \in BOOLEAN, Request(p, on) PROVE CirculationInv'
  BY <1>5 DEF Request, Unaware
<1>6. ASSUME NEW p \in People, Sign(p) PROVE CirculationInv'
  BY <1>6 DEF Sign
<1>7. ASSUME NEW p \in People, Remind(p) PROVE CirculationInv'
  BY <1>7 DEF Remind, Ages
<1>8. CASE Sweep
  BY <1>8 DEF Sweep, Waiting, Ages
<1>9. ASSUME NEW p \in People, Revise(p) PROVE CirculationInv'
  <2>1. required \in BOOLEAN /\ Revised(p, required)
    BY <1>9 DEF Revise
  <2>2. UNCHANGED <<members, owner, trashed, required, blob, versions, uploads, blobs,
                    dropped, manual, given>>
    BY <1>9 DEF Revise
  <2> QED BY <2>1, <2>2, RevisedType
<1>10. ASSUME NEW p \in People, UploadStart(p) PROVE CirculationInv'
  BY <1>10 DEF UploadStart, Upload
<1>11. ASSUME NEW u \in uploads, UploadEnd(u) PROVE CirculationInv'
  <2>1. u.by \in People /\ u.ack \in BOOLEAN /\ Revised(u.by, u.ack)
    BY <1>11 DEF UploadEnd, Upload
  <2>2. /\ owner' = u.by /\ blobs' = blobs + 1 /\ blob' = blobs + 1
        /\ versions' = versions \cup {u.old}
        /\ dropped' \subseteq dropped \cup {blob}
        /\ uploads' \subseteq uploads
        /\ UNCHANGED <<members, trashed, required, manual, given>>
    BY <1>11 DEF UploadEnd, Replaced
  <2>3. /\ blobs \in Nat /\ u.old \in 1 .. blobs /\ blob \in 1 .. blobs
        /\ versions \subseteq 1 .. blobs /\ dropped \subseteq 1 .. blobs
    OBVIOUS
  <2>4. \A b \in 1 .. blobs : b \in 1 .. blobs'
    BY <2>2, <2>3
  <2>5. blobs' \in Nat /\ blob' \in 1 .. blobs'
    BY <2>2, <2>3
  <2>6. versions' \subseteq 1 .. blobs' /\ dropped' \subseteq 1 .. blobs' /\ UploadsRead'
    BY <2>2, <2>3, <2>4
  <2> QED BY <2>1, <2>2, <2>5, <2>6, RevisedType
<1>12. ASSUME NEW u \in uploads, UploadFails(u) PROVE CirculationInv'
  BY <1>12 DEF UploadFails, Replaced
<1>13. ASSUME NEW j \in jobs, Notify(j) PROVE CirculationInv'
  BY <1>13 DEF Notify, Tells, Unaware
<1>14. CASE Restart
  BY <1>14 DEF Restart, Unaware, Ages
<1>15. CASE UNCHANGED vars
  BY <1>15 DEF vars
<1> HIDE DEF CirculationInv, TypeOK, UploadsRead, file, content, clocks
<1> QED
  BY <1>1, <1>2, <1>3, <1>4, <1>5, <1>6, <1>7, <1>8, <1>9, <1>10, <1>11, <1>12, <1>13,
     <1>14, <1>15 DEF Next

\* The variables keep their types (files.ts, fileai.ts): what the history holds
\* is of earlier revisions, what is kept as a version was once the content.
THEOREM CirculationTypes == Spec => []TypeOK
<1>1. Init => CirculationInv
  BY CirculationStarts
<1>2. CirculationInv => TypeOK
  BY DEF CirculationInv
<1> QED BY <1>1, <1>2, CirculationStep, PTL DEF Spec

-----------------------------------------------------------------------------
(* The signatures and the versions.                                        *)

LEMMA RecordStep ==
    CirculationInv /\ SignaturesKept /\ NoVersionLost /\ [Next]_vars
        => SignaturesKept' /\ NoVersionLost'
<1> SUFFICES ASSUME CirculationInv, SignaturesKept, NoVersionLost, [Next]_vars
             PROVE  SignaturesKept' /\ NoVersionLost'
  OBVIOUS
<1> USE DEF file, content, clocks, SignaturesKept, NoVersionLost
<1>1. CASE UNCHANGED <<rev, signed, past, given, blob, versions, blobs, dropped>>
  BY <1>1
<1>2. ASSUME NEW p \in People, Sign(p) PROVE SignaturesKept' /\ NoVersionLost'
  <2>1. /\ signed' = signed \cup {p} /\ given' = given \cup {<<p, rev>>}
        /\ UNCHANGED <<rev, past, blob, versions, blobs, dropped>>
    BY <1>2 DEF Sign
  <2> QED BY <2>1
<1>3. ASSUME NEW p \in People, NEW asks \in BOOLEAN, Revised(p, asks), given' = given
      PROVE  SignaturesKept'
  <2>1. past' = past \cup (signed \X {rev}) /\ signed' = {}
    BY <1>3 DEF Revised, FiledUnder
  <2>2. given' = past' /\ signed' \X {rev'} = {}
    BY <1>3, <2>1
  <2> QED BY <2>2
<1>4. ASSUME NEW p \in People, Revise(p) PROVE SignaturesKept' /\ NoVersionLost'
  BY <1>3, <1>4 DEF Revise, CirculationInv, TypeOK
<1>5. ASSUME NEW u \in uploads, UploadEnd(u) PROVE SignaturesKept' /\ NoVersionLost'
  <2>1. u.by \in People /\ u.ack \in BOOLEAN
    BY DEF Upload, CirculationInv, TypeOK
  <2>2. SignaturesKept'
    BY <1>3, <1>5, <2>1 DEF UploadEnd
  <2>3. /\ blobs' = blobs + 1 /\ blob' = blobs + 1 /\ blobs \in Nat
        /\ versions' = versions \cup {u.old}
        /\ dropped' = IF u.old # blob THEN dropped \cup {blob} ELSE dropped
    BY <1>5 DEF UploadEnd, Replaced, CirculationInv, TypeOK
  <2>4. blob \in versions' \cup dropped'
    BY <2>3
  <2>5. ASSUME NEW b \in 1 .. blobs' PROVE b \in {blob'} \cup versions' \cup dropped'
    <3>1. b = blob' \/ b \in 1 .. blobs
      BY <2>3
    <3> QED BY <2>3, <2>4, <3>1
  <2> QED BY <2>2, <2>5
<1>6. ASSUME NEW u \in uploads, UploadFails(u) PROVE SignaturesKept' /\ NoVersionLost'
  BY <1>6 DEF UploadFails
<1>7. ASSUME NEW p \in People, NEW on \in BOOLEAN,
             JoinOrLeave(p) \/ Remind(p) \/ UploadStart(p) \/ Request(p, on)
      PROVE  SignaturesKept' /\ NoVersionLost'
  BY <1>1, <1>7 DEF JoinOrLeave, Remind, UploadStart, Request
<1>8. ASSUME NEW j \in jobs, Notify(j) PROVE SignaturesKept' /\ NoVersionLost'
  BY <1>1, <1>8 DEF Notify
<1>9. CASE Tick \/ TrashOrRestore \/ Touch \/ Sweep \/ Restart \/ UNCHANGED vars
  BY <1>1, <1>9 DEF Tick, TrashOrRestore, Touch, Sweep, Restart, vars
<1> HIDE DEF SignaturesKept, NoVersionLost, file, content, clocks
<1> QED
  BY <1>2, <1>4, <1>5, <1>6, <1>7, <1>8, <1>9 DEF Next

LEMMA RecordHolds == Spec => [](CirculationInv /\ SignaturesKept /\ NoVersionLost)
<1>1. Init => CirculationInv /\ SignaturesKept /\ NoVersionLost
  <2> SUFFICES ASSUME Init PROVE SignaturesKept /\ NoVersionLost
    BY CirculationStarts
  <2>1. past = {} /\ signed = {} /\ given = {} /\ blobs = 1 /\ blob = 1
    BY DEF Init
  <2> QED BY <2>1 DEF SignaturesKept, NoVersionLost
<1> QED BY <1>1, CirculationStep, RecordStep, PTL DEF Spec

\* No signature is lost or stands under a revision it was not given to, however
\* revisions, signatures and uploads follow each other (files.ts, reviseFile).
THEOREM SignaturesStay == Spec => []SignaturesKept
BY RecordHolds, PTL

\* No content of the file is lost but for that of an upload that another one, which
\* had begun before, replaced (files.ts, upload-version).
THEOREM VersionsStay == Spec => []NoVersionLost
BY RecordHolds, PTL

-----------------------------------------------------------------------------
(* The notices.                                                            *)

\* The job that still has to tell is one that will: it was started with
\* signatures required.
ResetWillBeTold ==
    required =>
        \A p \in People :
            <<p, rev - 1>> \in past =>
                \/ p \in signed \cup known \cup silent
                \/ \E j \in jobs : j.rev = rev /\ j.ack

LEMMA ToldStep == CirculationInv /\ ResetWillBeTold /\ [Next]_vars => ResetWillBeTold'
<1> SUFFICES ASSUME CirculationInv, ResetWillBeTold, [Next]_vars PROVE ResetWillBeTold'
  OBVIOUS
<1> USE DEF file, content, clocks
<1>1. CASE /\ UNCHANGED <<required, rev, past, silent, jobs>>
           /\ signed \subseteq signed' /\ known \subseteq known'
  BY <1>1 DEF ResetWillBeTold
<1>2. ASSUME NEW p \in People, NEW on \in BOOLEAN, Request(p, on) PROVE ResetWillBeTold'
  <2> SUFFICES ASSUME on, NEW q \in People, <<q, rev - 1>> \in past
               PROVE  q \in signed' \cup known' \cup silent'
    BY <1>2 DEF Request, ResetWillBeTold
  <2>1. /\ signed' = signed /\ known' = known \cup (members \ signed) \cup {p}
        /\ silent' = silent \cup (Unaware \ members)
    BY <1>2 DEF Request
  <2> QED BY <2>1 DEF Unaware
<1>3. ASSUME NEW p \in People, NEW asks \in BOOLEAN, Revised(p, asks), required' = required
      PROVE  ResetWillBeTold'
  <2>1. /\ rev' = rev + 1 /\ past' = past \cup (signed \X {rev})
        /\ [rev |-> rev + 1, ack |-> asks, by |-> p] \in jobs'
        /\ silent' = IF required /\ ~asks THEN signed ELSE {}
    BY <1>3 DEF Revised, FiledUnder
  <2>2. /\ rev \in Nat /\ past \subseteq People \X (1 .. rev - 1)
    BY DEF CirculationInv, TypeOK
  <2>3. \A q \in People : <<q, rev' - 1>> \in past' => q \in signed
    BY <2>1, <2>2
  <2>4. CASE asks
    BY <2>1, <2>4 DEF ResetWillBeTold
  <2>5. CASE ~asks
    BY <1>3, <2>1, <2>3, <2>5 DEF ResetWillBeTold
  <2> QED BY <2>4, <2>5
<1>4. ASSUME NEW p \in People, Revise(p) PROVE ResetWillBeTold'
  BY <1>3, <1>4 DEF Revise, CirculationInv, TypeOK
<1>5. ASSUME NEW u \in uploads, UploadEnd(u) PROVE ResetWillBeTold'
  <2>1. u.by \in People /\ u.ack \in BOOLEAN
    BY DEF Upload, CirculationInv, TypeOK
  <2> QED BY <1>3, <1>5, <2>1 DEF UploadEnd
<1>6. ASSUME NEW j \in jobs, Notify(j) PROVE ResetWillBeTold'
  <2>1. UNCHANGED <<required, rev, past, signed, members>> /\ jobs' = jobs \ {j}
    BY <1>6 DEF Notify
  <2>2. CASE j.rev = rev /\ j.ack
    <3>1. known' = known \cup members /\ silent' = silent \cup (Unaware \ members)
      BY <1>6, <2>2 DEF Notify, Tells
    <3> QED BY <2>1, <3>1 DEF ResetWillBeTold, Unaware
  <2>3. CASE ~(j.rev = rev /\ j.ack)
    <3>1. known' = known /\ silent' = silent
      BY <1>6, <2>3 DEF Notify
    <3> QED BY <2>1, <2>3, <3>1 DEF ResetWillBeTold
  <2> QED BY <2>2, <2>3
<1>7. CASE Restart
  <2>1. /\ UNCHANGED <<required, rev, past, signed, known>>
        /\ silent' = IF \E j \in jobs : j.ack /\ j.rev = rev THEN silent \cup Unaware ELSE silent
    BY <1>7 DEF Restart
  <2> QED BY <2>1 DEF ResetWillBeTold, Unaware
<1>8. ASSUME NEW p \in People, JoinOrLeave(p) \/ Sign(p) \/ Remind(p) \/ UploadStart(p)
      PROVE  ResetWillBeTold'
  BY <1>1, <1>8 DEF JoinOrLeave, Sign, Remind, UploadStart
<1>9. ASSUME NEW u \in uploads, UploadFails(u) PROVE ResetWillBeTold'
  BY <1>1, <1>9 DEF UploadFails
<1>10. CASE Tick \/ TrashOrRestore \/ Touch \/ Sweep \/ UNCHANGED vars
  BY <1>1, <1>10 DEF Tick, TrashOrRestore, Touch, Sweep, vars
<1> HIDE DEF file, content, clocks
<1> QED
  BY <1>2, <1>4, <1>5, <1>6, <1>7, <1>8, <1>9, <1>10 DEF Next

\* Whoever's signature a revision has reset is told to sign again, whatever the
\* order of revisions, uploads, requests and the answers of the AI, but for the
\* cases the property names (fileai.ts, afterRevise).
THEOREM ResetsAreTold == Spec => []ResetIsTold
<1>1. Init => CirculationInv /\ ResetWillBeTold
  BY CirculationStarts DEF Init, ResetWillBeTold
<1>2. ResetWillBeTold => ResetIsTold
  BY DEF ResetWillBeTold, ResetIsTold
<1> QED BY <1>1, <1>2, CirculationStep, ToldStep, PTL DEF Spec

HIDE CirculationAssumption

-----------------------------------------------------------------------------
(* Handovers: the messages a draft is made from.                           *)

\* A nonempty set of naturals has a least member.
LEMMA Least ==
    ASSUME NEW S \in SUBSET Nat, S # {}
    PROVE  \E m \in S : \A k \in S : ~(k < m)
<1>1. PICK m \in S : \A k \in S : <<k, m>> \notin OpToRel(<, Nat)
  BY WFMin, NatLessThanWellFounded, Zenon
<1> QED BY <1>1, Zenon DEF OpToRel

\* A nonempty set of numbers up to n has a greatest member.
LEMMA Greatest ==
    ASSUME NEW n \in Nat, NEW S \in SUBSET (0 .. n), S # {}
    PROVE  \E m \in S : \A k \in S : k <= m
<1> DEFINE D == {d \in Nat : n - d \in S}
<1>1. PICK x \in S : TRUE
  OBVIOUS
<1>2. n - x \in Nat /\ n - (n - x) = x
  OBVIOUS
<1>3. D \in SUBSET Nat /\ D # {}
  BY <1>2
<1>4. PICK d \in D : \A k \in D : ~(k < d)
  BY <1>3, Least
<1>5. ASSUME NEW k \in S PROVE k <= n - d
  <2>1. n - k \in Nat /\ n - (n - k) = k
    OBVIOUS
  <2>2. n - k \in D
    BY <2>1
  <2>3. d \in Nat /\ n - k \in Nat /\ ~(n - k < d)
    BY <1>4, <2>1, <2>2
  <2>4. k \in Nat
    OBVIOUS
  <2> QED BY <2>3, <2>4
<1>6. n - d \in S
  BY <1>4
<1> QED BY <1>5, <1>6

\* How many messages are newer than m among S.
Newer(S, m) == {n \in S : n > m}

LEMMA NewerIsFinite ==
    ASSUME NEW S \in SUBSET Nat, IsFiniteSet(S), NEW m \in S
    PROVE  IsFiniteSet(Newer(S, m)) /\ Cardinality(Newer(S, m)) \in Nat
<1>1. Newer(S, m) \in SUBSET S
  BY DEF Newer
<1> QED BY <1>1, FS_Subset, FS_CardinalityType

\* LIMIT 120: the newest are never more.
LEMMA NewestFew ==
    ASSUME NEW S \in SUBSET Nat, IsFiniteSet(S)
    PROVE  /\ Newest(S) \subseteq S /\ IsFiniteSet(Newest(S))
           /\ Cardinality(Newest(S)) \in Nat /\ Cardinality(Newest(S)) <= Limit
<1>1. Newest(S) \subseteq S /\ IsFiniteSet(Newest(S)) /\ Cardinality(Newest(S)) \in Nat
  BY FS_Subset, FS_CardinalityType DEF Newest
<1>2. CASE Newest(S) = {}
  BY <1>1, <1>2, FS_EmptySet, HandoverAssumption
<1>3. CASE Newest(S) # {}
  <2>1. PICK m \in Newest(S) : \A k \in Newest(S) : ~(k < m)
    BY <1>1, <1>3, Least
  <2>2. m \in S /\ Cardinality(Newer(S, m)) < Limit
    BY <2>1 DEF Newest, Newer
  <2>3. ASSUME NEW k \in Newest(S) \ {m} PROVE k \in Newer(S, m)
    <3>1. k \in S /\ k \in Nat /\ m \in Nat /\ k # m /\ ~(k < m)
      BY <1>1, <2>1
    <3>2. k > m
      BY <3>1
    <3> QED BY <3>1, <3>2 DEF Newer
  <2>4. IsFiniteSet(Newer(S, m)) /\ Cardinality(Newer(S, m)) \in Nat
    BY <2>2, NewerIsFinite
  <2>5. Cardinality(Newest(S) \ {m}) = Cardinality(Newest(S)) - 1
    BY <1>1, <2>1, FS_RemoveElement
  <2>6. Cardinality(Newest(S) \ {m}) <= Cardinality(Newer(S, m))
    BY <2>3, <2>4, FS_Subset
  <2> QED BY <1>1, <2>2, <2>4, <2>5, <2>6, HandoverAssumption
<1> QED BY <1>1, <1>2, <1>3

\* What is cut off is older than all that is taken, and then the limit is reached.
LEMMA NewestCut ==
    ASSUME NEW S \in SUBSET Nat, IsFiniteSet(S), NEW m \in S, m \notin Newest(S)
    PROVE  Cardinality(Newest(S)) = Limit /\ \A n \in Newest(S) : n > m
<1> DEFINE Cut == S \ Newest(S)
           Counts == {Cardinality(Newer(S, c)) : c \in Cut}
<1>1. \A c \in S : IsFiniteSet(Newer(S, c)) /\ Cardinality(Newer(S, c)) \in Nat
  BY NewerIsFinite
<1>2. \A c \in S : c \in Newest(S) <=> Cardinality(Newer(S, c)) < Limit
  BY DEF Newest, Newer
<1>3. ASSUME NEW n \in Newest(S) PROVE n > m
  <2> SUFFICES ASSUME ~(n > m) PROVE FALSE
    OBVIOUS
  <2>1. n \in S /\ n \in Nat /\ m \in Nat
    BY DEF Newest
  <2>2. ASSUME NEW k \in Newer(S, m) PROVE k \in Newer(S, n)
    <3>1. k \in S /\ k \in Nat /\ k > m
      BY DEF Newer
    <3>2. k > n
      BY <2>1, <3>1
    <3> QED BY <3>1, <3>2 DEF Newer
  <2>3. Cardinality(Newer(S, m)) <= Cardinality(Newer(S, n))
    BY <1>1, <2>1, <2>2, FS_Subset
  <2> QED BY <1>1, <1>2, <2>1, <2>3, HandoverAssumption
\* The cut one with the fewest newer ones has only taken ones above it.
<1>4. Counts \in SUBSET Nat /\ Counts # {}
  BY <1>1
<1>5. PICK x \in Counts : \A k \in Counts : ~(k < x)
  BY <1>4, Least
<1>6. PICK c \in Cut : x = Cardinality(Newer(S, c))
  BY <1>5
<1>7. ASSUME NEW n \in Newer(S, c) PROVE n \in Newest(S)
  <2> SUFFICES ASSUME n \notin Newest(S) PROVE FALSE
    OBVIOUS
  <2>1. n \in Cut /\ n \in Nat /\ c \in Nat /\ n > c
    BY <1>6, <1>7 DEF Newer
  <2>2. ASSUME NEW k \in Newer(S, n) PROVE k \in Newer(S, c) \ {n}
    <3>1. k \in S /\ k \in Nat /\ k > n
      BY DEF Newer
    <3>2. k > c /\ k # n
      BY <2>1, <3>1
    <3> QED BY <3>1, <3>2 DEF Newer
  <2>3. IsFiniteSet(Newer(S, c) \ {n})
        /\ Cardinality(Newer(S, c) \ {n}) = Cardinality(Newer(S, c)) - 1
    BY <1>1, <1>6, <1>7, FS_RemoveElement
  <2>4. Cardinality(Newer(S, n)) <= Cardinality(Newer(S, c)) - 1
    BY <2>2, <2>3, FS_Subset
  <2>5. Cardinality(Newer(S, n)) \in Counts /\ Cardinality(Newer(S, n)) \in Nat /\ x \in Nat
    BY <1>1, <1>4, <1>5, <2>1
  <2> QED BY <1>5, <1>6, <2>4, <2>5
<1>8. IsFiniteSet(Newest(S)) /\ Cardinality(Newest(S)) \in Nat /\ Cardinality(Newest(S)) <= Limit
  BY NewestFew
<1>9. Cardinality(Newer(S, c)) <= Cardinality(Newest(S))
  BY <1>7, <1>8, FS_Subset
<1>10. Cardinality(Newer(S, c)) >= Limit
  BY <1>1, <1>2, <1>6, HandoverAssumption
<1>11. Cardinality(Newest(S)) = Limit
  BY <1>1, <1>6, <1>8, <1>9, <1>10, HandoverAssumption
<1> QED BY <1>3, <1>11

-----------------------------------------------------------------------------
(* Handovers: the types.                                                   *)

\* windowStart: the last handover there is, or twelve hours.
LEMMA WindowStarts ==
    ASSUME HandoverTypeOK
    PROVE  /\ WindowStart \in Int
           /\ Published # {} => \E i \in Published : WindowStart = hand[i].at
<1> DEFINE Ats == {hand[h].at : h \in Published}
<1>1. now \in Nat /\ FirstWindow \in Nat /\ MaxTime \in Nat /\ None \notin Int
  BY HandoverAssumption DEF HandoverTypeOK, Times
<1>2. \A h \in Published : hand[h].at \in 0 .. MaxTime
  BY DEF Published, HandoverTypeOK, Row, Times
<1>3. CASE Published = {}
  BY <1>1, <1>3 DEF WindowStart
<1>4. CASE Published # {}
  <2>1. Ats \in SUBSET (0 .. MaxTime) /\ Ats # {}
    BY <1>2, <1>4
  <2>2. \E t \in Ats : \A u \in Ats : u <= t
    BY <1>1, <2>1, Greatest
  <2>3. \E t \in Ats : \A h \in Published : hand[h].at <= t
    BY <2>2
  <2>4. WindowStart = CHOOSE t \in Ats : \A h \in Published : hand[h].at <= t
    BY <1>4 DEF WindowStart
  <2>5. WindowStart \in Ats
    BY <2>3, <2>4
  <2> QED BY <1>1, <2>1, <2>5
<1> QED BY <1>3, <1>4

\* Only finitely many messages have been written, whatever ids there are.
HandoverTypes == HandoverTypeOK /\ IsFiniteSet(Said)

LEMMA HandoverStarts == HandoverInit => HandoverTypes
<1> SUFFICES ASSUME HandoverInit PROVE HandoverTypes
  OBVIOUS
<1>1. MaxTime \in Nat /\ None \notin Int
  BY HandoverAssumption
<1>2. ByHand \in Draft
  BY <1>1 DEF ByHand, Draft, Times
<1>3. Said = {}
  BY DEF HandoverInit, Said
<1>4. hand \in [Hands -> Row]
  BY <1>2 DEF HandoverInit, Row
<1>5. ack \in [Hands -> [People -> Ack]]
  BY DEF HandoverInit, Unsigned, Ack
<1>6. /\ now \in Times /\ members \subseteq People /\ said \in [Msgs -> Times \cup {None}]
      /\ screen = None /\ checks \subseteq Hands \X People \X Notes
      /\ notices \in [Hands -> Nat] /\ overtaken \subseteq Hands \X People
  BY <1>1 DEF HandoverInit, Times
<1> QED BY <1>3, <1>4, <1>5, <1>6, FS_EmptySet DEF HandoverTypes, HandoverTypeOK

\* What a draft is made from: no more than the limit, of what has been said.
LEMMA DraftType ==
    ASSUME HandoverTypes, MakeDraft
    PROVE  screen' \in Draft /\ Cardinality(screen'.seen) <= Limit
<1> DEFINE S == {m \in Said : said[m] > WindowStart}
<1>1. S \subseteq Msgs /\ S \in SUBSET Nat /\ IsFiniteSet(S)
  BY HandoverAssumption, FS_Subset DEF HandoverTypes, Said
<1>2. Newest(S) \subseteq S /\ Cardinality(Newest(S)) <= Limit
  BY <1>1, NewestFew
<1>3. WindowStart \in Int /\ now \in Times
  BY WindowStarts DEF HandoverTypes, HandoverTypeOK
<1>4. \/ screen' = [from |-> WindowStart, at |-> now, seen |-> Newest(S), source |-> "ai"]
      \/ screen' = [from |-> WindowStart, at |-> now, seen |-> {}, source |-> "rule"]
  BY DEF MakeDraft
<1>5. Newest(S) \in SUBSET Msgs /\ Cardinality({}) <= Limit
  BY <1>1, <1>2, FS_EmptySet, HandoverAssumption
<1> HIDE DEF S
<1> QED BY <1>2, <1>3, <1>4, <1>5 DEF Draft

\* What an action does to the one row it writes; there is no other.
AckSet(h, p, row) ==
    /\ ack' \in [Hands -> [People -> Ack]]
    /\ ack'[h][p] = row
    /\ \A i \in Hands, q \in People : <<i, q>> # <<h, p>> => ack'[i][q] = ack[i][q]

LEMMA SetsOneAck ==
    ASSUME ack \in [Hands -> [People -> Ack]], NEW h \in Hands, NEW p \in People, NEW row \in Ack,
           ack' = [ack EXCEPT ![h][p] = row]
    PROVE  AckSet(h, p, row)
<1>1. ack[h] \in [People -> Ack]
  OBVIOUS
<1>2. [ack[h] EXCEPT ![p] = row] \in [People -> Ack]
  BY <1>1
<1>3. ack' = [ack EXCEPT ![h] = [ack[h] EXCEPT ![p] = row]]
  OBVIOUS
<1>4. ack' \in [Hands -> [People -> Ack]]
  BY <1>2, <1>3
<1>5. ack'[h] = [ack[h] EXCEPT ![p] = row] /\ \A i \in Hands : i # h => ack'[i] = ack[i]
  BY <1>3
<1>6. ack'[h][p] = row /\ \A q \in People : q # p => ack'[h][q] = ack[h][q]
  BY <1>1, <1>5
<1> QED BY <1>4, <1>5, <1>6 DEF AckSet

LEMMA SignsOne ==
    ASSUME HandoverTypeOK, NEW h \in Hands, NEW p \in People, SignPlain(h, p)
    PROVE  \E row \in Ack : AckSet(h, p, row) /\ row.note = ack[h][p].note
                            /\ row.verdict = ack[h][p].verdict /\ row.echo = ack[h][p].echo
<1> DEFINE row == [ack[h][p] EXCEPT !.signed = TRUE]
<1>1. ack \in [Hands -> [People -> Ack]] /\ ack[h][p] \in Ack
  BY DEF HandoverTypeOK
<1>2. row \in Ack /\ row.note = ack[h][p].note
      /\ row.verdict = ack[h][p].verdict /\ row.echo = ack[h][p].echo
  BY <1>1 DEF Ack
<1>3. ack' = [ack EXCEPT ![h][p] = row]
  BY DEF SignPlain
<1> HIDE DEF row
<1> QED BY <1>1, <1>2, <1>3, SetsOneAck

LEMMA NotesOne ==
    ASSUME HandoverTypeOK, NEW h \in Hands, NEW p \in People, NEW n \in Notes, SignWith(h, p, n)
    PROVE  \E row \in Ack : AckSet(h, p, row) /\ row.note = n /\ row.verdict = None
<1> DEFINE row == Noted(ack[h][p], n)
<1>1. ack \in [Hands -> [People -> Ack]] /\ ack[h][p] \in Ack
  BY DEF HandoverTypeOK
<1>2. row \in Ack /\ row.note = n /\ row.verdict = None
  BY <1>1 DEF Ack, Noted
<1>3. ack' = [ack EXCEPT ![h][p] = row]
  BY DEF SignWith
<1> HIDE DEF row
<1> QED BY <1>1, <1>2, <1>3, SetsOneAck

LEMMA EchoesOne ==
    ASSUME HandoverTypeOK, NEW h \in Hands, NEW p \in People, NEW n \in Notes, EchoAnswer(h, p, n)
    PROVE  \E row \in Ack : AckSet(h, p, row) /\ row.note = ack[h][p].note /\ row.echo = n
<1>1. ack \in [Hands -> [People -> Ack]] /\ ack[h][p] \in Ack
  BY DEF HandoverTypeOK
<1>2. PICK v \in {"ok", "mismatch"} :
          ack' = [ack EXCEPT ![h][p].verdict = v, ![h][p].echo = n]
  BY DEF EchoAnswer
<1> DEFINE row == [[ack[h][p] EXCEPT !.verdict = v] EXCEPT !.echo = n]
<1>3. row \in Ack /\ row.note = ack[h][p].note /\ row.echo = n
  BY <1>1 DEF Ack
<1>4. ack' = [ack EXCEPT ![h][p] = row]
  BY <1>1, <1>2
<1> HIDE DEF row
<1> QED BY <1>1, <1>3, <1>4, SetsOneAck

LEMMA HandoverTypeStep == HandoverTypes /\ [HandoverNext]_handoverVars => HandoverTypes'
<1> SUFFICES ASSUME HandoverTypes, [HandoverNext]_handoverVars PROVE HandoverTypes'
  OBVIOUS
<1>1. said' = said => Said' = Said
  BY DEF Said
<1> USE DEF HandoverTypes, HandoverTypeOK
<1>2. CASE SecondPasses
  BY <1>1, <1>2, HandoverAssumption DEF SecondPasses, Times
<1>3. CASE MakeDraft
  BY <1>1, <1>3, DraftType DEF MakeDraft
<1>4. CASE EchoFails
  <2>1. checks' \subseteq checks
    BY <1>4 DEF EchoFails
  <2> QED BY <1>1, <1>4, <2>1 DEF EchoFails
<1>5. CASE SweepEscalations
  <2>1. hand' \in [Hands -> Row]
    BY <1>5 DEF SweepEscalations, Row
  <2>3. notices' \in [Hands -> Nat]
    BY <1>5 DEF SweepEscalations
  <2> QED BY <1>1, <1>5, <2>1, <2>3 DEF SweepEscalations
<1>6. ASSUME NEW m \in Msgs, Say(m) PROVE HandoverTypes'
  <2>1. said' \in [Msgs -> Times \cup {None}]
    BY <1>6 DEF Say
  <2>2. Said' = Said \cup {m}
    BY <1>6, HandoverAssumption DEF Say, Said, Times
  <2>3. IsFiniteSet(Said')
    BY <2>2, FS_AddElement
  <2> QED BY <1>6, <2>1, <2>3 DEF Say
<1>7. ASSUME NEW p \in People, ReaderJoins(p) PROVE HandoverTypes'
  BY <1>1, <1>7 DEF ReaderJoins, Joins
<1>8. ASSUME NEW p \in People, ReaderLeaves(p) PROVE HandoverTypes'
  BY <1>1, <1>8 DEF ReaderLeaves, Leaves
<1>9. ASSUME NEW h \in Hands, Publish(h) PROVE HandoverTypes'
  <2>1. ByHand \in Draft
    BY HandoverAssumption DEF ByHand, Draft, Times
  <2>2. hand' \in [Hands -> Row]
    BY <1>9, <2>1 DEF Publish, Row
  <2> QED BY <1>1, <1>9, <2>2 DEF Publish
<1>10. ASSUME NEW h \in Hands, NEW p \in People, SignPlain(h, p) PROVE HandoverTypes'
  BY <1>1, <1>10, SignsOne DEF SignPlain, AckSet
<1>11. ASSUME NEW h \in Hands, NEW p \in People, NEW n \in Notes, SignWith(h, p, n)
       PROVE  HandoverTypes'
  <2>1. <<h, p>> \in Hands \X People /\ <<h, p, n>> \in Hands \X People \X Notes
    OBVIOUS
  <2>2. overtaken' \subseteq overtaken \cup {<<h, p>>} /\ checks' = checks \cup {<<h, p, n>>}
    BY <1>11 DEF SignWith
  <2>3. overtaken' \subseteq Hands \X People
    BY <2>1, <2>2
  <2>4. checks' \subseteq Hands \X People \X Notes
    BY <2>1, <2>2
  <2> QED BY <1>1, <1>11, <2>3, <2>4, NotesOne DEF SignWith, AckSet
<1>12. ASSUME NEW h \in Hands, NEW p \in People, NEW n \in Notes, EchoAnswer(h, p, n)
       PROVE  HandoverTypes'
  BY <1>1, <1>12, EchoesOne DEF EchoAnswer, AckSet
<1>13. CASE UNCHANGED handoverVars
  BY <1>1, <1>13 DEF handoverVars
<1> HIDE DEF HandoverTypes, HandoverTypeOK
<1> QED
  BY <1>2, <1>3, <1>4, <1>5, <1>6, <1>7, <1>8, <1>9, <1>10, <1>11, <1>12, <1>13
     DEF HandoverNext

LEMMA HandoverTypesHold == HandoverSpec => []HandoverTypes
BY HandoverStarts, HandoverTypeStep, PTL DEF HandoverSpec

\* Rows, drafts and checks keep their types, and no draft is made from more than
\* the newest messages of its window (handover.ts, draftHandover).
THEOREM HandoverTyped == HandoverSpec => []HandoverTypeOK
<1>1. HandoverTypes => HandoverTypeOK
  BY DEF HandoverTypes
<1> QED BY <1>1, HandoverTypesHold, PTL

-----------------------------------------------------------------------------
(* Handovers: the verdicts and the alarms.                                 *)

\* The answer that is awaited is about the note on record, unless another note
\* came while an older one was being compared.
ChecksAreCurrent ==
    \A h \in Hands, p \in People, n \in Notes :
        <<h, p, n>> \in checks => ack[h][p].note = n \/ <<h, p>> \in overtaken

LEMMA VerdictStep ==
    /\ HandoverTypes /\ ChecksAreCurrent /\ VerdictIsOfNote /\ [HandoverNext]_handoverVars
    => ChecksAreCurrent' /\ VerdictIsOfNote'
<1> SUFFICES ASSUME HandoverTypes, ChecksAreCurrent, VerdictIsOfNote,
                    [HandoverNext]_handoverVars
             PROVE  ChecksAreCurrent' /\ VerdictIsOfNote'
  OBVIOUS
<1>1. HandoverTypeOK /\ None \notin Notes
  BY HandoverAssumption DEF HandoverTypes
<1>2. CASE UNCHANGED <<ack, overtaken>> /\ checks' \subseteq checks
  BY <1>2 DEF ChecksAreCurrent, VerdictIsOfNote
<1>3. ASSUME NEW h \in Hands, NEW p \in People, SignPlain(h, p)
      PROVE  ChecksAreCurrent' /\ VerdictIsOfNote'
  <2>1. PICK row \in Ack : AckSet(h, p, row) /\ row.note = ack[h][p].note
                           /\ row.verdict = ack[h][p].verdict /\ row.echo = ack[h][p].echo
    BY <1>1, <1>3, SignsOne
  <2>2. \A i \in Hands, q \in People : /\ ack'[i][q].note = ack[i][q].note
                                       /\ ack'[i][q].verdict = ack[i][q].verdict
                                       /\ ack'[i][q].echo = ack[i][q].echo
    BY <2>1 DEF AckSet
  <2>3. UNCHANGED <<checks, overtaken>>
    BY <1>3 DEF SignPlain
  <2> QED BY <2>2, <2>3 DEF ChecksAreCurrent, VerdictIsOfNote
<1>4. ASSUME NEW h \in Hands, NEW p \in People, NEW n \in Notes, SignWith(h, p, n)
      PROVE  ChecksAreCurrent' /\ VerdictIsOfNote'
  <2>1. PICK row \in Ack : AckSet(h, p, row) /\ row.note = n /\ row.verdict = None
    BY <1>1, <1>4, NotesOne
  <2>2. /\ checks' = checks \cup {<<h, p, n>>} /\ overtaken \subseteq overtaken'
        /\ \A k \in Notes : <<h, p, k>> \in checks => <<h, p>> \in overtaken'
    BY <1>4 DEF SignWith
  <2>3. ASSUME NEW i \in Hands, NEW q \in People, NEW k \in Notes, <<i, q, k>> \in checks'
        PROVE  ack'[i][q].note = k \/ <<i, q>> \in overtaken'
    <3>1. CASE <<i, q>> = <<h, p>>
      <4>1. i = h /\ q = p
        BY <3>1
      <4>2. k = n \/ <<h, p, k>> \in checks
        BY <2>2, <2>3, <4>1
      <4> QED BY <2>1, <2>2, <4>1, <4>2 DEF AckSet
    <3>2. CASE <<i, q>> # <<h, p>>
      <4>1. <<i, q, k>> \in checks /\ ack'[i][q] = ack[i][q]
        BY <2>1, <2>2, <2>3, <3>2 DEF AckSet
      <4> QED BY <2>2, <4>1 DEF ChecksAreCurrent
    <3> QED BY <3>1, <3>2
  <2>4. ASSUME NEW i \in Hands, NEW q \in People, ack'[i][q].verdict # None
        PROVE  ack'[i][q].echo = ack'[i][q].note \/ <<i, q>> \in overtaken'
    <3>1. <<i, q>> # <<h, p>>
      BY <2>1, <2>4 DEF AckSet
    <3>2. ack'[i][q] = ack[i][q]
      BY <2>1, <3>1 DEF AckSet
    <3> QED BY <2>2, <2>4, <3>2 DEF VerdictIsOfNote
  <2> QED BY <2>3, <2>4 DEF ChecksAreCurrent, VerdictIsOfNote
<1>5. ASSUME NEW h \in Hands, NEW p \in People, NEW n \in Notes, EchoAnswer(h, p, n)
      PROVE  ChecksAreCurrent' /\ VerdictIsOfNote'
  <2>1. PICK row \in Ack : AckSet(h, p, row) /\ row.note = ack[h][p].note /\ row.echo = n
    BY <1>1, <1>5, EchoesOne
  <2>2. /\ <<h, p, n>> \in checks /\ checks' \subseteq checks /\ overtaken' = overtaken
    BY <1>5 DEF EchoAnswer
  <2>3. row.note = n \/ <<h, p>> \in overtaken
    BY <2>1, <2>2 DEF ChecksAreCurrent
  <2>4. \A i \in Hands, q \in People : ack'[i][q].note = ack[i][q].note
    BY <2>1 DEF AckSet
  <2>5. ASSUME NEW i \in Hands, NEW q \in People, ack'[i][q].verdict # None
        PROVE  ack'[i][q].echo = ack'[i][q].note \/ <<i, q>> \in overtaken'
    <3>1. CASE <<i, q>> = <<h, p>>
      BY <2>1, <2>2, <2>3, <3>1 DEF AckSet
    <3>2. CASE <<i, q>> # <<h, p>>
      <4>1. ack'[i][q] = ack[i][q]
        BY <2>1, <3>2 DEF AckSet
      <4> QED BY <2>2, <2>5, <4>1 DEF VerdictIsOfNote
    <3> QED BY <3>1, <3>2
  <2>6. ChecksAreCurrent'
    BY <2>2, <2>4 DEF ChecksAreCurrent
  <2> QED BY <2>5, <2>6 DEF VerdictIsOfNote
<1>6. CASE EchoFails
  BY <1>2, <1>6 DEF EchoFails
<1>7. CASE \/ \E m \in Msgs : Say(m)
           \/ \E p \in People : ReaderJoins(p) \/ ReaderLeaves(p)
           \/ \E h \in Hands : Publish(h)
  BY <1>2, <1>7 DEF Say, ReaderJoins, ReaderLeaves, Publish
<1>8. CASE SecondPasses \/ MakeDraft \/ SweepEscalations \/ UNCHANGED handoverVars
  BY <1>2, <1>8 DEF SecondPasses, MakeDraft, SweepEscalations, handoverVars
<1> QED
  BY <1>2, <1>3, <1>4, <1>5, <1>6, <1>7, <1>8 DEF HandoverNext

\* A handover that was alarmed about is marked, and has been looked at once.
AlarmsAreMarked ==
    \A h \in Hands : notices[h] = 0 \/ (hand[h].escalated /\ notices[h] = 1)

LEMMA AlarmStep == HandoverTypes /\ AlarmsAreMarked /\ [HandoverNext]_handoverVars => AlarmsAreMarked'
<1> SUFFICES ASSUME HandoverTypes, AlarmsAreMarked, [HandoverNext]_handoverVars
             PROVE  AlarmsAreMarked'
  OBVIOUS
<1>1. /\ hand \in [Hands -> Row] /\ notices \in [Hands -> Nat]
      /\ members \subseteq People
  BY DEF HandoverTypes, HandoverTypeOK
<1>2. CASE UNCHANGED <<hand, notices>>
  BY <1>2 DEF AlarmsAreMarked
<1>3. ASSUME NEW h \in Hands, Publish(h) PROVE AlarmsAreMarked'
  <2>1. \A i \in Hands : hand'[i].escalated = hand[i].escalated
    BY <1>1, <1>3 DEF Publish, Row
  <2>2. notices' = notices
    BY <1>3 DEF Publish
  <2> QED BY <2>1, <2>2 DEF AlarmsAreMarked
<1>4. CASE SweepEscalations
  <2> SUFFICES ASSUME NEW h \in Hands
               PROVE  notices'[h] = 0 \/ (hand'[h].escalated /\ notices'[h] = 1)
    BY DEF AlarmsAreMarked
  <2>1. notices'[h] = IF Escalates(h) /\ Missing(h) # {} THEN notices[h] + 1 ELSE notices[h]
    BY <1>4 DEF SweepEscalations
  <2>2. hand'[h] = IF Escalates(h) THEN [hand[h] EXCEPT !.escalated = TRUE] ELSE hand[h]
    BY <1>4 DEF SweepEscalations, Done
  <2>3. CASE Escalates(h)
    <3>1. notices[h] = 0
      BY <2>3 DEF Escalates, AlarmsAreMarked
    <3>2. hand'[h].escalated
      BY <1>1, <2>2, <2>3 DEF Row
    <3> QED BY <2>1, <3>1, <3>2
  <2>4. CASE ~Escalates(h)
    BY <2>1, <2>2, <2>4 DEF AlarmsAreMarked
  <2> QED BY <2>3, <2>4
<1>5. CASE \/ \E m \in Msgs : Say(m)
           \/ \E p \in People : ReaderJoins(p) \/ ReaderLeaves(p)
           \/ \E h \in Hands, p \in People :
                  SignPlain(h, p) \/ \E n \in Notes : SignWith(h, p, n) \/ EchoAnswer(h, p, n)
           \/ SecondPasses \/ MakeDraft \/ EchoFails \/ UNCHANGED handoverVars
  BY <1>2, <1>5 DEF Say, ReaderJoins, ReaderLeaves, SignPlain, SignWith, EchoAnswer,
                    SecondPasses, MakeDraft, EchoFails, handoverVars
<1> QED
  BY <1>3, <1>4, <1>5 DEF HandoverNext

\* The verdict shown beside a note is about that note, however notes and answers of
\* the AI overlap, unless the note replaced one under comparison (handover.ts, echoCheck).
THEOREM VerdictsAreOfNotes == HandoverSpec => []VerdictIsOfNote
<1>1. HandoverInit => ChecksAreCurrent /\ VerdictIsOfNote
  <2> SUFFICES ASSUME HandoverInit PROVE ChecksAreCurrent /\ VerdictIsOfNote
    OBVIOUS
  <2>1. checks = {} /\ \A h \in Hands, p \in People : ack[h][p] = Unsigned
    BY DEF HandoverInit
  <2> QED BY <2>1 DEF ChecksAreCurrent, VerdictIsOfNote, Unsigned
<1> QED BY <1>1, VerdictStep, HandoverTypesHold, PTL DEF HandoverSpec

\* The author is alarmed at most once about a handover, for any number of sweeps
\* and whoever comes, goes or signs between them (sweepHandoverEscalations).
THEOREM AlarmsOnce == HandoverSpec => []AlarmedOnce
<1>1. HandoverInit => AlarmsAreMarked
  BY DEF HandoverInit, AlarmsAreMarked
<1>2. AlarmsAreMarked => AlarmedOnce
  <2> SUFFICES ASSUME AlarmsAreMarked, NEW h \in Hands PROVE notices[h] <= 1
    BY DEF AlarmedOnce
  <2>1. notices[h] = 0 \/ notices[h] = 1
    BY DEF AlarmsAreMarked
  <2> QED BY <2>1
<1> QED BY <1>1, <1>2, AlarmStep, HandoverTypesHold, PTL DEF HandoverSpec

-----------------------------------------------------------------------------
(* Handovers: what a shift loses.                                          *)

\* Rows are published in the order of their ids.
PublishedInTurn == \A i \in Published, j \in Hands : j < i => j \in Published

\* No draft is of the future.
DraftsArePast ==
    /\ screen # None => screen.at <= now
    /\ \A h \in Hands : hand[h].draft.at <= now

\* A message is in a draft, or is cut off by it.
Taken(d, m) == m \in d.seen \/ (Cardinality(d.seen) = Limit /\ \A n \in d.seen : n > m)

\* The draft the author works on begins no later than the last handover, and has
\* taken or cut off all that had been said since.
ScreenIsWhole ==
    screen # None =>
        /\ Published # {} => \E i \in Published : screen.from <= hand[i].at
        /\ \A m \in Said : screen.from < said[m] /\ said[m] < screen.at
               => Taken(screen, m) \/ screen.source = "rule"

LossInv == PublishedInTurn /\ DraftsArePast /\ ScreenIsWhole /\ LossIsExplained

\* The property in terms of Taken.
Explained(h, m) ==
    \/ Taken(hand[h].draft, m)
    \/ hand[h].draft.source \in {"hand", "rule"}
    \/ said[m] >= hand[h].draft.at
    \/ said[m] <= hand[h].draft.from /\ \A i \in Published : h <= i

LEMMA LossByTaken == LossIsExplained <=> \A h \in Hands, m \in Msgs : Covers(h, m) => Explained(h, m)
BY DEF LossIsExplained, Explained, Taken

LEMMA HandoverNumbers ==
    ASSUME HandoverTypes
    PROVE  /\ now \in Nat /\ None \notin Int /\ Hands \subseteq Nat /\ Msgs \subseteq Nat
           /\ \A m \in Said : m \in Msgs /\ said[m] \in Nat
           /\ \A h \in Published : h \in Hands /\ hand[h].at \in Nat
           /\ \A h \in Hands : hand[h].draft.at \in Nat /\ hand[h].draft.from \in Int
           /\ screen # None => screen \in Draft /\ screen.at \in Nat /\ screen.from \in Int
<1>1. MaxTime \in Nat /\ None \notin Int /\ Hands \subseteq Nat /\ Msgs \subseteq Nat
  BY HandoverAssumption
<1>2. Times \subseteq Nat
  BY <1>1 DEF Times
<1>3. \A m \in Said : m \in Msgs /\ said[m] \in Nat
  BY <1>2 DEF HandoverTypes, HandoverTypeOK, Said
<1>4. \A h \in Published : h \in Hands /\ hand[h].at \in Nat
  BY <1>2 DEF HandoverTypes, HandoverTypeOK, Published, Row
<1>5. \A h \in Hands : hand[h].draft \in Draft
  BY DEF HandoverTypes, HandoverTypeOK, Row
<1>6. \A d \in Draft : d.at \in Nat /\ d.from \in Int
  BY <1>2 DEF Draft
<1>7. now \in Nat /\ (screen # None => screen \in Draft)
  BY <1>2 DEF HandoverTypes, HandoverTypeOK
<1> QED BY <1>1, <1>3, <1>4, <1>5, <1>6, <1>7

LEMMA DraftIsWhole ==
    ASSUME HandoverTypes, LossInv, MakeDraft
    PROVE  LossInv'
<1> DEFINE S == {m \in Said : said[m] > WindowStart}
<1>1. /\ \/ screen' = [from |-> WindowStart, at |-> now, seen |-> Newest(S), source |-> "ai"]
         \/ screen' = [from |-> WindowStart, at |-> now, seen |-> {}, source |-> "rule"]
      /\ UNCHANGED <<now, said, hand>>
  BY DEF MakeDraft
<1>2. S \in SUBSET Nat /\ IsFiniteSet(S)
  BY HandoverAssumption, FS_Subset DEF HandoverTypes, Said
<1>3. /\ WindowStart \in Int
      /\ Published # {} => \E i \in Published : WindowStart = hand[i].at
  BY WindowStarts DEF HandoverTypes
<1>4. Published' = Published /\ Said' = Said
  BY <1>1 DEF Published, Said
<1>5. /\ screen'.from = WindowStart /\ screen'.at = now
      /\ screen'.seen = Newest(S) \/ screen'.source = "rule"
  BY <1>1
<1>6. ASSUME NEW m \in Said, WindowStart < said[m]
      PROVE  Taken(screen', m) \/ screen'.source = "rule"
  <2>1. m \in S
    BY <1>3, <1>6, HandoverNumbers
  <2>2. m \in Newest(S) \/ (Cardinality(Newest(S)) = Limit /\ \A n \in Newest(S) : n > m)
    BY <1>2, <2>1, NewestCut
  <2> QED BY <1>5, <2>2 DEF Taken
<1>7. Published # {} => \E i \in Published : WindowStart <= hand[i].at
  BY <1>3, HandoverNumbers
<1> HIDE DEF S
<1>8. ScreenIsWhole'
  BY <1>1, <1>4, <1>5, <1>6, <1>7 DEF ScreenIsWhole, Taken
<1>9. DraftsArePast'
  BY <1>1, <1>5, HandoverNumbers DEF LossInv, DraftsArePast
<1>10. PublishedInTurn' /\ LossIsExplained'
  BY <1>1, <1>4 DEF LossInv, PublishedInTurn, LossIsExplained, Covers
<1> QED BY <1>8, <1>9, <1>10 DEF LossInv

LEMMA SayingIsLater ==
    ASSUME HandoverTypes, LossInv, NEW m \in Msgs, Say(m)
    PROVE  LossInv'
<1>1. /\ said' = [said EXCEPT ![m] = now] /\ m \notin Said
      /\ UNCHANGED <<now, screen, hand>>
  BY DEF Say
<1>2. said \in [Msgs -> Times \cup {None}]
  BY DEF HandoverTypes, HandoverTypeOK
<1>3. Said' = Said \cup {m} /\ said'[m] = now /\ \A k \in Msgs \ {m} : said'[k] = said[k]
  BY <1>1, <1>2, HandoverNumbers DEF Said
<1>4. Published' = Published
  BY <1>1 DEF Published
<1>5. PublishedInTurn' /\ DraftsArePast'
  BY <1>1, <1>4 DEF LossInv, PublishedInTurn, DraftsArePast
<1>6. ScreenIsWhole'
  <2> SUFFICES ASSUME screen # None, NEW k \in Said',
                      screen.from < said'[k], said'[k] < screen.at
               PROVE  Taken(screen, k) \/ screen.source = "rule"
    BY <1>1, <1>4 DEF LossInv, ScreenIsWhole, Taken
  <2>1. k # m
    BY <1>3, HandoverNumbers DEF LossInv, DraftsArePast
  <2>2. k \in Said /\ said'[k] = said[k]
    BY <1>3, <2>1, HandoverNumbers
  <2> QED BY <2>2 DEF LossInv, ScreenIsWhole
<1>7. LossIsExplained'
  <2> SUFFICES ASSUME NEW h \in Hands, NEW k \in Msgs, Covers(h, k)' PROVE Explained(h, k)'
    BY DEF LossIsExplained, Explained, Taken, Covers
  <2>1. CASE k = m
    <3>1. hand'[h].draft.at <= said'[k]
      BY <1>1, <1>3, <2>1 DEF LossInv, DraftsArePast
    <3> QED BY <1>1, <1>3, <2>1, <3>1, HandoverNumbers DEF Explained
  <2>2. CASE k # m
    <3>1. said'[k] = said[k] /\ Covers(h, k)
      BY <1>1, <1>3, <1>4, <2>2 DEF Covers
    <3>2. Explained(h, k)
      BY <3>1, LossByTaken DEF LossInv
    <3> QED BY <1>1, <1>4, <3>1, <3>2 DEF Explained, Taken
  <2> QED BY <2>1, <2>2
<1> QED BY <1>5, <1>6, <1>7 DEF LossInv

LEMMA PublishingExplains ==
    ASSUME HandoverTypes, LossInv, NEW h \in Hands, Publish(h)
    PROVE  LossInv'
<1> DEFINE d == IF screen = None THEN ByHand ELSE screen
<1>1. /\ h \notin Published /\ \A i \in Hands : i < h => i \in Published
      /\ hand' = [hand EXCEPT ![h].at = now, ![h].draft = d]
      /\ screen' = None /\ UNCHANGED <<now, said>>
  BY DEF Publish
<1>2. hand \in [Hands -> Row]
  BY DEF HandoverTypes, HandoverTypeOK
<1>3. /\ hand'[h].at = now /\ hand'[h].draft = d
      /\ \A i \in Hands \ {h} : hand'[i] = hand[i]
  BY <1>1, <1>2 DEF Row
<1>4. Said' = Said /\ Published' = Published \cup {h}
  <2>1. hand'[h].at # None
    BY <1>3, HandoverNumbers
  <2>2. \A i \in Hands : hand'[i].at # None <=> (i = h \/ hand[i].at # None)
    BY <1>3, <2>1
  <2> QED BY <1>1, <2>2 DEF Said, Published
<1>5. \A i \in Published : i < h
  <2> SUFFICES ASSUME NEW i \in Published, ~(i < h) PROVE FALSE
    OBVIOUS
  <2>1. i \in Nat /\ h \in Nat /\ i # h
    BY <1>1, HandoverNumbers
  <2>2. h < i
    BY <2>1
  <2> QED BY <1>1, <2>2 DEF LossInv, PublishedInTurn
<1>6. d.at <= now
  BY HandoverNumbers DEF LossInv, DraftsArePast, ByHand
<1>7. PublishedInTurn'
  BY <1>1, <1>4 DEF LossInv, PublishedInTurn
<1>8. DraftsArePast' /\ ScreenIsWhole'
  BY <1>1, <1>3, <1>6 DEF LossInv, DraftsArePast, ScreenIsWhole
<1>9. LossIsExplained'
  <2> SUFFICES ASSUME NEW i \in Hands, NEW m \in Msgs, Covers(i, m)' PROVE Explained(i, m)'
    BY DEF LossIsExplained, Explained, Taken, Covers
  <2>1. /\ m \in Said /\ i \in Published' /\ said[m] <= hand'[i].at
        /\ \A j \in Published' : j < i => hand'[j].at < said[m]
    BY <1>1, <1>4 DEF Covers
  <2>2. CASE i = h
    <3>1. \A j \in Published : hand[j].at < said[m]
      BY <1>1, <1>3, <1>4, <1>5, <2>1, <2>2, HandoverNumbers
    <3>2. CASE screen = None
      BY <1>3, <2>2, <3>2 DEF Explained, ByHand
    <3>3. CASE screen # None
      <4>1. hand'[i].draft = screen
        BY <1>3, <2>2, <3>3
      <4>2. CASE said[m] >= screen.at
        BY <1>1, <4>1, <4>2 DEF Explained
      <4>3. CASE said[m] < screen.at /\ screen.from < said[m]
        <5>1. Taken(screen, m) \/ screen.source = "rule"
          BY <2>1, <3>3, <4>3 DEF LossInv, ScreenIsWhole
        <5> QED BY <4>1, <5>1 DEF Explained, Taken
      <4>4. CASE said[m] <= screen.from
        <5>1. Published = {}
          <6> SUFFICES ASSUME Published # {} PROVE FALSE
            OBVIOUS
          <6>1. PICK j \in Published : screen.from <= hand[j].at
            BY <3>3 DEF LossInv, ScreenIsWhole
          <6> QED BY <2>1, <3>1, <3>3, <4>4, <6>1, HandoverNumbers
        <5>2. \A j \in Published' : i <= j
          BY <1>4, <2>2, <5>1, HandoverNumbers
        <5> QED BY <1>1, <4>1, <4>4, <5>2 DEF Explained
      <4> QED BY <2>1, <3>3, <4>2, <4>3, <4>4, HandoverNumbers
    <3> QED BY <3>2, <3>3
  <2>3. CASE i # h
    <3>1. i \in Published /\ hand'[i] = hand[i]
      BY <1>3, <1>4, <2>1, <2>3
    <3>2. \A j \in Published : hand'[j] = hand[j]
      BY <1>1, <1>3, HandoverNumbers
    <3>3. Covers(i, m)
      BY <1>4, <2>1, <3>1, <3>2 DEF Covers
    <3>4. Explained(i, m)
      BY <3>3, LossByTaken DEF LossInv
    <3>5. i < h /\ i \in Nat /\ h \in Nat
      BY <1>5, <3>1, HandoverNumbers
    <3>6. (\A j \in Published : i <= j) => \A j \in Published' : i <= j
      BY <1>4, <3>5
    <3> QED BY <1>1, <3>1, <3>4, <3>6 DEF Explained, Taken
  <2> QED BY <2>2, <2>3
<1> QED BY <1>7, <1>8, <1>9 DEF LossInv

LEMMA LossStep == HandoverTypes /\ LossInv /\ [HandoverNext]_handoverVars => LossInv'
<1> SUFFICES ASSUME HandoverTypes, LossInv, [HandoverNext]_handoverVars PROVE LossInv'
  OBVIOUS
<1>1. ASSUME UNCHANGED <<said, screen>>, now' >= now,
             \A h \in Hands : /\ hand'[h].at = hand[h].at /\ hand'[h].draft = hand[h].draft
      PROVE  LossInv'
  <2>1. Published' = Published /\ Said' = Said
    BY <1>1 DEF Published, Said
  <2>2. PublishedInTurn' /\ ScreenIsWhole'
    BY <1>1, <2>1 DEF LossInv, PublishedInTurn, ScreenIsWhole, Taken, Published
  <2>3. now' \in Int => DraftsArePast'
    BY <1>1, HandoverNumbers DEF LossInv, DraftsArePast
  <2>4. LossIsExplained'
    <3> SUFFICES ASSUME NEW h \in Hands, NEW m \in Msgs, Covers(h, m)' PROVE Explained(h, m)'
      BY DEF LossIsExplained, Explained, Taken, Covers
    <3>1. Covers(h, m)
      BY <1>1, <2>1 DEF Covers, Published
    <3>2. Explained(h, m)
      BY <3>1, LossByTaken DEF LossInv
    <3> QED BY <1>1, <2>1, <3>2 DEF Explained, Taken
  <2>5. HandoverTypes'
    BY HandoverTypeStep
  <2>6. now' \in Int
    BY <2>5, HandoverAssumption DEF HandoverTypes, HandoverTypeOK, Times
  <2> QED BY <2>2, <2>3, <2>4, <2>6 DEF LossInv
<1>2. now \in Nat
  BY HandoverNumbers
<1>3. CASE SecondPasses
  BY <1>1, <1>2, <1>3 DEF SecondPasses
<1>4. CASE SweepEscalations
  <2>1. hand \in [Hands -> Row]
    BY DEF HandoverTypes, HandoverTypeOK
  <2>2. \A h \in Hands : hand'[h].at = hand[h].at /\ hand'[h].draft = hand[h].draft
    BY <1>4, <2>1 DEF SweepEscalations, Row
  <2> QED BY <1>1, <1>2, <1>4, <2>2 DEF SweepEscalations
<1>5. CASE \/ EchoFails \/ \E p \in People : ReaderJoins(p) \/ ReaderLeaves(p)
           \/ \E h \in Hands, p \in People :
                  SignPlain(h, p) \/ \E n \in Notes : SignWith(h, p, n) \/ EchoAnswer(h, p, n)
           \/ UNCHANGED handoverVars
  <2>1. UNCHANGED <<now, said, screen, hand>>
    BY <1>5 DEF EchoFails, ReaderJoins, ReaderLeaves, SignPlain, SignWith, EchoAnswer, handoverVars
  <2> QED BY <1>1, <1>2, <2>1
<1> QED
  BY <1>3, <1>4, <1>5, DraftIsWhole, SayingIsLater, PublishingExplains DEF HandoverNext

\* What a shift loses it loses for one of the named reasons, for any messages and
\* handovers, any window and any limit (handover.ts, windowStart, draftHandover).
THEOREM LossesAreExplained == HandoverSpec => []LossIsExplained
<1>1. HandoverInit => LossInv
  <2> SUFFICES ASSUME HandoverInit PROVE LossInv
    OBVIOUS
  <2>1. Published = {} /\ Said = {} /\ screen = None
        /\ now = 0 /\ \A h \in Hands : hand[h].draft.at = 0
    BY DEF HandoverInit, Published, Said, ByHand
  <2> QED BY <2>1 DEF LossInv, PublishedInTurn, DraftsArePast, ScreenIsWhole, LossIsExplained,
                      Covers
<1>2. LossInv => LossIsExplained
  BY DEF LossInv
<1> QED BY <1>1, <1>2, LossStep, HandoverTypesHold, PTL DEF HandoverSpec

-----------------------------------------------------------------------------
(* Reminders: days and minutes.                                            *)

\* A minute is its day and the minute of that day.
LEMMA DayAndMinute ==
    ASSUME NEW t \in Nat
    PROVE  /\ Day(t) \in Nat /\ t % DayLength \in 0 .. DayLength - 1
           /\ t = Day(t) * DayLength + (t % DayLength)
<1>1. DayLength \in Nat /\ DayLength > 0
  BY RemindersAssumption
<1> QED BY <1>1 DEF Day

LEMMA MoreDays ==
    ASSUME NEW a \in Nat, NEW b \in Nat, a < b
    PROVE  a * DayLength + DayLength <= b * DayLength
<1>1. DayLength \in Nat /\ DayLength > 0
  BY RemindersAssumption
<1>2. PICK c \in Nat : b = a + 1 + c
  <2>1. b - a - 1 \in Nat /\ b = a + 1 + (b - a - 1)
    OBVIOUS
  <2> QED BY <2>1
<1>3. b * DayLength = a * DayLength + DayLength + c * DayLength
  BY <1>1, <1>2
<1>4. c * DayLength >= 0 /\ c * DayLength \in Nat /\ a * DayLength \in Nat
  BY <1>1, <1>2
<1> QED BY <1>1, <1>3, <1>4

\* And each minute of each day is one.
LEMMA MinuteOfDay ==
    ASSUME NEW d \in Nat, NEW r \in 0 .. DayLength - 1
    PROVE  /\ d * DayLength + r \in Nat
           /\ Day(d * DayLength + r) = d /\ (d * DayLength + r) % DayLength = r
<1> DEFINE t == d * DayLength + r
           e == Day(t)
           s == t % DayLength
<1>1. DayLength \in Nat /\ DayLength > 0 /\ r \in Nat /\ r < DayLength
  BY RemindersAssumption
<1>2. d * DayLength \in Nat
  BY <1>1
<1>3. t \in Nat
  BY <1>1, <1>2
<1>4. e \in Nat /\ s \in 0 .. DayLength - 1 /\ t = e * DayLength + s
  BY <1>3, DayAndMinute
<1>5. e * DayLength \in Nat
  BY <1>1, <1>4
<1>6. s \in Nat /\ s < DayLength
  BY <1>1, <1>4
<1> HIDE DEF e, s
<1>7. ~(e < d)
  <2> SUFFICES ASSUME e < d PROVE FALSE
    OBVIOUS
  <2>1. e * DayLength + DayLength <= d * DayLength
    BY <1>4, MoreDays
  <2> QED BY <1>1, <1>2, <1>4, <1>5, <1>6, <2>1
<1>8. ~(d < e)
  <2> SUFFICES ASSUME d < e PROVE FALSE
    OBVIOUS
  <2>1. d * DayLength + DayLength <= e * DayLength
    BY <1>4, MoreDays
  <2> QED BY <1>1, <1>2, <1>4, <1>5, <1>6, <2>1
<1>9. e = d
  BY <1>4, <1>7, <1>8
<1>10. s = r
  BY <1>1, <1>2, <1>4, <1>6, <1>9
<1> QED BY <1>3, <1>9, <1>10 DEF e, s

\* Days follow each other as minutes do.
LEMMA DaysInOrder ==
    ASSUME NEW s \in Nat, NEW t \in Nat, s <= t
    PROVE  Day(s) <= Day(t)
<1>1. /\ Day(s) \in Nat /\ Day(t) \in Nat
      /\ s = Day(s) * DayLength + (s % DayLength) /\ t = Day(t) * DayLength + (t % DayLength)
      /\ s % DayLength \in 0 .. DayLength - 1 /\ t % DayLength \in 0 .. DayLength - 1
  BY DayAndMinute
<1>2. DayLength \in Nat
  BY RemindersAssumption
<1> SUFFICES ASSUME Day(t) < Day(s) PROVE FALSE
  BY <1>1
<1>3. Day(t) * DayLength + DayLength <= Day(s) * DayLength
  BY <1>1, MoreDays
<1>4. Day(t) * DayLength \in Nat /\ Day(s) * DayLength \in Nat
  BY <1>1, <1>2
<1> QED BY <1>1, <1>2, <1>3, <1>4

-----------------------------------------------------------------------------
(* Reminders: the types.                                                   *)

\* A row is there or not.
AppointmentRow ==
    [label : Labels, start : Minutes, daily : BOOLEAN, until : Days \cup {Unset},
     timed : BOOLEAN, leads : SUBSET Leads]

RemindersTypes == RemindersTypeOK /\ appt \in [Appointments -> AppointmentRow \cup {Unset}]

LEMMA RowsOfAll ==
    ASSUME NEW a \in Appointments, NEW row \in Appointment(a)
    PROVE  row \in AppointmentRow /\ (a \in Meetings => row.label \in Titles)
                       /\ (a \notin Meetings => row.label = a /\ a \in Events)
BY DEF Appointment, AppointmentRow, Labels, Appointments

LEMMA RemindersStarts == RemindersInit => RemindersTypes
<1> SUFFICES ASSUME RemindersInit PROVE RemindersTypes
  OBVIOUS
<1>1. LastMinute \in Nat
  BY RemindersAssumption
<1>2. NoTodo \in Todo
  BY DEF NoTodo, Todo
<1>3. appt \in [Appointments -> AppointmentRow \cup {Unset}] /\ \A a \in Appointments : appt[a] = Unset
  BY DEF RemindersInit
<1>4. todo \in [Todos -> Todo]
  BY <1>2 DEF RemindersInit
<1>5. heard \in [Todos -> SUBSET (People \X Phases)]
  BY DEF RemindersInit
<1>6. minute \in Minutes
  BY <1>1 DEF RemindersInit, Minutes
<1>7. /\ members \subseteq People /\ swept \in BOOLEAN
      /\ notified \subseteq People \X Key /\ told \subseteq People \X Labels \X Appointments \X Nat
  BY DEF RemindersInit
<1>8. RemindersTypeOK
  BY <1>3, <1>4, <1>5, <1>6, <1>7 DEF RemindersTypeOK
<1> QED BY <1>3, <1>8 DEF RemindersTypes

\* The days of a row, and the next occurrence if there is one: one of the days there
\* are, at a minute of that day.
LEMMA OccurrenceType ==
    ASSUME RemindersTypes, NEW a \in Appointments, appt[a] # Unset
    PROVE  /\ appt[a] \in Appointment(a) /\ appt[a].start \in Nat
           /\ appt[a].label \in Labels /\ appt[a].leads \subseteq Leads
           /\ Today \in Days /\ Today \in Nat /\ First(a) \in Nat
           /\ OccursOn(a) # Unset =>
                  /\ OccursOn(a) \in Days /\ OccursOn(a) \in Nat
                  /\ Start(a) \in Nat /\ Day(Start(a)) = OccursOn(a)
<1>1. appt[a] \in Appointment(a) /\ appt[a] \in AppointmentRow
  BY RowsOfAll DEF RemindersTypes, RemindersTypeOK
<1>2. /\ LastMinute \in Nat /\ minute \in Nat /\ minute <= LastMinute
      /\ appt[a].start \in Nat /\ appt[a].start <= LastMinute
  BY <1>1, RemindersAssumption DEF RemindersTypes, RemindersTypeOK, AppointmentRow, Minutes
<1>3. Today <= Day(LastMinute) /\ First(a) <= Day(LastMinute)
  BY <1>2, DaysInOrder DEF Today, First
<1>4. Today \in Nat /\ Day(LastMinute) \in Nat /\ First(a) \in Nat
      /\ appt[a].start % DayLength \in 0 .. DayLength - 1
  BY <1>2, DayAndMinute DEF Today, First
<1>5. \A d \in Nat : d <= Day(LastMinute) => d \in Days
  BY <1>4 DEF Days
<1>6. Today \in Days /\ First(a) \in Days
  BY <1>3, <1>4, <1>5
<1>7. OccursOn(a) = Today \/ OccursOn(a) = First(a) \/ OccursOn(a) = Unset
  BY Zenon DEF OccursOn
<1>8. ASSUME OccursOn(a) # Unset PROVE OccursOn(a) \in Days /\ OccursOn(a) \in Nat
  BY <1>4, <1>6, <1>7, <1>8
<1>9. ASSUME OccursOn(a) # Unset PROVE Start(a) \in Nat /\ Day(Start(a)) = OccursOn(a)
  BY <1>4, <1>8, <1>9, MinuteOfDay DEF Start
<1> QED BY <1>1, <1>2, <1>4, <1>6, <1>8, <1>9 DEF AppointmentRow

\* What is said of an appointment bears its label and, unless it is a meeting, the day
\* of the occurrence.
LEMMA WhatIsSaid ==
    ASSUME RemindersTypes, NEW p \in People, NEW a \in Appointments, NEW k \in ToSay(p, a)
    PROVE  /\ appt[a] # Unset /\ OccursOn(a) # Unset /\ k \in Key
           /\ \E d \in Days \cup {Unset}, l \in Leads \cup {Unset} :
                  k = <<appt[a].label, d, l>> /\ (a \in Meetings \/ d = OccursOn(a))
<1>1. appt[a] # Unset /\ OccursOn(a) # Unset
  BY DEF ToSay
<1>2. appt[a].label \in Labels /\ OccursOn(a) \in Days /\ Today \in Days
      /\ appt[a].leads \subseteq Leads
  BY <1>1, OccurrenceType
<1>3. \E d \in Days \cup {Unset}, l \in Leads \cup {Unset} :
          k = <<appt[a].label, d, l>> /\ (a \in Meetings \/ d = OccursOn(a))
  <2>1. CASE appt[a].timed
    <3>1. PICK l \in appt[a].leads : k = KeyOf(a, l)
      BY <1>1, <2>1 DEF ToSay
    <3> QED BY <1>2, <3>1 DEF KeyOf
  <2>2. CASE ~appt[a].timed
    <3>1. OccursOn(a) = Today /\ k = <<appt[a].label, Today, Unset>>
      BY <1>1, <2>2 DEF ToSay
    <3> QED BY <1>2, <3>1
  <2> QED BY <2>1, <2>2
<1> QED BY <1>1, <1>2, <1>3 DEF Key

LEMMA SweepTypes ==
    ASSUME RemindersTypes, MeetingSweep
    PROVE  /\ notified' \subseteq People \X Key
           /\ told' \subseteq People \X Labels \X Appointments \X Nat
<1>1. members \subseteq People /\ notified \subseteq People \X Key
      /\ told \subseteq People \X Labels \X Appointments \X Nat
  BY DEF RemindersTypes, RemindersTypeOK
<1>2. PICK f \in Orders :
          /\ notified' = notified \cup
                 UNION {{<<p, k>> : k \in UNION {ToSay(p, a) : a \in Appointments}} : p \in members}
          /\ told' = told \cup
                 UNION {{<<p, appt[a].label, a, Start(a)>> :
                            a \in {b \in Appointments : Says(p, b, f) # {}}} : p \in members}
  BY DEF MeetingSweep
<1>3. ASSUME NEW x \in notified' PROVE x \in People \X Key
  <2>1. CASE x \in notified
    BY <1>1, <2>1
  <2>2. CASE x \notin notified
    <3>1. PICK p \in members : x \in {<<p, k>> : k \in UNION {ToSay(p, a) : a \in Appointments}}
      BY <1>2, <1>3, <2>2
    <3>2. PICK k \in UNION {ToSay(p, a) : a \in Appointments} : x = <<p, k>>
      BY <3>1
    <3>3. PICK a \in Appointments : k \in ToSay(p, a)
      BY <3>2
    <3>4. k \in Key
      BY <1>1, <3>3, WhatIsSaid
    <3> QED BY <1>1, <3>2, <3>4
  <2> QED BY <2>1, <2>2
<1>4. ASSUME NEW x \in told' PROVE x \in People \X Labels \X Appointments \X Nat
  <2>1. CASE x \in told
    BY <1>1, <2>1
  <2>2. CASE x \notin told
    <3>1. PICK p \in members :
              x \in {<<p, appt[a].label, a, Start(a)>> :
                         a \in {b \in Appointments : Says(p, b, f) # {}}}
      BY <1>2, <1>4, <2>2
    <3>2. PICK a \in Appointments : Says(p, a, f) # {} /\ x = <<p, appt[a].label, a, Start(a)>>
      BY <3>1
    <3>3. appt[a] # Unset /\ OccursOn(a) # Unset
      BY <3>2 DEF Says, ToSay
    <3>4. Start(a) \in Nat /\ appt[a].label \in Labels
      BY <3>3, OccurrenceType
    <3> QED BY <1>1, <3>2, <3>4
  <2> QED BY <2>1, <2>2
<1> QED BY <1>3, <1>4

\* What an action does to the one todo it writes; there is no other.
TodoSet(t, row) ==
    /\ todo' \in [Todos -> Todo] /\ todo'[t] = row
    /\ \A u \in Todos : u # t => todo'[u] = todo[u]

LEMMA DatesOne ==
    ASSUME RemindersTypes, NEW t \in Todos, NEW d \in Days \cup {Unset}, SetDue(t, d)
    PROVE  \E row \in Todo : TodoSet(t, row) /\ row.flags = {} /\ row.late = {}
<1>1. todo \in [Todos -> Todo] /\ todo[t] \in Todo
  BY DEF RemindersTypes, RemindersTypeOK
<1> DEFINE row == DueAgain(t, d)
<1>2. row \in Todo /\ row.flags = {} /\ row.late = {}
  BY <1>1 DEF Todo, DueAgain
<1>3. todo' = [todo EXCEPT ![t] = row]
  BY DEF SetDue
<1> HIDE DEF row
<1> QED BY <1>1, <1>2, <1>3 DEF TodoSet

LEMMA TicksOne ==
    ASSUME RemindersTypes, NEW t \in Todos, NEW b \in BOOLEAN, SetDone(t, b)
    PROVE  \E row \in Todo : TodoSet(t, row) /\ row.flags = todo[t].flags
                             /\ row.late = todo[t].late /\ row.assignees = todo[t].assignees
<1>1. todo \in [Todos -> Todo] /\ todo[t] \in Todo
  BY DEF RemindersTypes, RemindersTypeOK
<1> DEFINE row == [todo[t] EXCEPT !.done = b]
<1>2. row \in Todo /\ row.flags = todo[t].flags
      /\ row.late = todo[t].late /\ row.assignees = todo[t].assignees
  BY <1>1 DEF Todo
<1>3. todo' = [todo EXCEPT ![t] = row]
  BY DEF SetDone
<1> HIDE DEF row
<1> QED BY <1>1, <1>2, <1>3 DEF TodoSet

\* Who gets a todo late is noted for the flags that are set already.
LEMMA AssignsOne ==
    ASSUME RemindersTypes, NEW t \in Todos, NEW A \in SUBSET People, Assign(t, A)
    PROVE  \E row \in Todo :
               /\ TodoSet(t, row) /\ row.flags = todo[t].flags /\ row.assignees = A
               /\ row.late = (todo[t].late \cap (A \X Phases))
                                 \cup ((A \ todo[t].assignees) \X todo[t].flags)
<1>1. todo \in [Todos -> Todo] /\ todo[t] \in Todo
  BY DEF RemindersTypes, RemindersTypeOK
<1> DEFINE L == (todo[t].late \cap (A \X Phases)) \cup ((A \ todo[t].assignees) \X todo[t].flags)
           row == [[todo[t] EXCEPT !.assignees = A] EXCEPT !.late = L]
<1>2. L \in SUBSET (People \X Phases)
  <2>1. todo[t].flags \in SUBSET Phases /\ todo[t].late \in SUBSET (People \X Phases)
    BY <1>1 DEF Todo
  <2>2. A \ todo[t].assignees \subseteq People
    OBVIOUS
  <2> QED BY <2>1, <2>2
<1>3. todo' = [todo EXCEPT ![t] = row]
  BY <1>1 DEF Assign
<1> HIDE DEF L
<1>4. row \in Todo /\ row.flags = todo[t].flags /\ row.assignees = A /\ row.late = L
  BY <1>1, <1>2 DEF Todo
<1> HIDE DEF row
<1> QED BY <1>1, <1>3, <1>4 DEF TodoSet, L

\* A deadline that presses gets the flag of its phase, whoever is there to be told.
LEMMA TodoSwept ==
    ASSUME RemindersTypes, TodoSweep
    PROVE  /\ todo' \in [Todos -> Todo] /\ heard' \in [Todos -> SUBSET (People \X Phases)]
           /\ \A t \in Todos : /\ todo'[t].assignees = todo[t].assignees
                               /\ todo'[t].late = todo[t].late
                               /\ heard[t] \subseteq heard'[t]
                               /\ \A f \in todo'[t].flags :
                                      f \in todo[t].flags \/ todo[t].assignees \X {f} \subseteq heard'[t]
<1>1. todo \in [Todos -> Todo] /\ heard \in [Todos -> SUBSET (People \X Phases)]
  BY DEF RemindersTypes, RemindersTypeOK
<1>2. ASSUME NEW t \in Todos
      PROVE  /\ todo'[t] \in Todo /\ heard'[t] \in SUBSET (People \X Phases)
             /\ todo'[t].assignees = todo[t].assignees /\ todo'[t].late = todo[t].late
             /\ heard[t] \subseteq heard'[t]
             /\ \A f \in todo'[t].flags :
                    f \in todo[t].flags \/ todo[t].assignees \X {f} \subseteq heard'[t]
  <2>1. CASE ~Pressing(t)
    BY <1>1, <2>1 DEF TodoSweep
  <2>2. CASE Pressing(t)
    <3> DEFINE f == PhaseOf(todo[t].due)
    <3>1. f \in Phases
      BY DEF PhaseOf, Phases
    <3>2. /\ todo'[t] = [todo[t] EXCEPT !.flags = todo[t].flags \cup {f}]
          /\ heard'[t] = heard[t] \cup (todo[t].assignees \X {f})
      BY <2>2 DEF TodoSweep
    <3> HIDE DEF f
    <3>3. /\ todo'[t] \in Todo /\ todo'[t].flags = todo[t].flags \cup {f}
          /\ todo'[t].assignees = todo[t].assignees /\ todo'[t].late = todo[t].late
      BY <1>1, <3>1, <3>2 DEF Todo
    <3>4. todo[t].assignees \X {f} \subseteq People \X Phases
      BY <1>1, <3>1 DEF Todo
    <3> QED BY <1>1, <3>2, <3>3, <3>4
  <2> QED BY <2>1, <2>2
<1>3. DOMAIN todo' = Todos /\ todo' = [t \in Todos |-> todo'[t]]
      /\ heard' = [t \in Todos |-> heard'[t]]
  BY DEF TodoSweep
<1> QED BY <1>2, <1>3

LEMMA RemindersTypeStep == RemindersTypes /\ [RemindersNext]_remindersVars => RemindersTypes'
<1> SUFFICES ASSUME RemindersTypes, [RemindersNext]_remindersVars PROVE RemindersTypes'
  OBVIOUS
<1> USE DEF RemindersTypes, RemindersTypeOK
<1>1. CASE MinutePasses
  <2>1. minute' \in Minutes
    BY <1>1, RemindersAssumption DEF MinutePasses, Minutes
  <2> QED BY <1>1, <2>1 DEF MinutePasses, todos
<1>2. CASE ServerRestarts
  BY <1>2 DEF ServerRestarts, todos
<1>3. CASE MeetingSweep
  BY <1>3, SweepTypes DEF MeetingSweep, todos
<1>4. CASE TodoSweep
  BY <1>4, TodoSwept DEF TodoSweep, events
<1>5. ASSUME NEW p \in People, InviteeJoins(p) \/ InviteeLeaves(p) PROVE RemindersTypes'
  BY <1>5 DEF InviteeJoins, InviteeLeaves, Joins, Leaves, todos
<1>6. ASSUME NEW a \in Appointments, NEW row, row \in Appointment(a) \/ row = Unset,
             appt' = [appt EXCEPT ![a] = row],
             UNCHANGED <<minute, members, notified, told, swept, todos>>
      PROVE  RemindersTypes'
  <2>1. row \in AppointmentRow \cup {Unset}
    BY <1>6, RowsOfAll
  <2>2. /\ appt' \in [Appointments -> AppointmentRow \cup {Unset}] /\ appt'[a] = row
        /\ \A b \in Appointments : b # a => appt'[b] = appt[b]
    BY <1>6, <2>1
  <2>3. \A b \in Appointments : appt'[b] = Unset \/ appt'[b] \in Appointment(b)
    BY <1>6, <2>2
  <2> QED BY <1>6, <2>2, <2>3 DEF todos
<1>7. ASSUME NEW e \in Events, NEW s \in Minutes, NEW daily \in BOOLEAN,
             NEW until \in Days \cup {Unset}, NEW timed \in BOOLEAN,
             NEW L \in SUBSET Leads, SetEvent(e, s, daily, until, timed, L)
      PROVE  RemindersTypes'
  <2> DEFINE row == [label |-> e, start |-> s, daily |-> daily, until |-> until,
                     timed |-> timed, leads |-> L]
  <2>1. e \in Appointments /\ e \notin Meetings
    BY RemindersAssumption DEF Appointments
  <2>2. row \in Appointment(e)
    BY <2>1 DEF Appointment
  <2>3. appt' = [appt EXCEPT ![e] = row]
        /\ UNCHANGED <<minute, members, notified, told, swept, todos>>
    BY <1>7 DEF SetEvent
  <2> HIDE DEF row
  <2> QED BY <1>6, <2>1, <2>2, <2>3
<1>8. ASSUME NEW m \in Meetings, NEW n \in Titles, NEW s \in Minutes, NEW daily \in BOOLEAN,
             SetMeeting(m, n, s, daily)
      PROVE  RemindersTypes'
  <2> DEFINE row == [label |-> n, start |-> s, daily |-> daily, until |-> Unset,
                     timed |-> TRUE, leads |-> Default]
  <2>1. m \in Appointments
    BY DEF Appointments
  <2>2. row \in Appointment(m)
    BY DEF Appointment, Leads
  <2>3. appt' = [appt EXCEPT ![m] = row]
        /\ UNCHANGED <<minute, members, notified, told, swept, todos>>
    BY <1>8 DEF SetMeeting
  <2> HIDE DEF row
  <2> QED BY <1>6, <2>1, <2>2, <2>3
<1>9. ASSUME NEW a \in Appointments, Cancel(a) PROVE RemindersTypes'
  BY <1>6, <1>9 DEF Cancel
<1>10. \A L \in {Default} \cup {{l} \ {0} : l \in Choices} : L \in SUBSET Leads
  BY DEF Leads
<1>11. ASSUME NEW t \in Todos, NEW d \in Days \cup {Unset}, SetDue(t, d) PROVE RemindersTypes'
  <2>1. heard' \in [Todos -> SUBSET (People \X Phases)]
    BY <1>11 DEF SetDue
  <2> QED BY <1>11, <2>1, DatesOne DEF SetDue, TodoSet, events
<1>12. ASSUME NEW t \in Todos, NEW b \in BOOLEAN, SetDone(t, b) PROVE RemindersTypes'
  BY <1>12, TicksOne DEF SetDone, TodoSet, events
<1>13. ASSUME NEW t \in Todos, NEW A \in SUBSET People, Assign(t, A) PROVE RemindersTypes'
  BY <1>13, AssignsOne DEF Assign, TodoSet, events
<1>14. CASE UNCHANGED remindersVars
  BY <1>14 DEF remindersVars
<1> HIDE DEF RemindersTypes, RemindersTypeOK
<1>15. CASE \E e \in Events, s \in Minutes, d \in BOOLEAN, u \in Days \cup {Unset},
               L \in {Default} \cup {{l} \ {0} : l \in Choices} : SetEvent(e, s, d, u, TRUE, L)
  BY <1>7, <1>10, <1>15
<1>16. CASE \E e \in Events, d \in Days, r \in BOOLEAN, u \in Days \cup {Unset} :
               d * DayLength \in Minutes /\ SetEvent(e, d * DayLength, r, u, FALSE, Default)
  BY <1>7, <1>10, <1>16
<1> QED
  BY <1>1, <1>2, <1>3, <1>4, <1>5, <1>8, <1>9, <1>11, <1>12, <1>13, <1>14, <1>15, <1>16
     DEF RemindersNext

LEMMA RemindersTypesHold == RemindersSpec => []RemindersTypes
BY RemindersStarts, RemindersTypeStep, PTL DEF RemindersSpec

\* The rows keep their types, and what is remembered as said is a key and a start
\* that the sweep makes, a day for a day and a minute for a minute (index.ts,
\* eventOccurrenceOnOrAfter).
THEOREM RemindersTyped == RemindersSpec => []RemindersTypeOK
<1>1. RemindersTypes => RemindersTypeOK
  BY DEF RemindersTypes
<1> QED BY <1>1, RemindersTypesHold, PTL

-----------------------------------------------------------------------------
(* Reminders: the flags of a todo.                                         *)

LEMMA FlagStep ==
    RemindersTypes /\ FlagMeansTold /\ [RemindersNext]_remindersVars => FlagMeansTold'
<1> SUFFICES ASSUME RemindersTypes, FlagMeansTold, [RemindersNext]_remindersVars
             PROVE  FlagMeansTold'
  OBVIOUS
<1>1. todo \in [Todos -> Todo] /\ heard \in [Todos -> SUBSET (People \X Phases)]
  BY DEF RemindersTypes, RemindersTypeOK
<1>2. CASE UNCHANGED todos
  BY <1>2 DEF FlagMeansTold, todos
<1>3. CASE TodoSweep
  <2> SUFFICES ASSUME NEW t \in Todos, NEW f \in Phases, NEW p \in People,
                      f \in todo'[t].flags, p \in todo'[t].assignees
               PROVE  <<p, f>> \in heard'[t] \cup todo'[t].late
    BY DEF FlagMeansTold
  <2>1. /\ todo'[t].assignees = todo[t].assignees /\ todo'[t].late = todo[t].late
        /\ heard[t] \subseteq heard'[t]
        /\ f \in todo[t].flags \/ todo[t].assignees \X {f} \subseteq heard'[t]
    BY <1>3, TodoSwept
  <2>2. CASE f \in todo[t].flags
    BY <2>1, <2>2 DEF FlagMeansTold
  <2>3. CASE todo[t].assignees \X {f} \subseteq heard'[t]
    BY <2>1, <2>3
  <2> QED BY <2>1, <2>2, <2>3
<1>4. ASSUME NEW t \in Todos, NEW d \in Days \cup {Unset}, SetDue(t, d) PROVE FlagMeansTold'
  <2>1. PICK row \in Todo : TodoSet(t, row) /\ row.flags = {} /\ row.late = {}
    BY <1>4, DatesOne
  <2>2. \A u \in Todos : u # t => heard'[u] = heard[u]
    BY <1>1, <1>4 DEF SetDue
  <2> QED BY <2>1, <2>2 DEF TodoSet, FlagMeansTold
<1>5. ASSUME NEW t \in Todos, NEW b \in BOOLEAN, SetDone(t, b) PROVE FlagMeansTold'
  <2>1. PICK row \in Todo : TodoSet(t, row) /\ row.flags = todo[t].flags
                            /\ row.late = todo[t].late /\ row.assignees = todo[t].assignees
    BY <1>5, TicksOne
  <2>2. heard' = heard
    BY <1>5 DEF SetDone
  <2> QED BY <2>1, <2>2 DEF TodoSet, FlagMeansTold
<1>6. ASSUME NEW t \in Todos, NEW A \in SUBSET People, Assign(t, A) PROVE FlagMeansTold'
  <2>1. PICK row \in Todo :
            /\ TodoSet(t, row) /\ row.flags = todo[t].flags /\ row.assignees = A
            /\ row.late = (todo[t].late \cap (A \X Phases))
                              \cup ((A \ todo[t].assignees) \X todo[t].flags)
    BY <1>6, AssignsOne
  <2>2. heard' = heard
    BY <1>6 DEF Assign
  <2>3. ASSUME NEW f \in Phases, NEW p \in People, f \in todo'[t].flags, p \in todo'[t].assignees
        PROVE  <<p, f>> \in heard'[t] \cup todo'[t].late
    <3>1. f \in todo[t].flags /\ p \in A
      BY <2>1, <2>3 DEF TodoSet
    <3>2. CASE p \in todo[t].assignees
      <4>1. <<p, f>> \in heard[t] \cup todo[t].late
        BY <3>1, <3>2 DEF FlagMeansTold
      <4>2. <<p, f>> \in A \X Phases
        BY <3>1
      <4> QED BY <2>1, <2>2, <4>1, <4>2 DEF TodoSet
    <3>3. CASE p \notin todo[t].assignees
      <4>1. <<p, f>> \in (A \ todo[t].assignees) \X todo[t].flags
        BY <3>1, <3>3
      <4> QED BY <2>1, <4>1 DEF TodoSet
    <3> QED BY <3>2, <3>3
  <2>4. \A u \in Todos : u # t => todo'[u] = todo[u]
    BY <2>1 DEF TodoSet
  <2> QED BY <2>2, <2>3, <2>4 DEF FlagMeansTold
<1>7. CASE \/ MinutePasses \/ ServerRestarts \/ MeetingSweep
           \/ \E p \in People : InviteeJoins(p) \/ InviteeLeaves(p)
           \/ UNCHANGED remindersVars
  BY <1>2, <1>7 DEF MinutePasses, ServerRestarts, MeetingSweep, InviteeJoins, InviteeLeaves,
                    remindersVars, todos
<1>8. ASSUME NEW a, \/ \E s, d, u, b, L : SetEvent(a, s, d, u, b, L)
                    \/ \E n, s, d : SetMeeting(a, n, s, d)
                    \/ Cancel(a)
      PROVE  FlagMeansTold'
  BY <1>2, <1>8 DEF SetEvent, SetMeeting, Cancel
<1> QED
  BY <1>3, <1>4, <1>5, <1>6, <1>7, <1>8 DEF RemindersNext

\* The flag that keeps a deadline from being told again is never set, nor does it
\* survive a new date, while somebody it concerns has not been told, for any number
\* of people, days and reassignments (todos.ts, runTodoReminders).
THEOREM FlagsMeanTold == RemindersSpec => []FlagMeansTold
<1>1. RemindersInit => FlagMeansTold
  <2> SUFFICES ASSUME RemindersInit PROVE FlagMeansTold
    OBVIOUS
  <2>1. \A t \in Todos : todo[t].flags = {}
    BY DEF RemindersInit, NoTodo
  <2> QED BY <2>1 DEF FlagMeansTold
<1> QED BY <1>1, FlagStep, RemindersTypesHold, PTL DEF RemindersSpec

-----------------------------------------------------------------------------
(* Reminders: nobody misses what is about to start.                        *)

\* A key is only remembered for a start that has been told under its label; of an
\* event, on its day.
NotifiedIsTold ==
    \A p \in People, n \in Labels, d \in Days \cup {Unset}, l \in Leads \cup {Unset} :
        <<p, <<n, d, l>>>> \in notified =>
            \E b \in Appointments, u \in Nat :
                <<p, n, b, u>> \in told /\ (n \in Titles \/ (b = n /\ Day(u) = d))

\* Of the appointments a key is to be said of, the first to come says it.
LEMMA SomebodySays ==
    ASSUME NEW f \in Orders, NEW p, NEW b \in Appointments, NEW k \in ToSay(p, b)
    PROVE  \E c \in Appointments : k \in ToSay(p, c) /\ Says(p, c, f) # {}
<1>1. Cardinality(Appointments) \in Nat
  BY RemindersAssumption, FS_CardinalityType
<1>2. f \in [Appointments -> Nat]
  BY <1>1 DEF Orders
<1> DEFINE S == {f[c] : c \in {a \in Appointments : k \in ToSay(p, a)}}
<1>3. S \in SUBSET Nat /\ S # {}
  BY <1>2
<1>4. PICK m \in S : \A n \in S : ~(n < m)
  BY <1>3, Least
<1>5. PICK c \in Appointments : k \in ToSay(p, c) /\ f[c] = m
  BY <1>4
<1>6. \A a \in Appointments : f[a] < f[c] => k \notin ToSay(p, a)
  BY <1>4, <1>5
<1>7. k \in Says(p, c, f)
  BY <1>5, <1>6 DEF Says
<1> QED BY <1>5, <1>7

LEMMA NotifiedStep ==
    RemindersTypes /\ NotifiedIsTold /\ [RemindersNext]_remindersVars => NotifiedIsTold'
<1> SUFFICES ASSUME RemindersTypes, NotifiedIsTold, [RemindersNext]_remindersVars
             PROVE  NotifiedIsTold'
  OBVIOUS
<1>1. CASE UNCHANGED <<notified, told>>
  BY <1>1 DEF NotifiedIsTold
<1>2. CASE MeetingSweep
  <2> SUFFICES ASSUME NEW p \in People, NEW n \in Labels, NEW d \in Days \cup {Unset},
                      NEW l \in Leads \cup {Unset}, <<p, <<n, d, l>>>> \in notified'
               PROVE  \E b \in Appointments, u \in Nat :
                          <<p, n, b, u>> \in told' /\ (n \in Titles \/ (b = n /\ Day(u) = d))
    BY DEF NotifiedIsTold
  <2>1. told \subseteq told'
    BY <1>2 DEF MeetingSweep
  <2>2. CASE <<p, <<n, d, l>>>> \in notified
    BY <2>1, <2>2 DEF NotifiedIsTold
  <2>3. CASE <<p, <<n, d, l>>>> \notin notified
    <3>1. PICK f \in Orders :
              /\ notified' = notified \cup
                     UNION {{<<q, k>> : k \in UNION {ToSay(q, b) : b \in Appointments}} :
                                q \in members}
              /\ told' = told \cup
                     UNION {{<<q, appt[b].label, b, Start(b)>> :
                                b \in {c \in Appointments : Says(q, c, f) # {}}} : q \in members}
      BY <1>2 DEF MeetingSweep
    <3>2. PICK q \in members :
              <<p, <<n, d, l>>>> \in {<<q, k>> : k \in UNION {ToSay(q, b) : b \in Appointments}}
      BY <2>3, <3>1
    <3>3. PICK k \in UNION {ToSay(q, b) : b \in Appointments} : <<p, <<n, d, l>>>> = <<q, k>>
      BY <3>2
    <3>4. q = p /\ k = <<n, d, l>> /\ \E a \in Appointments : k \in ToSay(p, a)
      BY <3>3
    <3>5. PICK b \in Appointments : k \in ToSay(p, b) /\ Says(p, b, f) # {}
      BY <3>4, SomebodySays
    <3>6. PICK e \in Days \cup {Unset}, m \in Leads \cup {Unset} :
              k = <<appt[b].label, e, m>> /\ (b \in Meetings \/ e = OccursOn(b))
      BY <3>5, WhatIsSaid
    <3>7. n = appt[b].label /\ d = e
      BY <3>4, <3>6
    <3>8. appt[b] # Unset /\ OccursOn(b) # Unset
      BY <3>5, WhatIsSaid
    <3>9. appt[b] \in Appointment(b) /\ Start(b) \in Nat /\ Day(Start(b)) = OccursOn(b)
      BY <3>8, OccurrenceType
    <3>10. n \in Titles \/ (b = n /\ b \notin Meetings)
      BY <3>7, <3>9, RowsOfAll
    <3>11. <<p, n, b, Start(b)>> \in told'
      BY <3>1, <3>2, <3>4, <3>5, <3>7
    <3> QED BY <3>6, <3>7, <3>9, <3>10, <3>11
  <2> QED BY <2>2, <2>3
<1>3. CASE ServerRestarts
  BY <1>3 DEF ServerRestarts, NotifiedIsTold
<1>4. CASE \/ MinutePasses \/ TodoSweep
           \/ \E p \in People : InviteeJoins(p) \/ InviteeLeaves(p)
           \/ UNCHANGED remindersVars
  BY <1>1, <1>4 DEF MinutePasses, TodoSweep, InviteeJoins, InviteeLeaves, remindersVars, events
<1>5. ASSUME NEW a, \/ \E s, d, u, b, L : SetEvent(a, s, d, u, b, L)
                    \/ \E n, s, d : SetMeeting(a, n, s, d)
                    \/ Cancel(a)
      PROVE  NotifiedIsTold'
  BY <1>1, <1>5 DEF SetEvent, SetMeeting, Cancel
<1>6. ASSUME NEW t, \/ \E d : SetDue(t, d)
                    \/ \E b : SetDone(t, b)
                    \/ \E A : Assign(t, A)
      PROVE  NotifiedIsTold'
  BY <1>1, <1>6 DEF SetDue, SetDone, Assign, events
<1> QED
  BY <1>2, <1>3, <1>4, <1>5, <1>6 DEF RemindersNext

\* Within a day there is a minute of the day that is asked for.
LEMMA ComingMinute ==
    ASSUME NEW m \in Nat, NEW s \in Nat
    PROVE  \E u \in m + 1 .. m + DayLength : u % DayLength = s % DayLength
<1> DEFINE r == s % DayLength
           q == Day(m)
           n == m % DayLength
<1>1. /\ r \in 0 .. DayLength - 1 /\ n \in 0 .. DayLength - 1 /\ q \in Nat
      /\ m = q * DayLength + n
  BY DayAndMinute
<1>2. DayLength \in Nat /\ DayLength > 0 /\ q * DayLength \in Nat
  BY <1>1, RemindersAssumption
<1>3. (q * DayLength + r) % DayLength = r /\ ((q + 1) * DayLength + r) % DayLength = r
  BY <1>1, MinuteOfDay
<1>4. (q + 1) * DayLength = q * DayLength + DayLength
  BY <1>1, <1>2
<1> DEFINE w == q * DayLength
<1>5. r \in Nat /\ n \in Nat /\ r < DayLength /\ n < DayLength /\ w \in Nat /\ m = w + n
  BY <1>1, <1>2
<1>6. (w + r) % DayLength = r /\ (w + DayLength + r) % DayLength = r
  BY <1>3, <1>4
<1> HIDE DEF r, n, w
<1>7. CASE n < r
  <2>1. w + r \in m + 1 .. m + DayLength
    BY <1>2, <1>5, <1>7
  <2> QED BY <1>6, <2>1 DEF r
<1>8. CASE ~(n < r)
  <2>1. w + DayLength + r \in m + 1 .. m + DayLength
    BY <1>2, <1>5, <1>8
  <2> QED BY <1>6, <2>1 DEF r
<1> QED BY <1>7, <1>8

\* But for the named cases, the start the sweep reckons with is the one the user takes
\* for the next.
LEMMA SweepSeesUpcoming ==
    ASSUME RemindersTypes, NEW a \in Appointments, Imminent(a),
           ~AcrossMidnight(a), ~WornOut(a), ~Repeated(a)
    PROVE  /\ OccursOn(a) # Unset /\ Start(a) = Upcoming(a)
           /\ ~appt[a].timed => OccursOn(a) = Today
<1> DEFINE s == appt[a].start
           r == s % DayLength
           f == First(a)
<1>1. appt[a] # Unset
  BY DEF Imminent
<1>2. /\ minute \in Nat /\ s \in Nat /\ Today \in Nat /\ f \in Nat
      /\ appt[a].timed \in BOOLEAN /\ appt[a].daily \in BOOLEAN
  BY <1>1, OccurrenceType DEF RemindersTypes, RemindersTypeOK, Minutes, Appointment
<1>3. r \in 0 .. DayLength - 1 /\ s = f * DayLength + r
  BY <1>2, DayAndMinute DEF First
<1>4. Unset \notin Nat /\ MaxSteps \in Nat /\ MaxSteps > 0
  BY RemindersAssumption
<1>5. Start(a) = OccursOn(a) * DayLength + r
  BY DEF Start
<1>6. CASE a \in Meetings \/ ~appt[a].daily
  <2>1. OccursOn(a) = f /\ Start(a) = s
    BY <1>3, <1>5, <1>6 DEF OccursOn
  <2>2. CASE appt[a].timed /\ a \notin Meetings
    BY <1>2, <1>4, <1>6, <2>1, <2>2 DEF Upcoming, Coming
  <2>3. CASE a \in Meetings
    <3>1. Upcoming(a) = s
      BY <2>3 DEF Repeated
    <3>2. ASSUME ~appt[a].timed PROVE f = Today
      <4>1. s = Today * DayLength + r
        BY <3>1, <3>2 DEF Upcoming
      <4>2. Day(Today * DayLength + r) = Today
        BY <1>2, <1>3, MinuteOfDay
      <4> QED BY <4>1, <4>2 DEF First
    <3> QED BY <1>2, <1>4, <2>1, <3>1, <3>2
  <2>4. CASE ~appt[a].timed /\ a \notin Meetings
    <3>1. f = Today
      BY <1>6, <2>4 DEF Imminent, FallsOn
    <3> QED BY <1>2, <1>3, <1>4, <2>1, <2>4, <3>1 DEF Upcoming
  <2> QED BY <1>2, <2>2, <2>3, <2>4
<1>7. CASE a \notin Meetings /\ appt[a].daily
  <2> DEFINE next == IF f < Today THEN Today ELSE f
  <2>1. ASSUME ~Over(a, next), ~(next - f >= MaxSteps) PROVE OccursOn(a) = next
    BY <1>7, <2>1 DEF OccursOn
  <2>2. CASE ~appt[a].timed
    <3>1. f <= Today /\ ~Over(a, Today) /\ Upcoming(a) = Today * DayLength + r
      BY <1>7, <2>2 DEF Imminent, FallsOn, Upcoming
    <3>2. Day(Upcoming(a)) = Today
      BY <1>2, <1>3, <3>1, MinuteOfDay
    <3>3. next = Today
      BY <1>2, <3>1
    <3>4. ~(Today - f >= MaxSteps)
      BY <1>7, <3>2 DEF WornOut
    <3>5. OccursOn(a) = Today
      BY <2>1, <3>1, <3>3, <3>4
    <3> QED BY <1>2, <1>4, <1>5, <3>1, <3>5
  <2>3. CASE appt[a].timed /\ s > minute
    <3>1. Upcoming(a) = s /\ ~Over(a, f)
      BY <1>7, <2>3 DEF Upcoming, Coming, Imminent, FallsOn, First
    <3>2. Today <= f
      BY <1>2, <2>3, DaysInOrder DEF Today, First
    <3>3. next = f /\ ~(next - f >= MaxSteps)
      BY <1>2, <1>4, <3>2
    <3>4. OccursOn(a) = f
      BY <2>1, <3>1, <3>3
    <3> QED BY <1>2, <1>3, <1>4, <1>5, <2>3, <3>1, <3>4
  <2>4. CASE appt[a].timed /\ ~(s > minute)
    <3> DEFINE u == Coming(a)
    <3>1. u = CHOOSE v \in minute + 1 .. minute + DayLength : v % DayLength = s % DayLength
      BY <1>7, <2>4 DEF Coming
    <3>2. u \in minute + 1 .. minute + DayLength /\ u % DayLength = r
      BY <1>2, <3>1, ComingMinute
    <3>3. DayLength \in Nat
      BY RemindersAssumption
    <3>4. Upcoming(a) = u
      BY <2>4 DEF Upcoming
    <3>5. ~Over(a, Day(u))
      BY <1>7, <2>4 DEF Imminent, FallsOn
    <3>6. ~(Day(u) - f >= MaxSteps)
      BY <1>7, <3>4 DEF WornOut
    <3>7. f <= Today
      BY <1>2, <2>4, DaysInOrder DEF Today, First
    <3>8. ~(Day(u) > Today)
      BY <1>7, <2>4, <3>7 DEF AcrossMidnight
    <3> HIDE DEF u
    <3>9. u \in Nat /\ minute < u
      BY <1>2, <3>2, <3>3
    <3>10. Day(u) \in Nat /\ u = Day(u) * DayLength + r
      BY <3>2, <3>9, DayAndMinute
    <3>11. Today <= Day(u)
      BY <1>2, <3>9, DaysInOrder DEF Today
    <3>12. Day(u) = Today
      BY <1>2, <3>8, <3>10, <3>11
    <3>13. next = Today
      BY <1>2, <3>7
    <3>14. OccursOn(a) = Today
      BY <2>1, <3>5, <3>6, <3>12, <3>13
    <3> QED BY <1>2, <1>4, <1>5, <2>4, <3>4, <3>10, <3>12, <3>14
  <2> QED BY <1>2, <2>2, <2>3, <2>4
<1> QED BY <1>2, <1>6, <1>7

\* One participant and one appointment: told now, told before, or told of another.
LEMMA SweepTells ==
    ASSUME RemindersTypes, NotifiedIsTold, NotifiedIsTold', MeetingSweep,
           NEW p \in members, NEW a \in Appointments, Imminent(a),
           ~AcrossMidnight(a), ~WornOut(a), ~Repeated(a)
    PROVE  <<p, appt[a].label, a, Upcoming(a)>> \in told' \/ ToldOfAnother(p, a, told')
<1>1. appt[a] # Unset /\ p \in People
  BY DEF Imminent, RemindersTypes, RemindersTypeOK
<1>2. /\ OccursOn(a) # Unset /\ Start(a) = Upcoming(a)
      /\ ~appt[a].timed => OccursOn(a) = Today
  BY SweepSeesUpcoming
<1>3. /\ appt[a] \in Appointment(a) /\ OccursOn(a) \in Days /\ Today \in Days
      /\ Start(a) \in Nat /\ Day(Start(a)) = OccursOn(a)
      /\ appt[a].label \in Labels /\ appt[a].leads \subseteq Leads
      /\ appt[a].timed \in BOOLEAN
  BY <1>1, <1>2, OccurrenceType DEF Appointment
<1> DEFINE n == appt[a].label
<1>4. PICK d \in Days \cup {Unset}, l \in Leads \cup {Unset} :
          /\ <<p, <<n, d, l>>>> \in notified \/ <<n, d, l>> \in ToSay(p, a)
          /\ a \in Meetings \/ d = OccursOn(a)
  <2>1. CASE appt[a].timed
    <3>1. PICK l \in appt[a].leads : Coming(a) - minute <= l /\ Coming(a) > minute
      BY <2>1 DEF Imminent
    <3>2. minute \in Int
      BY DEF RemindersTypes, RemindersTypeOK, Minutes
    <3>3. Met(a, l)
      BY <1>2, <1>3, <2>1, <3>1, <3>2 DEF Met, Upcoming
    <3>4. <<p, KeyOf(a, l)>> \in notified \/ KeyOf(a, l) \in ToSay(p, a)
      BY <1>1, <1>2, <2>1, <3>1, <3>3 DEF ToSay
    <3>5. l \in Leads
      BY <1>3, <3>1
    <3> DEFINE d == IF a \in Meetings THEN Unset ELSE OccursOn(a)
    <3>6. KeyOf(a, l) = <<n, d, l>> /\ d \in Days \cup {Unset}
          /\ (a \in Meetings \/ d = OccursOn(a))
      BY <1>3 DEF KeyOf
    <3> HIDE DEF d
    <3> QED BY <3>4, <3>5, <3>6
  <2>2. CASE ~appt[a].timed
    <3>1. OccursOn(a) = Today /\ minute % DayLength >= Morning
      BY <1>2, <2>2 DEF Imminent
    <3>2. <<p, <<n, Today, Unset>>>> \in notified \/ <<n, Today, Unset>> \in ToSay(p, a)
      BY <1>1, <1>2, <2>2, <3>1 DEF ToSay
    <3> QED BY <1>3, <3>1, <3>2
  <2> QED BY <1>3, <2>1, <2>2
<1>5. <<p, <<n, d, l>>>> \in notified'
  <2>1. CASE <<p, <<n, d, l>>>> \in notified
    BY <2>1 DEF MeetingSweep
  <2>2. CASE <<n, d, l>> \in ToSay(p, a)
    BY <2>2 DEF MeetingSweep
  <2> QED BY <1>4, <2>1, <2>2
<1>6. PICK b \in Appointments, u \in Nat :
          <<p, n, b, u>> \in told' /\ (n \in Titles \/ (b = n /\ Day(u) = d))
  BY <1>1, <1>3, <1>5 DEF NotifiedIsTold, Labels, Leads, Days
<1>7. a \in Meetings \/ Day(u) = Day(Upcoming(a))
  BY <1>2, <1>3, <1>4, <1>6, RowsOfAll, RemindersAssumption
<1>8. CASE b = a /\ u = Upcoming(a)
  BY <1>6, <1>8
<1>9. CASE ~(b = a /\ u = Upcoming(a))
  <2> DEFINE x == <<p, n, b, u>>
  <2>1. /\ x \in told' /\ x[1] = p /\ x[2] = n /\ x[4] = u
        /\ <<x[3], x[4]>> # <<a, Upcoming(a)>>
    BY <1>6, <1>9
  <2> HIDE DEF x
  <2> QED BY <1>7, <2>1 DEF ToldOfAnother
<1> QED BY <1>8, <1>9

\* After a sweep everybody has been told of whatever is about to start, for all
\* starts, leads, days and restarts, but for whom the label of the appointment was used
\* up by another start or meeting, a daily event whose next start is tomorrow's or that
\* is too old to be found, and a meeting that repeats (index.ts, runMeetingReminders).
THEOREM RemindersInTime == RemindersSpec => RemindedInTime
<1>1. RemindersInit => NotifiedIsTold
  BY DEF RemindersInit, NotifiedIsTold
<1>2. RemindersSpec => []NotifiedIsTold
  BY <1>1, NotifiedStep, RemindersTypesHold, PTL DEF RemindersSpec
<1> DEFINE Reminds == MeetingSweep => \A p \in members, a \in Appointments :
                          Imminent(a) => \/ <<p, appt[a].label, a, Upcoming(a)>> \in told'
                                         \/ ToldOfAnother(p, a, told')
                                         \/ AcrossMidnight(a) \/ WornOut(a) \/ Repeated(a)
<1>3. RemindersTypes /\ NotifiedIsTold /\ NotifiedIsTold' => Reminds
  BY SweepTells
<1> HIDE DEF Reminds
<1>4. RemindersSpec => [][Reminds]_remindersVars
  BY <1>2, <1>3, RemindersTypesHold, PTL DEF RemindersSpec
<1> QED BY <1>4 DEF RemindedInTime, Reminds
=============================================================================

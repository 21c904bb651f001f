--------------------------- MODULE FileTree_proofs ---------------------------
(***************************************************************************)
(* What holds of the files of a group for any number of rows, names,       *)
(* uploads and limits.                                                     *)
(***************************************************************************)
EXTENDS FileTree, FiniteSetTheorems, WellFoundedInduction, TLAPS

LEMMA RowsAreFinite ==
    ASSUME TypeOK, NEW S \in SUBSET rows
    PROVE  IsFiniteSet(S) /\ Cardinality(S) \in Nat /\ Cardinality(S) <= Cardinality(rows)
<1>1. IsFiniteSet(1 .. last)
  BY FS_Interval DEF TypeOK
<1>2. IsFiniteSet(rows)
  BY <1>1, FS_Subset DEF TypeOK
<1> QED BY <1>2, FS_Subset, FS_CardinalityType

LEMMA RowsAreIds == TypeOK => rows \subseteq Ids /\ None \notin Ids
<1> SUFFICES ASSUME TypeOK PROVE rows \subseteq Ids /\ None \notin Ids
  OBVIOUS
<1>1. last \in Nat /\ last <= MaxId /\ MaxId \in Nat /\ rows \subseteq 1 .. last
  BY FileTreeAssumption DEF TypeOK
<1> QED BY <1>1, FileTreeAssumption DEF Ids

\* There is a least natural number in every nonempty set of them.
LEMMA Least ==
    ASSUME NEW S \in SUBSET Nat, S # {}
    PROVE  \E m \in S : \A k \in S : ~(k < m)
<1>1. PICK m \in S : \A k \in S : <<k, m>> \notin OpToRel(<, Nat)
  BY WFMin, NatLessThanWellFounded, Zenon
<1> QED BY <1>1, Zenon DEF OpToRel

\* A folder has at most as many names as there are rows, so one of the next
\* Cardinality(rows) + 1 numbers is free: the loop that looks for it ends, with
\* a name that nobody has.
LEMMA FreeNameIsFree ==
    ASSUME TypeOK, NEW n \in Nat, NEW p, NEW i
    PROVE  FreeName(n, p, i) \in Nat /\ FreeName(n, p, i) \notin Taken(p, i)
<1> DEFINE K == {k \in Live \ {i} : parent[k] = p}
           top == n + Cardinality(rows)
           free == {m \in n .. top : m \notin Taken(p, i)}
<1>1. K \in SUBSET rows /\ IsFiniteSet(K) /\ Cardinality(K) \in Nat
      /\ Cardinality(K) <= Cardinality(rows) /\ Cardinality(rows) \in Nat
  <2>1. K \in SUBSET rows
    BY DEF Live
  <2> QED BY <2>1, RowsAreFinite
<1>2. IsFiniteSet(Taken(p, i)) /\ Cardinality(Taken(p, i)) <= Cardinality(K)
  <2> DEFINE f == [k \in K |-> name[k]]
  <2>1. f \in Surjection(K, Taken(p, i))
    BY DEF Surjection, Taken
  <2> QED BY <1>1, <2>1, FS_Surjection
<1>3. free # {}
  <2>1. SUFFICES ASSUME n .. top \subseteq Taken(p, i) PROVE FALSE
    OBVIOUS
  <2>2. Cardinality(n .. top) <= Cardinality(Taken(p, i))
    BY <1>2, <2>1, FS_Subset
  <2>3. Cardinality(n .. top) = Cardinality(rows) + 1
    BY <1>1, FS_Interval
  <2>4. Cardinality(Taken(p, i)) \in Nat
    BY <1>2, FS_CardinalityType
  <2> QED BY <1>1, <1>2, <2>2, <2>3, <2>4
<1>4. free \in SUBSET Nat
  BY <1>1
<1>5. PICK m \in free : \A k \in free : ~(k < m)
  BY <1>3, <1>4, Least
<1>6. m \in n .. top /\ m \notin Taken(p, i) /\ \A k \in n .. m - 1 : k \in Taken(p, i)
  BY <1>1, <1>5
<1>7. FreeName(n, p, i) \in n .. top /\ FreeName(n, p, i) \notin Taken(p, i)
  BY <1>6 DEF FreeName
<1> QED BY <1>1, <1>7

LEMMA UploadNameType ==
    ASSUME TypeOK, NEW n \in Nat, NEW p
    PROVE  UploadName(n, p) \in Nat
BY FreeNameIsFree, FileTreeAssumption DEF UploadName

-----------------------------------------------------------------------------
(* Types.                                                                  *)

\* What a step that inserts a row does to the table.
LEMMA InsertType ==
    ASSUME TypeOK, NEW k \in Kinds, NEW p \in Places, NEW n \in Nat, Inserted(k, p, n)
    PROVE  /\ last' \in 0 .. MaxId /\ last' = last + 1 /\ last + 1 \in Ids
           /\ last + 1 \notin rows
           /\ rows' = rows \cup {last + 1} /\ rows' \subseteq 1 .. last'
           /\ kind' \in [Ids -> Kinds] /\ parent' \in [Ids -> Places]
           /\ name' \in [Ids -> Nat] /\ trash' \in [Ids -> Places]
           /\ \A i \in rows : kind'[i] = kind[i] /\ parent'[i] = parent[i]
                              /\ name'[i] = name[i] /\ trash'[i] = trash[i]
           /\ kind'[last + 1] = k /\ parent'[last + 1] = p
           /\ name'[last + 1] = n /\ trash'[last + 1] = None
<1> USE FileTreeAssumption DEF TypeOK, Inserted, Ids, Places
<1>1. /\ last \in Nat /\ MaxId \in Nat /\ last < MaxId /\ last' = last + 1
      /\ rows' = rows \cup {last + 1}
  OBVIOUS
<1>2. last' \in 0 .. MaxId /\ last + 1 \in Ids /\ rows' \subseteq 1 .. last'
      /\ last + 1 \notin rows
  BY <1>1
<1>3. \A i \in rows : i \in Ids /\ i # last + 1
  BY <1>1, <1>2
<1>4. kind' \in [Ids -> Kinds] /\ parent' \in [Ids -> Places]
      /\ name' \in [Ids -> Nat] /\ trash' \in [Ids -> Places]
  OBVIOUS
<1> QED BY <1>1, <1>2, <1>3, <1>4

LEMMA InitType == Init => TypeOK
  BY FileTreeAssumption DEF Init, TypeOK, Ids, Places, Kinds

LEMMA EraseType ==
    ASSUME TypeOK, NEW S \in SUBSET Roots, NEW B \in SUBSET Roots, S \cap B = {}, Erase(S, B)
    PROVE  TypeOK'
<1>1. rows' = rows \ Rows(S) /\ Rows(B) \subseteq rows \ Rows(S)
  BY DEF Erase, Rows, Group
<1>2. content' \subseteq content \ Rows(S)
  BY DEF Erase, Purged, Rows
<1> QED BY <1>1, <1>2 DEF Erase, TypeOK, Upload, Copying

LEMMA TypeStep == TypeOK /\ [Next]_vars => TypeOK'
<1> SUFFICES ASSUME TypeOK, [Next]_vars PROVE TypeOK'
  OBVIOUS
<1>1. CASE List
  <2>1. Inserted("folder", None, Seed) /\ UNCHANGED <<content, uploads, copy, strays, hollow>>
    BY <1>1 DEF List
  <2> QED BY <2>1, InsertType, FileTreeAssumption DEF TypeOK, Kinds, Places
<1>2. ASSUME NEW k \in Kinds, NEW n \in Names, CreateFirst(k, n) PROVE TypeOK'
  <2>1. /\ last \in Nat /\ last' = last + 2 /\ last + 2 <= MaxId
        /\ rows' = {last + 1, last + 2} /\ content' \subseteq {last + 2}
        /\ strays = {} /\ hollow = {}
    BY <1>2 DEF CreateFirst, TypeOK
  <2>2. last' \in 0 .. MaxId /\ rows' \subseteq 1 .. last' /\ content' \subseteq rows'
    BY <2>1, FileTreeAssumption
  <2>3. kind' \in [Ids -> Kinds] /\ parent' \in [Ids -> Places]
        /\ name' \in [Ids -> Nat] /\ trash' \in [Ids -> Places]
    BY <1>2, FileTreeAssumption DEF CreateFirst, TypeOK, Kinds, Places
  <2> QED BY <1>2, <2>1, <2>2, <2>3 DEF CreateFirst, TypeOK
<1>3. ASSUME NEW k \in Kinds, NEW n \in Names, NEW p \in Places, Create(k, p, n) PROVE TypeOK'
  <2>1. /\ Inserted(k, p, n) /\ UNCHANGED <<uploads, copy, strays, hollow>>
        /\ content' \subseteq content \cup {last + 1}
    BY <1>3 DEF Create
  <2> QED BY <2>1, InsertType, FileTreeAssumption DEF TypeOK
<1>4. ASSUME NEW k \in Kinds, NEW n \in Names, Arrive(k, n) PROVE TypeOK'
  <2>1. PICK p \in Places : Inserted(k, p, FreeName(n, p, None))
    <3>1. Folders \subseteq Places
      BY RowsAreIds DEF Folders, Live, Places
    <3>2. None \in Places
      BY DEF Places
    <3> QED BY <1>4, <3>1, <3>2 DEF Arrive
  <2>2. /\ content' \subseteq content \cup {last + 1} /\ hollow' \subseteq hollow \cup {last + 1}
        /\ UNCHANGED <<uploads, copy, strays>>
    BY <1>4 DEF Arrive
  <2> QED BY <2>1, <2>2, InsertType, FreeNameIsFree, FileTreeAssumption DEF TypeOK
<1>5. ASSUME NEW p \in Places, NEW n \in Names, UploadStart(p, n) PROVE TypeOK'
  <2>1. UploadName(n, p) \in Nat
    BY UploadNameType, FileTreeAssumption
  <2>2. [parent |-> p, name |-> UploadName(n, p), spoilt |-> FALSE] \in Upload
    BY <2>1 DEF Upload
  <2>3. uploads' \subseteq uploads \cup {[parent |-> p, name |-> UploadName(n, p), spoilt |-> FALSE]}
        /\ UNCHANGED <<rows, last, kind, parent, name, trash, content, copy, strays, hollow>>
    BY <1>5 DEF UploadStart
  <2> QED BY <2>2, <2>3 DEF TypeOK
<1>6. ASSUME NEW u \in uploads, NEW k \in Kinds, UploadEnd(u, k) \/ (k = "doc" /\ UploadSpoilt(u))
      PROVE  TypeOK'
  <2>1. u \in Upload /\ u.parent \in Places /\ u.name \in Nat
    BY DEF TypeOK, Upload
  <2>2. UploadRow(u, k)
    BY <1>6 DEF UploadEnd, UploadSpoilt
  <2>3. PICK n \in Nat : Inserted(k, u.parent, n)
    BY <2>1, <2>2, UploadNameType DEF UploadRow
  <2>4. [u EXCEPT !.spoilt = TRUE] \in Upload
    BY <2>1 DEF Upload
  <2>5. /\ content' \subseteq content \cup {last + 1} /\ hollow' \subseteq hollow \cup {last + 1}
        /\ uploads' \subseteq uploads \cup {[u EXCEPT !.spoilt = TRUE]}
    BY <1>6 DEF UploadEnd, UploadSpoilt
  <2>6. strays' = strays \cup {last + 1} /\ copy' = copy
    BY <2>2 DEF UploadRow
  <2> QED BY <2>1, <2>3, <2>4, <2>5, <2>6, InsertType DEF TypeOK
<1>7. ASSUME NEW u \in uploads, UploadFails(u) PROVE TypeOK'
  BY <1>7 DEF UploadFails, TypeOK
<1>8. ASSUME NEW f \in Ids, NEW p \in Places, Move(f, p) PROVE TypeOK'
  BY <1>8 DEF Move, TypeOK
<1>9. ASSUME NEW f \in Ids, NEW p \in Places, Copy(f, p) PROVE TypeOK'
  <2>1. Cardinality(Live) \in Nat /\ Cardinality(Below(f)) \in Nat
    BY RowsAreFinite DEF Live, Below
  <2> QED BY <1>9, <2>1 DEF Copy, TypeOK, Copying
<1>10. ASSUME NEW f \in Ids, NEW p \in Places, CopyRow(f, p) PROVE TypeOK'
  <2>1. kind[f] \in Kinds /\ name[f] \in Nat /\ copy \in Copying
    BY <1>10 DEF CopyRow, TypeOK
  <2>2. Inserted(kind[f], p, FreeName(name[f], p, None))
    BY <1>10 DEF CopyRow
  <2>3. last + 1 \in Ids /\ rows' \subseteq Ids /\ rows' = rows \cup {last + 1}
    <3>1. /\ last' \in 0 .. MaxId /\ last + 1 \in Ids /\ rows' = rows \cup {last + 1}
          /\ rows' \subseteq 1 .. last'
      BY <2>1, <2>2, InsertType, FreeNameIsFree
    <3> QED BY <3>1, FileTreeAssumption DEF Ids
  <2>4. copy' \in Copying
    <3> DEFINE children == {i \in rows' : trash'[i] = None /\ parent'[i] = f}
               more == IF kind[f] = "folder" THEN children \X {last + 1} ELSE {}
    <3>1. more \subseteq Ids \X Places
      BY <2>3 DEF Places
    <3>2. copy' = [copy EXCEPT !.todo = (@ \ {<<f, p>>}) \cup more, !.made = @ + 1]
      BY <1>10 DEF CopyRow
    <3> HIDE DEF more
    <3>3. (copy.todo \ {<<f, p>>}) \cup more \in SUBSET (Ids \X Places) /\ copy.made + 1 \in Nat
      BY <2>1, <3>1 DEF Copying
    <3> QED BY <2>1, <3>2, <3>3 DEF Copying
  <2>5. /\ content' \subseteq content \cup {last + 1} /\ hollow' \subseteq hollow \cup {last + 1}
        /\ UNCHANGED <<uploads, strays>>
    BY <1>10 DEF CopyRow
  <2> QED BY <2>1, <2>2, <2>4, <2>5, InsertType, FreeNameIsFree DEF TypeOK
<1>11. CASE CopyDone \/ CopyCut
  BY <1>11 DEF CopyDone, CopyCut, TypeOK
<1>12. ASSUME NEW f \in Ids, NEW n \in Names, Rename(f, n) PROVE TypeOK'
  BY <1>12, FileTreeAssumption DEF Rename, TypeOK
<1>13. ASSUME NEW f \in Ids, Trash(f) PROVE TypeOK'
  BY <1>13 DEF Trash, TypeOK, Places
<1>14. ASSUME NEW r \in Ids, NEW wanted \in Places, Restore(r, wanted) PROVE TypeOK'
  <2>1. BackTo(wanted) \in Places /\ name[r] \in Nat
    BY DEF BackTo, Places, TypeOK
  <2>2. NameBack(r, BackTo(wanted)) \in Nat
    BY <2>1, FreeNameIsFree DEF NameBack
  <2> QED BY <1>14, <2>1, <2>2 DEF Restore, TypeOK, Places
<1>15. ASSUME NEW r \in Ids, Purge(r) PROVE TypeOK'
  BY <1>15, EraseType DEF Purge
<1>16. ASSUME NEW M \in SUBSET Roots, EmptyTrash(M) PROVE TypeOK'
  <2>1. PICK S \in SUBSET M : (S = M /\ Erase(S, {})) \/ \E r \in M \ S : Erase(S, {r})
    BY <1>16 DEF EmptyTrash
  <2> QED BY <2>1, EraseType
<1>17. CASE UNCHANGED vars
  BY <1>17 DEF vars, TypeOK
<1>18. ASSUME NEW u \in uploads, UploadSpoilt(u) PROVE TypeOK'
  <2>1. "doc" \in Kinds
    BY DEF Kinds
  <2> QED BY <1>6, <1>18, <2>1
<1>19. CASE ArriveUndone
  <2>1. last \in Nat /\ last < MaxId /\ last' = last + 1
    BY <1>19 DEF ArriveUndone, TypeOK
  <2>2. last' \in 0 .. MaxId /\ rows' \subseteq 1 .. last'
    BY <1>19, <2>1, FileTreeAssumption DEF ArriveUndone, TypeOK
  <2> QED BY <1>19, <2>2 DEF ArriveUndone, TypeOK
<1> QED
  BY <1>1, <1>2, <1>3, <1>4, <1>5, <1>6, <1>7, <1>8, <1>9, <1>10, <1>11, <1>12, <1>13,
     <1>14, <1>15, <1>16, <1>17, <1>18, <1>19 DEF Next

\* The table, the trash and the copy under way keep their types (files.ts): a new
\* name is always found, and what is on the disk belongs to a row.
THEOREM TypeCorrect == Spec => []TypeOK
  BY InitType, TypeStep, PTL DEF Spec

-----------------------------------------------------------------------------
(* The tree.                                                               *)

\* What a step may rely on.  A group of the trash has its root in it, and each of
\* its other rows lies in a folder of the group, unless an upload put it there.
Grouped ==
    \A i \in rows :
        trash[i] # None =>
            /\ trash[i] \in rows /\ trash[trash[i]] = trash[i]
            /\ trash[i] # i =>
                   \/ i \in strays
                   \/ /\ parent[i] \in rows /\ trash[parent[i]] = trash[i]
                      /\ kind[parent[i]] = "folder"

StraysAreFiles == \A i \in strays : kind[i] # "folder"

\* What a copy has still to do goes from live rows to live folders.
CopyPlaced ==
    copy # None => copy.todo \subseteq Live \X (Folders \cup {None})

\* NamesApart, of rows that are in the trash together, too.
NamesInGroup ==
    \A i, j \in rows :
        /\ i # j /\ trash[i] = trash[j] /\ parent[i] = parent[j] /\ name[i] = name[j]
        => {i, j} \cap strays # {} \/ (parent[i] = None /\ name[i] = Seed)

TreeInv ==
    /\ TypeOK /\ Rooted /\ Reachable /\ ContentKept
    /\ Grouped /\ StraysAreFiles /\ NamesInGroup

\* No row hangs from one that is gone.
LEMMA ParentsExist == ASSUME Rooted PROVE \A i \in rows : parent[i] \in rows \cup {None}
<1> SUFFICES ASSUME NEW i \in rows PROVE parent[i] \in rows \cup {None}
  OBVIOUS
<1>1. {i} \in SUBSET rows /\ {i} # {}
  OBVIOUS
<1> QED BY <1>1 DEF Rooted

LEMMA AboveIsClosed ==
    ASSUME TypeOK, Rooted, NEW p \in rows
    PROVE  /\ p \in Above(p) /\ Above(p) \subseteq rows
           /\ \A k \in Above(p) : parent[k] = None \/ parent[k] \in Above(p)
<1>1. p \in Above(p) /\ Above(p) \subseteq rows
  BY DEF Above
<1>2. ASSUME NEW k \in Above(p), parent[k] # None PROVE parent[k] \in Above(p)
  <2>1. k \in rows /\ parent[k] \in rows
    BY <1>2, ParentsExist DEF Above
  <2>2. ASSUME NEW S \in SUBSET rows, p \in S, \A l \in S : parent[l] # None => parent[l] \in S
        PROVE  parent[k] \in S
    BY <1>2, <2>2 DEF Above
  <2> QED BY <2>1, <2>2 DEF Above
<1> QED BY <1>1, <1>2

LEMMA BelowIsClosed ==
    ASSUME TypeOK, NEW f \in Live
    PROVE  /\ f \in Below(f) /\ Below(f) \subseteq Live
           /\ \A k \in Live : parent[k] \in Below(f) => k \in Below(f)
           /\ \A k \in Below(f) : k # f => parent[k] \in Below(f)
<1>1. f \in Below(f) /\ Live \in SUBSET rows
  BY DEF Below, Live
<1>2. Below(f) \subseteq Live
  BY <1>1 DEF Below
<1>3. ASSUME NEW k \in Live, parent[k] \in Below(f) PROVE k \in Below(f)
  <2>1. ASSUME NEW S \in SUBSET rows, f \in S, \A l \in Live : parent[l] \in S => l \in S
        PROVE  k \in S
    BY <1>3, <2>1 DEF Below
  <2> QED BY <1>1, <2>1 DEF Below
<1>4. ASSUME NEW k \in Below(f), k # f, parent[k] \notin Below(f) PROVE FALSE
  <2> DEFINE S == Below(f) \ {k}
  <2>1. S \in SUBSET rows /\ f \in S
    BY <1>1, <1>2, <1>4
  <2>2. ASSUME NEW l \in Live, parent[l] \in S PROVE l \in S
    BY <1>3, <1>4, <2>2
  <2>3. k \in S
    BY <2>1, <2>2, <1>4 DEF Below
  <2> QED BY <2>3
<1> QED BY <1>1, <1>2, <1>3, <1>4

\* Row f is hung under p, which lies in a part of the tree that reaches up to
\* the top and does not have f.
LEMMA ReparentKeepsRooted ==
    ASSUME TypeOK, Rooted, NEW f \in rows, NEW p \in rows \cup {None}, NEW U \in SUBSET rows,
           p = None \/ p \in U, f \notin U, \A k \in U : parent[k] = None \/ parent[k] \in U,
           rows' = rows, parent' = [parent EXCEPT ![f] = p]
    PROVE  Rooted'
<1>1. f \in Ids /\ rows \subseteq Ids /\ None \notin rows
  BY RowsAreIds
<1>2. parent'[f] = p /\ \A i \in rows : i # f => parent'[i] = parent[i]
  BY <1>1 DEF TypeOK
<1> SUFFICES ASSUME NEW S \in SUBSET rows, S # {}
             PROVE  \E i \in S : parent'[i] \notin S /\ parent'[i] \in rows \cup {None}
  BY DEF Rooted
<1>3. CASE f \notin S
  <2>1. PICK i \in S : parent[i] \notin S /\ parent[i] \in rows \cup {None}
    BY DEF Rooted
  <2> QED BY <1>2, <1>3, <2>1
<1>4. CASE f \in S /\ p \notin S
  BY <1>2, <1>4
<1>5. CASE f \in S /\ p \in S
  <2>1. p \in U /\ S \cap U # {} /\ S \cap U \in SUBSET rows
    BY <1>1, <1>5
  <2>2. PICK i \in S \cap U : parent[i] \notin S \cap U /\ parent[i] \in rows \cup {None}
    BY <2>1 DEF Rooted
  <2> QED BY <1>1, <1>2, <2>2
<1> QED BY <1>3, <1>4, <1>5

\* Where a new row may be put: in a live folder, under a name that is free, or,
\* by an upload, in whatever its folder has become.
NewRow(k, p, n) ==
    /\ k \in Kinds /\ p \in Places /\ n \in Nat
    /\ Inserted(k, p, n)
    /\ \/ p \in Folders \cup {None} /\ n \notin Taken(p, None) /\ strays' = strays
       \/ p \in rows \cup {None} /\ k # "folder" /\ strays' = strays \cup {last + 1}
    /\ content \subseteq content' /\ hollow \subseteq hollow'
    /\ k = "folder" \/ last + 1 \in content' \cup hollow'

LEMMA NewRowKeeps ==
    ASSUME TreeInv, NEW k, NEW p, NEW n, NewRow(k, p, n)
    PROVE  Rooted' /\ Reachable' /\ ContentKept' /\ Grouped' /\ StraysAreFiles' /\ NamesInGroup'
<1> DEFINE new == last + 1
<1>1. /\ rows' = rows \cup {new} /\ new \notin rows /\ new # None
      /\ \A i \in rows : kind'[i] = kind[i] /\ parent'[i] = parent[i]
                         /\ name'[i] = name[i] /\ trash'[i] = trash[i]
      /\ kind'[new] = k /\ parent'[new] = p /\ name'[new] = n /\ trash'[new] = None
  BY InsertType, RowsAreIds DEF NewRow, TreeInv
<1>2. /\ p \in rows \cup {None}
      /\ \/ p \in Folders \cup {None} /\ n \notin Taken(p, None) /\ strays' = strays
         \/ k # "folder" /\ strays' = strays \cup {new}
      /\ content \subseteq content' /\ hollow \subseteq hollow'
      /\ k = "folder" \/ new \in content' \cup hollow'
  BY DEF NewRow, Folders, Live
<1>3. None \notin rows /\ strays \subseteq rows
  BY RowsAreIds DEF TreeInv, TypeOK
<1>4. \A i \in rows : parent[i] \in rows \cup {None}
  BY ParentsExist DEF TreeInv
<1> HIDE DEF new
<1>5. Rooted'
  <2> SUFFICES ASSUME NEW S \in SUBSET rows', S # {}
               PROVE  \E i \in S : parent'[i] \notin S /\ parent'[i] \in rows' \cup {None}
    BY DEF Rooted
  <2>1. CASE S = {new}
    BY <1>1, <1>2, <2>1
  <2>2. CASE S # {new}
    <3>1. S \ {new} \in SUBSET rows /\ S \ {new} # {}
      BY <1>1, <2>2
    <3>2. PICK i \in S \ {new} : parent[i] \notin S \ {new} /\ parent[i] \in rows \cup {None}
      BY <3>1 DEF TreeInv, Rooted
    <3> QED BY <1>1, <3>1, <3>2
  <2> QED BY <2>1, <2>2
<1>6. Live' = Live \cup {new} /\ Folders \subseteq Folders'
  BY <1>1 DEF Live, Folders
<1>7. Reachable'
  BY <1>1, <1>2, <1>3, <1>6 DEF TreeInv, Reachable, Live, Folders
<1>8. ContentKept'
  BY <1>1, <1>2 DEF TreeInv, ContentKept
<1>9. Grouped'
  BY <1>1, <1>2 DEF TreeInv, Grouped
<1>10. StraysAreFiles'
  BY <1>1, <1>2, <1>3 DEF TreeInv, StraysAreFiles
<1>11. NamesInGroup'
  <2> SUFFICES ASSUME NEW i \in rows', NEW j \in rows', i # j, trash'[i] = trash'[j],
                      parent'[i] = parent'[j], name'[i] = name'[j]
               PROVE  {i, j} \cap strays' # {} \/ (parent'[i] = None /\ name'[i] = Seed)
    BY DEF NamesInGroup
  <2>1. CASE i \in rows /\ j \in rows
    BY <1>1, <1>2, <2>1 DEF TreeInv, NamesInGroup
  <2>2. ASSUME NEW l \in rows, trash[l] = None, parent[l] = p, name[l] = n, p \in Folders \cup {None}
        PROVE  n \in Taken(p, None)
    BY <1>3, <2>2 DEF Taken, Live
  <2>3. CASE i = new \/ j = new
    BY <1>1, <1>2, <2>2, <2>3
  <2> QED BY <1>1, <2>1, <2>3
<1> QED BY <1>5, <1>7, <1>8, <1>9, <1>10, <1>11

LEMMA MoveKeeps ==
    ASSUME TreeInv, NEW f \in Ids, NEW p \in Places, Move(f, p)
    PROVE  Rooted' /\ Reachable' /\ ContentKept' /\ Grouped' /\ StraysAreFiles' /\ NamesInGroup'
<1>1. /\ f \in rows /\ f \in Live /\ p \in Folders \cup {None} /\ p \in rows \cup {None}
      /\ p # None => f \notin Above(p)
      /\ name[f] \notin Taken(p, f)
      /\ parent' = [parent EXCEPT ![f] = p]
      /\ UNCHANGED <<rows, kind, name, trash, content, strays, hollow>>
  BY DEF Move, NotInside, Folders, Live
<1>2. parent'[f] = p /\ \A i \in rows : i # f => parent'[i] = parent[i]
  BY <1>1, RowsAreIds DEF TreeInv, TypeOK
<1>3. Rooted'
  <2>1. CASE p = None
    <3> DEFINE U == {i \in rows : FALSE}
    <3>1. U \in SUBSET rows /\ f \notin U /\ \A k \in U : parent[k] = None \/ parent[k] \in U
      OBVIOUS
    <3> HIDE DEF U
    <3> QED BY <1>1, <2>1, <3>1, ReparentKeepsRooted DEF TreeInv
  <2>2. CASE p # None
    <3>1. /\ p \in Above(p) /\ Above(p) \in SUBSET rows
          /\ \A k \in Above(p) : parent[k] = None \/ parent[k] \in Above(p)
      BY <1>1, <2>2, AboveIsClosed DEF TreeInv
    <3> QED BY <1>1, <2>2, <3>1, ReparentKeepsRooted DEF TreeInv
  <2> QED BY <2>1, <2>2
<1>4. Live' = Live /\ Folders' = Folders
  BY <1>1 DEF Live, Folders
<1>5. Reachable'
  BY <1>1, <1>2, <1>4 DEF TreeInv, Reachable, Live
<1>6. ContentKept' /\ StraysAreFiles'
  BY <1>1 DEF TreeInv, ContentKept, StraysAreFiles
<1>7. Grouped'
  BY <1>1, <1>2 DEF TreeInv, Grouped, Live
<1>8. NamesInGroup'
  <2> SUFFICES ASSUME NEW i \in rows, NEW j \in rows, i # j, trash[i] = trash[j],
                      parent'[i] = parent'[j], name[i] = name[j]
               PROVE  {i, j} \cap strays # {} \/ (parent'[i] = None /\ name[i] = Seed)
    BY <1>1 DEF NamesInGroup
  <2>1. CASE i # f /\ j # f
    BY <1>2, <2>1 DEF TreeInv, NamesInGroup
  <2>2. ASSUME NEW l \in rows, l # f, trash[l] = None, parent[l] = p, name[l] = name[f]
        PROVE  name[f] \in Taken(p, f)
    BY <2>2 DEF Taken, Live
  <2>3. trash[f] = None
    BY <1>1 DEF Live
  <2> QED BY <1>1, <1>2, <2>1, <2>2, <2>3
<1> QED BY <1>3, <1>5, <1>6, <1>7, <1>8

LEMMA RenameKeeps ==
    ASSUME TreeInv, NEW f \in Ids, NEW n \in Names, Rename(f, n)
    PROVE  Rooted' /\ Reachable' /\ ContentKept' /\ Grouped' /\ StraysAreFiles' /\ NamesInGroup'
<1>1. /\ f \in rows /\ f \in Live
      /\ n \notin Taken(parent[f], f)
      /\ name' = [name EXCEPT ![f] = n]
      /\ UNCHANGED <<rows, kind, parent, trash, content, strays, hollow>>
  BY DEF Rename, Live
<1>2. name'[f] = n /\ \A i \in rows : i # f => name'[i] = name[i]
  BY <1>1, RowsAreIds DEF TreeInv, TypeOK
<1>3. Rooted' /\ ContentKept' /\ Grouped' /\ StraysAreFiles'
  BY <1>1 DEF TreeInv, Rooted, ContentKept, Grouped, StraysAreFiles
<1>4. Reachable'
  BY <1>1 DEF TreeInv, Reachable, Live, Folders
<1>5. NamesInGroup'
  <2> SUFFICES ASSUME NEW i \in rows, NEW j \in rows, i # j, trash[i] = trash[j],
                      parent[i] = parent[j], name'[i] = name'[j]
               PROVE  {i, j} \cap strays # {} \/ (parent[i] = None /\ name'[i] = Seed)
    BY <1>1 DEF NamesInGroup
  <2>1. CASE i # f /\ j # f
    BY <1>2, <2>1 DEF TreeInv, NamesInGroup
  <2>2. ASSUME NEW l \in rows, l # f, trash[l] = None, parent[l] = parent[f], name[l] = n
        PROVE  n \in Taken(parent[f], f)
    BY <2>2 DEF Taken, Live
  <2>3. trash[f] = None
    BY <1>1 DEF Live
  <2> QED BY <1>1, <1>2, <2>1, <2>2, <2>3
<1> QED BY <1>3, <1>4, <1>5

\* What lies below f goes along, so nothing live is left under it, and the old
\* groups are what they were, for f was not in the trash.
LEMMA TrashKeeps ==
    ASSUME TreeInv, NEW f \in Ids, Trash(f)
    PROVE  Rooted' /\ Reachable' /\ ContentKept' /\ Grouped' /\ StraysAreFiles' /\ NamesInGroup'
<1>1. /\ f \in Live /\ f \in rows /\ trash[f] = None
      /\ UNCHANGED <<rows, kind, parent, name, content, strays, hollow>>
      /\ trash' = [i \in Ids |-> IF i \in Below(f) THEN f ELSE trash[i]]
  BY DEF Trash, Live
<1>2. /\ f \in Below(f) /\ Below(f) \subseteq Live
      /\ \A k \in Live : parent[k] \in Below(f) => k \in Below(f)
      /\ \A k \in Below(f) : k # f => parent[k] \in Below(f)
  BY <1>1, BelowIsClosed DEF TreeInv
<1>3. rows \subseteq Ids /\ None \notin rows
  BY RowsAreIds DEF TreeInv
<1>4. \A i \in rows : trash'[i] = IF i \in Below(f) THEN f ELSE trash[i]
  BY <1>1, <1>3
<1>5. \A i \in rows : i \in Below(f) => trash[i] = None /\ trash'[i] # None
  BY <1>1, <1>2, <1>3, <1>4 DEF Live
<1>6. Rooted' /\ ContentKept' /\ StraysAreFiles'
  BY <1>1 DEF TreeInv, Rooted, ContentKept, StraysAreFiles
<1>7. Reachable'
  <2> SUFFICES ASSUME NEW i \in rows, trash'[i] = None, i \notin strays
               PROVE  parent[i] \in Folders' \cup {None}
    BY <1>1 DEF Reachable, Live
  <2>1. i \notin Below(f)
    BY <1>5
  <2>2. i \in Live
    BY <1>4, <2>1 DEF Live
  <2>3. parent[i] \in Folders \cup {None} /\ parent[i] \notin Below(f)
    BY <1>2, <2>1, <2>2 DEF TreeInv, Reachable
  <2> QED BY <1>1, <1>4, <2>3 DEF Folders, Live
<1>8. Grouped'
  <2> SUFFICES ASSUME NEW i \in rows, trash'[i] # None
               PROVE  /\ trash'[i] \in rows /\ trash'[trash'[i]] = trash'[i]
                      /\ trash'[i] # i =>
                             \/ i \in strays
                             \/ /\ parent[i] \in rows /\ trash'[parent[i]] = trash'[i]
                                /\ kind[parent[i]] = "folder"
    BY <1>1 DEF Grouped
  <2>1. CASE i \in Below(f)
    <3>1. trash'[i] = f /\ trash'[f] = f
      BY <1>1, <1>2, <1>4, <2>1
    <3>2. ASSUME i # f, i \notin strays
          PROVE  parent[i] \in rows /\ trash'[parent[i]] = f /\ kind[parent[i]] = "folder"
      <4>1. parent[i] \in Below(f) /\ i \in Live
        BY <1>2, <2>1, <3>2
      <4>2. parent[i] \in rows
        BY <1>2, <4>1 DEF Live
      <4>3. parent[i] \in Folders
        BY <1>3, <3>2, <4>1, <4>2 DEF TreeInv, Reachable
      <4> QED BY <1>4, <4>1, <4>2, <4>3 DEF Folders
    <3> QED BY <1>1, <3>1, <3>2
  <2>2. CASE i \notin Below(f)
    <3>1. trash'[i] = trash[i] /\ trash[i] # None
      BY <1>4, <2>2
    <3>2. /\ trash[i] \in rows /\ trash[trash[i]] = trash[i]
          /\ trash[i] # i => i \in strays \/ (/\ parent[i] \in rows /\ trash[parent[i]] = trash[i]
                                              /\ kind[parent[i]] = "folder")
      BY <3>1 DEF TreeInv, Grouped
    <3>3. \A l \in rows : trash[l] # None => trash'[l] = trash[l]
      BY <1>4, <1>5
    <3> QED BY <3>1, <3>2, <3>3
  <2> QED BY <2>1, <2>2
<1>9. NamesInGroup'
  <2> SUFFICES ASSUME NEW i \in rows, NEW j \in rows, trash'[i] = trash'[j]
               PROVE  trash[i] = trash[j]
    BY <1>1 DEF TreeInv, NamesInGroup
  <2>1. ASSUME NEW l \in rows, trash[l] = f PROVE FALSE
    BY <1>1, <1>3, <2>1 DEF TreeInv, Grouped
  <2> QED BY <1>4, <1>5, <2>1
<1> QED BY <1>6, <1>7, <1>8, <1>9

\* What comes back is hung under a live folder: from it only live folders are
\* met on the way up, for uploads are no folders.
LEMMA RestoreKeeps ==
    ASSUME TreeInv, NEW r \in Ids, NEW wanted \in Places, Restore(r, wanted)
    PROVE  Rooted' /\ Reachable' /\ ContentKept' /\ Grouped' /\ StraysAreFiles' /\ NamesInGroup'
<1> DEFINE p == BackTo(wanted)
<1>1. /\ r \in rows /\ trash[r] = r
      /\ UNCHANGED <<rows, kind, content, strays, hollow>>
      /\ trash' = [i \in Ids |-> IF i \in Group(r) THEN None ELSE trash[i]]
      /\ parent' = [parent EXCEPT ![r] = p]
      /\ name' = [name EXCEPT ![r] = NameBack(r, p)]
  BY DEF Restore, Roots
<1>2. /\ rows \subseteq Ids /\ None \notin rows
      /\ \A i \in rows : i # r => parent'[i] = parent[i] /\ name'[i] = name[i]
      /\ parent'[r] = p /\ name'[r] = NameBack(r, p)
      /\ \A i \in rows : trash'[i] = IF trash[i] = r THEN None ELSE trash[i]
  BY <1>1, RowsAreIds DEF TreeInv, TypeOK, Group
<1>3. p \in Folders \cup {None} /\ p \in rows \cup {None}
  BY DEF BackTo, Folders, Live
<1>4. NameBack(r, p) \notin Taken(p, r)
  BY <1>1, FreeNameIsFree DEF NameBack, TreeInv, TypeOK
<1> HIDE DEF p
<1>5. \A k \in Folders : k \in rows /\ trash[k] = None /\ kind[k] = "folder"
                         /\ parent[k] \in Folders \cup {None}
  BY <1>2 DEF TreeInv, Reachable, StraysAreFiles, Folders, Live
<1>6. Rooted'
  <2>1. Folders \in SUBSET rows /\ r \notin Folders
    BY <1>1, <1>2, <1>5
  <2>2. \A k \in Folders : parent[k] = None \/ parent[k] \in Folders
    BY <1>5
  <2> QED BY <1>1, <1>3, <2>1, <2>2, ReparentKeepsRooted DEF TreeInv
<1>7. ContentKept' /\ StraysAreFiles'
  BY <1>1 DEF TreeInv, ContentKept, StraysAreFiles
<1>8. Folders \subseteq Folders'
  BY <1>1, <1>2 DEF Folders, Live
<1>9. ASSUME NEW i \in rows, trash[i] = r, i # r, i \notin strays
      PROVE  parent[i] \in rows /\ trash[parent[i]] = r /\ kind[parent[i]] = "folder"
  BY <1>1, <1>2, <1>9 DEF TreeInv, Grouped
<1>10. Reachable'
  <2> SUFFICES ASSUME NEW i \in rows, trash'[i] = None, i \notin strays
               PROVE  parent'[i] \in Folders' \cup {None}
    BY <1>1 DEF Reachable, Live
  <2>1. CASE i = r
    BY <1>2, <1>3, <1>8, <2>1
  <2>2. CASE i # r /\ trash[i] = r
    BY <1>1, <1>2, <1>9, <2>2 DEF Folders, Live
  <2>3. CASE i # r /\ trash[i] # r
    BY <1>2, <1>8, <2>3 DEF TreeInv, Reachable, Live
  <2> QED BY <2>1, <2>2, <2>3
<1>11. Grouped'
  <2> SUFFICES ASSUME NEW i \in rows, trash'[i] # None
               PROVE  /\ trash'[i] \in rows /\ trash'[trash'[i]] = trash'[i]
                      /\ trash'[i] # i =>
                             \/ i \in strays
                             \/ /\ parent'[i] \in rows /\ trash'[parent'[i]] = trash'[i]
                                /\ kind[parent'[i]] = "folder"
    BY <1>1 DEF Grouped
  <2>1. trash[i] # r /\ trash'[i] = trash[i] /\ trash[i] # None /\ i # r
    BY <1>1, <1>2
  <2>2. /\ trash[i] \in rows /\ trash[trash[i]] = trash[i]
        /\ trash[i] # i => i \in strays \/ (/\ parent[i] \in rows /\ trash[parent[i]] = trash[i]
                                            /\ kind[parent[i]] = "folder")
    BY <2>1 DEF TreeInv, Grouped
  <2> QED BY <1>2, <2>1, <2>2
<1>12. NamesInGroup'
  <2>1. ASSUME NEW i \in rows, trash[i] = r, i # r, i \notin strays,
               NEW j \in rows, trash[j] = None \/ j = r, j \notin strays
        PROVE  parent'[i] # parent'[j]
    <3>1. parent'[i] = parent[i] /\ parent[i] \in rows /\ trash[parent[i]] = r
      BY <1>2, <1>9, <2>1
    <3>2. parent'[j] \in Folders \cup {None}
      BY <1>2, <1>3, <2>1 DEF TreeInv, Reachable, Live
    <3> QED BY <1>1, <1>2, <1>5, <3>1, <3>2
  <2>2. ASSUME NEW j \in rows, j # r, trash[j] = None, parent'[j] = p, name'[j] = NameBack(r, p)
        PROVE  FALSE
    BY <1>2, <1>4, <2>2 DEF Taken, Live
  <2> SUFFICES ASSUME NEW i \in rows, NEW j \in rows, i # j, trash'[i] = trash'[j],
                      parent'[i] = parent'[j], name'[i] = name'[j]
               PROVE  {i, j} \cap strays # {} \/ (parent'[i] = None /\ name'[i] = Seed)
    BY <1>1 DEF NamesInGroup
  <2>3. CASE i # r /\ j # r /\ trash[i] = trash[j]
    BY <1>2, <2>3 DEF TreeInv, NamesInGroup
  <2>4. CASE i # r /\ j # r /\ trash[i] # trash[j]
    BY <1>2, <2>1, <2>4
  <2>5. CASE i = r \/ j = r
    <3>1. \A l \in rows : trash'[l] = None => trash[l] \in {None, r}
      BY <1>2
    <3>2. trash'[r] = None
      BY <1>1, <1>2
    <3> QED BY <1>1, <1>2, <2>1, <2>2, <2>5, <3>1, <3>2
  <2> QED BY <2>3, <2>4, <2>5
<1> QED BY <1>6, <1>7, <1>10, <1>11, <1>12

\* Whole groups go, and none of them that a row outside hangs from.
LEMMA EraseKeeps ==
    ASSUME TreeInv, NEW S \in SUBSET Roots, NEW B \in SUBSET Roots, S \cap B = {}, Erase(S, B),
           \A i \in rows \ Rows(S) : parent[i] \notin Rows(S)
    PROVE  Rooted' /\ Reachable' /\ ContentKept' /\ Grouped' /\ StraysAreFiles' /\ NamesInGroup'
<1>1. /\ rows' = rows \ Rows(S) /\ strays' = strays \ Rows(S)
      /\ hollow' = (hollow \ Rows(S)) \cup Rows(B)
      /\ content' = content \ UNION {Purged(r) : r \in S \cup B}
      /\ UNCHANGED <<kind, parent, name, trash>>
  BY DEF Erase
<1>2. /\ \A i \in rows : i \in Rows(S) <=> trash[i] \in S
      /\ \A i \in rows : i \in Rows(B) <=> trash[i] \in B
      /\ \A i \in rows : i \in UNION {Purged(r) : r \in S \cup B} => trash[i] \in S \cup B
  BY DEF Rows, Group, Purged
<1>3. None \notin S /\ S \subseteq rows /\ None \notin rows
  BY RowsAreIds DEF Roots, TreeInv
<1>4. Rooted'
  <2> SUFFICES ASSUME NEW T \in SUBSET rows', T # {}
               PROVE  \E i \in T : parent[i] \notin T /\ parent[i] \in rows' \cup {None}
    BY <1>1 DEF Rooted
  <2>1. T \in SUBSET rows
    BY <1>1
  <2>2. PICK i \in T : parent[i] \notin T /\ parent[i] \in rows \cup {None}
    BY <2>1 DEF TreeInv, Rooted
  <2> QED BY <1>1, <2>2
<1>5. Live' = Live /\ Folders' = Folders
  BY <1>1, <1>2, <1>3 DEF Live, Folders
<1>6. Reachable'
  BY <1>1, <1>5, <1>2, <1>3 DEF TreeInv, Reachable, Live
<1>7. ContentKept'
  <2> SUFFICES ASSUME NEW i \in rows', kind[i] # "folder" PROVE i \in content' \/ i \in hollow'
    BY <1>1 DEF ContentKept
  <2>1. i \in rows /\ i \notin Rows(S) /\ trash[i] \notin S
    BY <1>1, <1>2
  <2>2. i \in content \/ i \in hollow
    BY <2>1 DEF TreeInv, ContentKept
  <2> QED BY <1>1, <1>2, <2>1, <2>2
<1>8. Grouped'
  <2> SUFFICES ASSUME NEW i \in rows', trash[i] # None
               PROVE  /\ trash[i] \in rows' /\ trash[trash[i]] = trash[i]
                      /\ trash[i] # i =>
                             \/ i \in strays'
                             \/ /\ parent[i] \in rows' /\ trash[parent[i]] = trash[i]
                                /\ kind[parent[i]] = "folder"
    BY <1>1 DEF Grouped
  <2>1. i \in rows /\ i \notin Rows(S) /\ trash[i] \notin S
    BY <1>1, <1>2
  <2>2. /\ trash[i] \in rows /\ trash[trash[i]] = trash[i]
        /\ trash[i] # i => i \in strays \/ (/\ parent[i] \in rows /\ trash[parent[i]] = trash[i]
                                            /\ kind[parent[i]] = "folder")
    BY <2>1 DEF TreeInv, Grouped
  <2> QED BY <1>1, <1>2, <2>1, <2>2
<1>9. StraysAreFiles'
  BY <1>1 DEF TreeInv, StraysAreFiles
<1>10. NamesInGroup'
  <2> SUFFICES ASSUME NEW i \in rows', NEW j \in rows', i # j, trash[i] = trash[j],
                      parent[i] = parent[j], name[i] = name[j]
               PROVE  {i, j} \cap strays' # {} \/ (parent[i] = None /\ name[i] = Seed)
    BY <1>1 DEF NamesInGroup
  <2>1. i \in rows \ Rows(S) /\ j \in rows \ Rows(S)
    BY <1>1
  <2>2. {i, j} \cap strays # {} \/ (parent[i] = None /\ name[i] = Seed)
    BY <2>1 DEF TreeInv, NamesInGroup
  <2> QED BY <1>1, <2>1, <2>2
<1> QED BY <1>4, <1>6, <1>7, <1>8, <1>9, <1>10

LEMMA SameRowsKeep ==
    ASSUME TreeInv, UNCHANGED <<rows, kind, parent, name, trash, content, strays, hollow>>
    PROVE  Rooted' /\ Reachable' /\ ContentKept' /\ Grouped' /\ StraysAreFiles' /\ NamesInGroup'
  BY DEF TreeInv, Rooted, Reachable, ContentKept, Grouped, StraysAreFiles, NamesInGroup, Live,
         Folders

\* The first folder of a group and what is made with it.
LEMMA CreateFirstKeeps ==
    ASSUME TreeInv, NEW k \in Kinds, NEW n \in Names, CreateFirst(k, n)
    PROVE  Rooted' /\ Reachable' /\ ContentKept' /\ Grouped' /\ StraysAreFiles' /\ NamesInGroup'
<1>1. /\ last \in Nat /\ last + 1 \in Ids /\ last + 2 \in Ids /\ last + 1 # last + 2
      /\ strays = {} /\ strays' = {}
  BY FileTreeAssumption DEF CreateFirst, TreeInv, TypeOK, Ids
<1>2. /\ rows' = {last + 1, last + 2}
      /\ kind'[last + 1] = "folder" /\ kind'[last + 2] = k /\ k \in {"folder", "doc"}
      /\ \A i \in rows' : parent'[i] = None /\ trash'[i] = None
      /\ name'[last + 1] = Seed
      /\ k = "doc" => last + 2 \in content'
  BY <1>1 DEF CreateFirst, TreeInv, TypeOK
<1>3. None \notin rows'
  BY <1>1, <1>2, FileTreeAssumption
<1>4. Rooted'
  BY <1>2, <1>3 DEF Rooted
<1>5. Reachable' /\ ContentKept' /\ Grouped' /\ StraysAreFiles'
  BY <1>1, <1>2 DEF Reachable, ContentKept, Grouped, StraysAreFiles, Live
<1>6. NamesInGroup'
  BY <1>2 DEF NamesInGroup
<1> QED BY <1>4, <1>5, <1>6

\* Of one row whose name is free in its live folder.
LEMMA NewRows ==
    ASSUME TreeInv, CopyPlaced, [Next]_vars
    PROVE  /\ List => NewRow("folder", None, Seed)
           /\ \A k \in Kinds, n \in Names, p \in Places : Create(k, p, n) => NewRow(k, p, n)
           /\ \A k \in Kinds, n \in Names :
                  Arrive(k, n) => \E p \in Places, m \in Nat : NewRow(k, p, m)
           /\ \A u \in uploads, k \in Kinds :
                  UploadEnd(u, k) \/ (k = "doc" /\ UploadSpoilt(u))
                      => \E p \in Places, m \in Nat : NewRow(k, p, m)
           /\ \A f \in Ids, p \in Places :
                  CopyRow(f, p) => \E m \in Nat : NewRow(kind[f], p, m)
<1> USE FileTreeAssumption
<1>1. ASSUME List PROVE NewRow("folder", None, Seed)
  <2>1. Taken(None, None) = {}
    BY <1>1 DEF List, Taken, Live
  <2> QED BY <1>1, <2>1 DEF List, NewRow, Kinds, Places
<1>2. ASSUME NEW k \in Kinds, NEW n \in Names, NEW p \in Places, Create(k, p, n)
      PROVE  NewRow(k, p, n)
  BY <1>2 DEF Create, NewRow
<1>3. ASSUME NEW k \in Kinds, NEW n \in Names, Arrive(k, n)
      PROVE  \E p \in Places, m \in Nat : NewRow(k, p, m)
  <2>1. Folders \cup {None} \subseteq Places
    BY RowsAreIds DEF TreeInv, Folders, Live, Places
  <2>2. PICK p \in Folders \cup {None} : Inserted(k, p, FreeName(n, p, None))
    BY <1>3 DEF Arrive
  <2>3. FreeName(n, p, None) \in Nat /\ FreeName(n, p, None) \notin Taken(p, None)
    BY FreeNameIsFree DEF TreeInv
  <2>4. /\ content \subseteq content' /\ hollow \subseteq hollow' /\ strays' = strays
        /\ last + 1 \in content' \cup hollow'
    BY <1>3 DEF Arrive
  <2>5. NewRow(k, p, FreeName(n, p, None))
    BY <2>1, <2>2, <2>3, <2>4 DEF NewRow
  <2> QED BY <2>1, <2>3, <2>5
<1>4. ASSUME NEW u \in uploads, NEW k \in Kinds, UploadEnd(u, k) \/ (k = "doc" /\ UploadSpoilt(u))
      PROVE  \E p \in Places, m \in Nat : NewRow(k, p, m)
  <2>1. u.parent \in Places /\ u.name \in Nat
    BY DEF TreeInv, TypeOK, Upload
  <2>2. UploadRow(u, k) /\ k # "folder"
    BY <1>4 DEF UploadEnd, UploadSpoilt
  <2>3. PICK m \in Nat : Inserted(k, u.parent, m)
    BY <2>1, <2>2, UploadNameType DEF UploadRow, TreeInv
  <2>4. /\ content \subseteq content' /\ hollow \subseteq hollow'
        /\ last + 1 \in content' \cup hollow'
    BY <1>4 DEF UploadEnd, UploadSpoilt
  <2>5. NewRow(k, u.parent, m)
    BY <2>1, <2>2, <2>3, <2>4 DEF NewRow, UploadRow
  <2> QED BY <2>1, <2>5
<1>5. ASSUME NEW f \in Ids, NEW p \in Places, CopyRow(f, p)
      PROVE  \E m \in Nat : NewRow(kind[f], p, m)
  <2>1. f \in Live /\ p \in Folders \cup {None}
    BY <1>5 DEF CopyRow, CopyPlaced
  <2>2. f \in rows /\ kind[f] \in Kinds /\ name[f] \in Nat
    BY <2>1 DEF Live, TreeInv, TypeOK
  <2>3. /\ FreeName(name[f], p, None) \in Nat
        /\ FreeName(name[f], p, None) \notin Taken(p, None)
    BY <2>2, FreeNameIsFree DEF TreeInv
  <2>4. /\ Inserted(kind[f], p, FreeName(name[f], p, None)) /\ strays' = strays
        /\ content \subseteq content' /\ hollow \subseteq hollow'
        /\ kind[f] = "folder" \/ last + 1 \in content' \cup hollow'
    BY <1>5 DEF CopyRow
  <2>5. NewRow(kind[f], p, FreeName(name[f], p, None))
    BY <2>1, <2>2, <2>3, <2>4 DEF NewRow
  <2> QED BY <2>3, <2>5
<1> QED BY <1>1, <1>2, <1>3, <1>4, <1>5

\* While a copy goes on nothing else happens, and it goes from live rows to the
\* folders it has made.
LEMMA CopyStep == TypeOK /\ CopyPlaced /\ [Next]_vars => CopyPlaced'
<1> SUFFICES ASSUME TypeOK, CopyPlaced, [Next]_vars PROVE CopyPlaced'
  OBVIOUS
<1>1. CASE UNCHANGED vars
  BY <1>1 DEF vars, CopyPlaced, Live, Folders
<1>2. CASE copy = None /\ copy' = copy
  BY <1>2 DEF CopyPlaced
<1>3. ASSUME NEW f \in Ids, NEW p \in Places, Copy(f, p) PROVE CopyPlaced'
  <2>1. copy'.todo = {<<f, p>>} /\ f \in Live /\ p \in Folders \cup {None}
        /\ UNCHANGED <<rows, kind, trash>>
    BY <1>3 DEF Copy
  <2> QED BY <2>1 DEF CopyPlaced, Live, Folders
<1>4. ASSUME NEW f \in Ids, NEW p \in Places, CopyRow(f, p) PROVE CopyPlaced'
  <2> DEFINE children == {i \in rows' : trash'[i] = None /\ parent'[i] = f}
             more == IF kind[f] = "folder" THEN children \X {last + 1} ELSE {}
  <2>1. copy \in Copying /\ copy.todo \subseteq Live \X (Folders \cup {None})
        /\ kind[f] \in Kinds /\ name[f] \in Nat
    BY <1>4 DEF CopyRow, CopyPlaced, TypeOK
  <2>2. copy' = [copy EXCEPT !.todo = (@ \ {<<f, p>>}) \cup more, !.made = @ + 1]
        /\ Inserted(kind[f], p, FreeName(name[f], p, None))
    BY <1>4 DEF CopyRow
  <2>3. /\ rows' = rows \cup {last + 1}
        /\ \A i \in rows : kind'[i] = kind[i] /\ trash'[i] = trash[i]
        /\ kind'[last + 1] = kind[f] /\ trash'[last + 1] = None
    BY <2>1, <2>2, InsertType, FreeNameIsFree
  <2>4. Live \subseteq Live' /\ Folders \subseteq Folders'
    BY <2>3 DEF Live, Folders
  <2>5. more \subseteq Live' \X (Folders' \cup {None})
    BY <2>3 DEF Live, Folders
  <2> HIDE DEF more
  <2>6. copy'.todo = (copy.todo \ {<<f, p>>}) \cup more
    BY <2>1, <2>2 DEF Copying
  <2> QED BY <2>1, <2>4, <2>5, <2>6 DEF CopyPlaced
<1>5. CASE CopyDone \/ CopyCut
  BY <1>5 DEF CopyDone, CopyCut, CopyPlaced
<1>6. \/ UNCHANGED vars
      \/ copy = None /\ copy' = copy
      \/ \E f \in Ids, p \in Places : Copy(f, p) \/ CopyRow(f, p)
      \/ CopyDone \/ CopyCut
  BY DEF Idle, Next, List, CreateFirst, Create, Arrive, ArriveUndone, UploadStart, UploadEnd,
         UploadSpoilt, UploadRow, UploadFails, Move, Rename, Trash, Restore, Purge, EmptyTrash,
         Erase
<1> QED BY <1>1, <1>2, <1>3, <1>4, <1>5, <1>6

LEMMA TreeInit == Init => TreeInv /\ CopyPlaced
<1> SUFFICES ASSUME Init PROVE TreeInv /\ CopyPlaced
  OBVIOUS
<1>1. rows = {} /\ strays = {} /\ copy = None
  BY DEF Init
<1>2. Rooted /\ Reachable /\ ContentKept /\ Grouped /\ StraysAreFiles /\ NamesInGroup /\ CopyPlaced
  BY <1>1 DEF Rooted, Reachable, ContentKept, Grouped, StraysAreFiles, NamesInGroup, CopyPlaced,
              Live
<1> QED BY <1>2, InitType DEF TreeInv

LEMMA TreeStep == TreeInv /\ CopyPlaced /\ [Next]_vars => (TreeInv /\ CopyPlaced)'
<1> SUFFICES ASSUME TreeInv, CopyPlaced, [Next]_vars PROVE (TreeInv /\ CopyPlaced)'
  OBVIOUS
<1> DEFINE Kept == Rooted' /\ Reachable' /\ ContentKept' /\ Grouped' /\ StraysAreFiles' /\ NamesInGroup'
<1>1. ASSUME NEW k, NEW p, NEW n, NewRow(k, p, n) PROVE Kept
  BY <1>1, NewRowKeeps
<1>2. ASSUME NEW k \in Kinds, NEW n \in Names, CreateFirst(k, n) PROVE Kept
  BY <1>2, CreateFirstKeeps
<1>3. ASSUME NEW f \in Ids, NEW p \in Places, Move(f, p) PROVE Kept
  BY <1>3, MoveKeeps
<1>4. ASSUME NEW f \in Ids, NEW n \in Names, Rename(f, n) PROVE Kept
  BY <1>4, RenameKeeps
<1>5. ASSUME NEW f \in Ids, Trash(f) PROVE Kept
  BY <1>5, TrashKeeps
<1>6. ASSUME NEW f \in Ids, NEW p \in Places, Restore(f, p) PROVE Kept
  BY <1>6, RestoreKeeps
<1>7. ASSUME NEW r \in Ids, Purge(r) PROVE Kept
  <2>1. CASE Blocked(r, {})
    <3>1. Erase({}, {r}) /\ r \in Roots /\ Rows({}) = {}
      BY <1>7, <2>1 DEF Purge, Rows
    <3> QED BY <3>1, EraseKeeps
  <2>2. CASE ~Blocked(r, {})
    <3>1. Erase({r}, {}) /\ r \in Roots /\ Rows({r}) = Group(r)
      BY <1>7, <2>2 DEF Purge, Rows
    <3>2. \A i \in rows \ Rows({r}) : parent[i] \notin Rows({r})
      BY <2>2, <3>1 DEF Blocked
    <3> QED BY <3>1, <3>2, EraseKeeps
  <2> QED BY <2>1, <2>2
<1>8. ASSUME NEW M \in SUBSET Roots, EmptyTrash(M) PROVE Kept
  <2>1. PICK S \in SUBSET M : /\ \A r \in S : ~Blocked(r, Rows(S))
                              /\ (S = M /\ Erase(S, {})) \/ \E r \in M \ S : Erase(S, {r})
    BY <1>8 DEF EmptyTrash
  <2>2. \A i \in rows \ Rows(S) : parent[i] \notin Rows(S)
    BY <2>1 DEF Blocked, Rows
  <2>3. CASE S = M /\ Erase(S, {})
    BY <2>2, <2>3, EraseKeeps
  <2>4. ASSUME NEW r \in M \ S, Erase(S, {r}) PROVE Kept
    <3>1. S \in SUBSET Roots /\ {r} \in SUBSET Roots /\ S \cap {r} = {}
      OBVIOUS
    <3> QED BY <2>2, <2>4, <3>1, EraseKeeps
  <2> HIDE DEF Kept
  <2> QED BY <2>1, <2>3, <2>4
<1>9. ASSUME UNCHANGED <<rows, kind, parent, name, trash, content, strays, hollow>> PROVE Kept
  BY <1>9, SameRowsKeep
<1>10. ASSUME UNCHANGED vars PROVE Kept
  BY <1>9, <1>10 DEF vars
<1>11. ASSUME NEW f \in Ids, NEW p \in Places, Copy(f, p) PROVE Kept
  BY <1>9, <1>11 DEF Copy
<1>12. ASSUME CopyDone \/ CopyCut PROVE Kept
  BY <1>9, <1>12 DEF CopyDone, CopyCut
<1>13. ASSUME NEW p \in Places, NEW n \in Names, UploadStart(p, n) PROVE Kept
  BY <1>9, <1>13 DEF UploadStart
<1>14. ASSUME NEW u \in uploads, UploadFails(u) PROVE Kept
  BY <1>9, <1>14 DEF UploadFails
<1> HIDE DEF Kept
<1>15. ASSUME NEW f \in Ids, NEW p \in Places, CopyRow(f, p) PROVE Kept
  BY <1>1, <1>15, NewRows
<1>16. ASSUME List PROVE Kept
  BY <1>1, <1>16, NewRows
<1>17. ASSUME NEW k \in Kinds, NEW n \in Names, NEW p \in Places, Create(k, p, n) PROVE Kept
  BY <1>1, <1>17, NewRows
<1>18. ASSUME NEW k \in Kinds, NEW n \in Names, Arrive(k, n) PROVE Kept
  BY <1>1, <1>18, NewRows
<1>19. ASSUME NEW u \in uploads, NEW k \in Kinds, UploadEnd(u, k) PROVE Kept
  BY <1>1, <1>19, NewRows
<1>20. ASSUME NEW u \in uploads, UploadSpoilt(u) PROVE Kept
  <2>1. "doc" \in Kinds
    BY DEF Kinds
  <2> QED BY <1>1, <1>20, <2>1, NewRows
<1>21. ASSUME ArriveUndone PROVE Kept
  BY <1>9, <1>21 DEF ArriveUndone
<1>22. Kept
  BY <1>1, <1>2, <1>3, <1>4, <1>5, <1>6, <1>7, <1>8, <1>10, <1>11, <1>12, <1>13, <1>14,
     <1>15, <1>16, <1>17, <1>18, <1>19, <1>20, <1>21 DEF Next
<1> QED BY <1>22, TypeStep, CopyStep DEF TreeInv, Kept

LEMMA TreeHolds == Spec => [](TreeInv /\ CopyPlaced)
  BY TreeInit, TreeStep, PTL DEF Spec

\* The walks up and down the tree (depthOf, collectSubtree) come to an end, for
\* no folder lies in itself, however deep the tree and whatever is moved,
\* copied, trashed, brought back and purged.
THEOREM TreeIsRooted == Spec => []Rooted
<1>1. TreeInv => Rooted
  BY DEF TreeInv
<1> QED BY <1>1, TreeHolds, PTL

\* Every row that is not in the trash hangs from a live folder or the top,
\* unless an upload put it in a folder that was trashed under it.
THEOREM AllIsReachable == Spec => []Reachable
<1>1. TreeInv => Reachable
  BY DEF TreeInv
<1> QED BY <1>1, TreeHolds, PTL

\* What is listed or in the trash has its content (files.ts, ydoc.ts), but for
\* purges that were refused, copies of uploaded files, and documents whose first
\* writing or copying failed.
THEOREM ContentStays == Spec => []ContentKept
<1>1. TreeInv => ContentKept
  BY DEF TreeInv
<1> QED BY <1>1, TreeHolds, PTL

\* Two files of a folder share a name only by way of an upload, or at the top
\* with the name of the first folder.
THEOREM NamesStayApart == Spec => []NamesApart
<1>1. TreeInv => NamesApart
  BY DEF TreeInv, NamesInGroup, NamesApart, Live
<1> QED BY <1>1, TreeHolds, PTL

-----------------------------------------------------------------------------
(* A copy.                                                                 *)

\* Q is what was asked for, from row r down, and D of it what has been made: a
\* part of the tree from r down.  What is next lies below what has been made, once
\* each, and goes outside of Q, so that no row of a copy is ever copied itself.
CopyOf(Q, D, r) ==
    /\ Q \in SUBSET rows /\ D \in SUBSET Q /\ r \in Q
    /\ Cardinality(Q) = copy.size /\ Cardinality(D) = copy.made
    /\ parent[r] \notin Q
    /\ \A k \in Live : parent[k] \in Q => k \in Q
    /\ \A d \in D : d = r \/ parent[d] \in D
    /\ \A x \in Ids, y \in Places :
           <<x, y>> \in copy.todo => x \in Q /\ x \notin D /\ y \notin Q
                                     /\ (x = r \/ parent[x] \in D)
    /\ \A x \in Ids, y, z \in Places :
           <<x, y>> \in copy.todo /\ <<x, z>> \in copy.todo => y = z

CopyCounted ==
    copy # None /\ ~copy.inside =>
        \E Q, D \in SUBSET rows, r \in rows : CopyOf(Q, D, r)

LEMMA CopyBegins ==
    ASSUME TypeOK, Rooted, NEW f \in Ids, NEW p \in Places, Copy(f, p)
    PROVE  CopyCounted'
<1> SUFFICES ASSUME ~copy'.inside
             PROVE  \E Q, D \in SUBSET rows', r \in rows' : CopyOf(Q, D, r)'
  BY DEF CopyCounted
<1>1. /\ f \in Live /\ UNCHANGED <<rows, parent, trash>>
      /\ copy'.todo = {<<f, p>>} /\ copy'.made = 0 /\ copy'.size = Cardinality(Below(f))
      /\ p \notin Below(f)
  BY DEF Copy
<1>2. PICK Q \in SUBSET rows : Q = Below(f)
  BY DEF Below
<1>3. /\ f \in Q /\ Q \subseteq Live
      /\ \A k \in Live : parent[k] \in Q => k \in Q
      /\ \A k \in Q : k # f => parent[k] \in Q
  BY <1>1, <1>2, BelowIsClosed
<1>4. PICK i \in Q : parent[i] \notin Q
  BY <1>2, <1>3 DEF Rooted
<1>5. parent[f] \notin Q
  BY <1>3, <1>4
<1>6. Live' = Live /\ Cardinality({}) = 0
  BY <1>1, FS_EmptySet DEF Live
<1>7. \A x, y : <<x, y>> \in copy'.todo => x = f /\ y = p
  BY <1>1
<1>8. Cardinality(Q) = copy'.size /\ p \notin Q
  BY <1>1, <1>2
<1>9. CopyOf(Q, {}, f)'
  BY <1>1, <1>3, <1>5, <1>6, <1>7, <1>8 DEF CopyOf
<1> QED BY <1>1, <1>3, <1>9

LEMMA CopyGoesOn ==
    ASSUME TypeOK, CopyPlaced, CopyCounted, NEW f \in Ids, NEW p \in Places, CopyRow(f, p)
    PROVE  CopyCounted'
<1> DEFINE n == last + 1
           children == {i \in rows' : trash'[i] = None /\ parent'[i] = f}
           more == IF kind[f] = "folder" THEN children \X {n} ELSE {}
<1>1. /\ copy \in Copying /\ <<f, p>> \in copy.todo /\ f \in Live
      /\ kind[f] \in Kinds /\ name[f] \in Nat
  BY DEF CopyRow, CopyPlaced, TypeOK
<1>2. /\ copy' = [copy EXCEPT !.todo = (@ \ {<<f, p>>}) \cup more, !.made = @ + 1]
      /\ Inserted(kind[f], p, FreeName(name[f], p, None))
  BY DEF CopyRow
<1>3. /\ rows' = rows \cup {n} /\ n \notin rows /\ n \in Ids
      /\ \A i \in rows : parent'[i] = parent[i] /\ trash'[i] = trash[i]
      /\ parent'[n] = p
  BY <1>1, <1>2, InsertType, FreeNameIsFree
<1> SUFFICES ASSUME ~copy'.inside
             PROVE  \E Q, D \in SUBSET rows', r \in rows' : CopyOf(Q, D, r)'
  BY DEF CopyCounted
<1>4. more \subseteq children \X {n}
  OBVIOUS
<1> HIDE DEF more
<1>5. /\ copy'.todo = (copy.todo \ {<<f, p>>}) \cup more /\ copy'.made = copy.made + 1
      /\ copy'.size = copy.size /\ copy'.inside = copy.inside
  BY <1>1, <1>2 DEF Copying
<1>6. PICK Q \in SUBSET rows, D \in SUBSET rows, r \in rows : CopyOf(Q, D, r)
  BY <1>1, <1>5 DEF CopyCounted, CopyRow
<1> DEFINE E == D \cup {f}
<1>7. D \subseteq Q /\ r \in Q
      /\ f \in Q /\ f \notin D /\ p \notin Q /\ (f = r \/ parent[f] \in D) /\ parent[r] \notin Q
  BY <1>1, <1>6 DEF CopyOf
<1>8. \A c \in children : c \in Live /\ parent[c] = f
  BY <1>3, <1>7 DEF Live
\* What lies in f is asked for, neither made nor about to be made, and not f.
<1>9. \A c \in children : c \in Q /\ c # r /\ c \notin D /\ c # f /\ c \in Ids
                          /\ \A y \in Places : <<c, y>> \notin copy.todo
  <2> SUFFICES ASSUME NEW c \in children
               PROVE  c \in Q /\ c # r /\ c \notin D /\ c # f /\ c \in Ids
                      /\ \A y \in Places : <<c, y>> \notin copy.todo
    OBVIOUS
  <2>1. c \in Live /\ parent[c] = f
    BY <1>8
  <2>2. c \in Q /\ c # r
    BY <1>6, <1>7, <2>1 DEF CopyOf
  <2>3. c \in Ids
    BY <2>1, RowsAreIds DEF Live
  <2> HIDE DEF children
  <2>4. c \notin D /\ c # f /\ \A y \in Places : <<c, y>> \notin copy.todo
    BY <1>6, <1>7, <2>1, <2>2, <2>3 DEF CopyOf
  <2> QED BY <2>2, <2>3, <2>4
<1> HIDE DEF children
<1>10. \A x, y : <<x, y>> \in copy'.todo =>
           \/ <<x, y>> \in copy.todo /\ <<x, y>> # <<f, p>>
           \/ x \in children /\ y = n
  BY <1>4, <1>5
<1>11. \A x \in Ids, y \in Places : <<x, y>> \in copy.todo /\ <<x, y>> # <<f, p>> => x # f
  BY <1>1, <1>6 DEF CopyOf
<1>12. n \notin Q /\ E \in SUBSET Q /\ Q \in SUBSET rows' /\ parent'[r] = parent[r]
       /\ \A x \in Q : parent'[x] = parent[x]
  BY <1>3, <1>6, <1>7
<1>13. Cardinality(E) = copy'.made /\ Cardinality(Q) = copy'.size
  <2>1. IsFiniteSet(D)
    BY <1>6, RowsAreFinite
  <2>2. Cardinality(E) = Cardinality(D) + 1
    BY <1>7, <2>1, FS_AddElement
  <2> QED BY <1>5, <1>6, <2>2 DEF CopyOf
<1>14. \A k \in Live' : parent'[k] \in Q => k \in Q
  BY <1>3, <1>6, <1>7 DEF Live, CopyOf
<1>15. \A d \in E : d = r \/ parent'[d] \in E
  BY <1>6, <1>7, <1>12 DEF CopyOf
<1>16. ASSUME NEW x \in Ids, NEW y \in Places, <<x, y>> \in copy'.todo
       PROVE  x \in Q /\ x \notin E /\ y \notin Q /\ (x = r \/ parent'[x] \in E)
  <2>1. CASE <<x, y>> \in copy.todo /\ <<x, y>> # <<f, p>>
    BY <1>6, <1>11, <1>12, <2>1 DEF CopyOf
  <2>2. CASE x \in children /\ y = n
    BY <1>8, <1>9, <1>12, <2>2
  <2> QED BY <1>10, <1>16, <2>1, <2>2
<1>17. ASSUME NEW x \in Ids, NEW y \in Places, NEW z \in Places,
              <<x, y>> \in copy'.todo, <<x, z>> \in copy'.todo
       PROVE  y = z
  BY <1>6, <1>9, <1>10, <1>17 DEF CopyOf
<1> HIDE DEF E
<1>18. CopyOf(Q, E, r)'
  BY <1>7, <1>12, <1>13, <1>14, <1>15, <1>16, <1>17 DEF CopyOf
<1>19. E \in SUBSET rows' /\ r \in rows'
  BY <1>3, <1>7, <1>12
<1> QED BY <1>12, <1>18, <1>19

LEMMA CountStep == TypeOK /\ Rooted /\ CopyPlaced /\ CopyCounted /\ [Next]_vars => CopyCounted'
<1> SUFFICES ASSUME TypeOK, Rooted, CopyPlaced, CopyCounted, [Next]_vars PROVE CopyCounted'
  OBVIOUS
<1>1. CASE UNCHANGED vars
  BY <1>1 DEF vars, CopyCounted, CopyOf, Live
<1>2. CASE copy = None /\ copy' = copy
  BY <1>2 DEF CopyCounted
<1>3. CASE \E f \in Ids, p \in Places : Copy(f, p)
  BY <1>3, CopyBegins
<1>4. CASE \E f \in Ids, p \in Places : CopyRow(f, p)
  BY <1>4, CopyGoesOn
<1>5. CASE CopyDone \/ CopyCut
  BY <1>5 DEF CopyDone, CopyCut, CopyCounted
<1>6. \/ UNCHANGED vars
      \/ copy = None /\ copy' = copy
      \/ \E f \in Ids, p \in Places : Copy(f, p) \/ CopyRow(f, p)
      \/ CopyDone \/ CopyCut
  BY DEF Idle, Next, List, CreateFirst, Create, Arrive, ArriveUndone, UploadStart, UploadEnd,
         UploadSpoilt, UploadRow, UploadFails, Move, Rename, Trash, Restore, Purge, EmptyTrash,
         Erase
<1> QED BY <1>1, <1>2, <1>3, <1>4, <1>5, <1>6

\* As long as there is something to do, fewer rows have been made than were asked for.
LEMMA CopyHasRoom ==
    ASSUME TypeOK, CopyPlaced, CopyCounted, CopyCut
    PROVE  copy.count + copy.size > MaxFiles \/ copy.inside
<1> SUFFICES ASSUME ~copy.inside PROVE copy.count + copy.size > MaxFiles
  OBVIOUS
<1>1. /\ copy \in Copying /\ copy # None /\ copy.todo # {}
      /\ copy.count + copy.made >= MaxFiles
  BY DEF CopyCut, Full, TypeOK
<1>2. copy.count \in Nat /\ copy.made \in Nat /\ copy.size \in Nat /\ MaxFiles \in Nat
  BY <1>1, FileTreeAssumption DEF Copying
<1>3. PICK Q \in SUBSET rows, D \in SUBSET rows, r \in rows : CopyOf(Q, D, r)
  BY <1>1 DEF CopyCounted
<1>4. PICK x \in Ids, y \in Places : <<x, y>> \in copy.todo
  <2>1. PICK t \in copy.todo : TRUE
    BY <1>1
  <2>2. t \in Ids \X Places
    BY <1>1 DEF Copying
  <2> QED BY <2>1, <2>2
<1>5. D \in SUBSET Q /\ x \in Q /\ x \notin D
  BY <1>3, <1>4 DEF CopyOf
<1>6. IsFiniteSet(Q)
  BY <1>3, RowsAreFinite
<1>7. Cardinality(D) <= Cardinality(Q) /\ (Cardinality(Q) = Cardinality(D) => Q = D)
  BY <1>5, <1>6, FS_Subset
<1>8. copy.made < copy.size
  BY <1>2, <1>3, <1>5, <1>7 DEF CopyOf
<1> QED BY <1>1, <1>2, <1>8

\* A copy is cut only when the group had no room for all that was asked for, whatever
\* the shape of the tree and the order it is walked in, or when a folder was copied
\* into itself (files.ts, copyRec).
THEOREM CopiesEnd == Spec => CutForAReason
<1>1. Init => CopyCounted
  BY DEF Init, CopyCounted
<1>2. TreeInv => TypeOK /\ Rooted
  BY DEF TreeInv
<1>3. Spec => []CopyCounted
  BY <1>1, <1>2, CountStep, TreeHolds, PTL DEF Spec
<1> DEFINE Reason == CopyCut => copy.count + copy.size > MaxFiles \/ copy.inside
<1>4. TreeInv /\ CopyPlaced /\ CopyCounted => Reason
  BY <1>2, CopyHasRoom
<1> HIDE DEF Reason
<1>5. Spec => [][Reason]_vars
  BY <1>3, <1>4, TreeHolds, PTL
<1> QED BY <1>5 DEF CutForAReason, Reason
=============================================================================

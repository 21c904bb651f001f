------------------------------ MODULE FileTree ------------------------------
(***************************************************************************)
(* The files of one group (server/src/files.ts): a tree of folders and     *)
(* documents kept as rows of collab_files, its trash, and the content of   *)
(* the documents on the disk.  A request runs to its end before the next,  *)
(* except an upload, whose body arrives after it has been admitted.        *)
(***************************************************************************)
EXTENDS Integers, FiniteSets

CONSTANTS
    Names,          \* names people type; "x (2)", "x (3)" are the next numbers
    Seed,           \* name of the folder a new group starts with, and of the
                    \* one where documents from other groups arrive
    MaxFiles,       \* MAX_FILES
    MaxDepth,       \* MAX_DEPTH
    MaxNames,       \* names an upload tries before it takes the last one (20)
    None,           \* no folder: the top; not in the trash; no copy
    MaxId,          \* bound: rows ever inserted
    MaxUploads      \* bound: uploads under way at a time

ASSUME FileTreeAssumption ==
    /\ Names \subseteq Nat /\ Seed \in Nat
    /\ {MaxFiles, MaxId, MaxUploads} \subseteq Nat /\ {MaxDepth, MaxNames} \subseteq Nat \ {0}
    /\ None \notin Nat

VARIABLES
    rows,       \* the ids in collab_files, given in turn (AUTOINCREMENT)
    last,       \* the last one given
    kind,       \* "folder", "doc" (kept in a room), "file" (uploaded, a blob)
    parent,     \* parent_id
    name,
    trash,      \* deleted_root: the row whose deletion took this one along
    content,    \* rows whose content is on the disk
    uploads,    \* uploads whose body has not arrived
    copy,       \* the copy request under way, or None
    strays,     \* history: rows an upload inserted
    hollow      \* history: rows the code itself has left without content

vars == <<rows, last, kind, parent, name, trash, content, uploads, copy, strays, hollow>>

Ids == 1 .. MaxId
Places == Ids \cup {None}
Kinds == {"folder", "doc", "file"}

\* spoilt: its document could not be written, what it brought is still to be kept.
Upload == [parent : Places, name : Nat, spoilt : BOOLEAN]

\* todo: what is still to be copied, and where to; count: the live rows when it
\* began; size: how many rows were asked for; inside: into itself.
Copying == [todo : SUBSET (Ids \X Places), count : Nat, made : Nat,
            size : Nat, inside : BOOLEAN]

TypeOK ==
    /\ last \in 0 .. MaxId
    /\ rows \subseteq 1 .. last
    /\ kind \in [Ids -> Kinds]
    /\ parent \in [Ids -> Places]
    /\ name \in [Ids -> Nat]
    /\ trash \in [Ids -> Places]
    /\ content \subseteq rows
    /\ uploads \subseteq Upload
    /\ copy = None \/ copy \in Copying
    /\ strays \subseteq rows
    /\ hollow \subseteq rows

Live == {i \in rows : trash[i] = None}
Folders == {i \in Live : kind[i] = "folder"}
Roots == {i \in rows : trash[i] = i}
Group(r) == {i \in rows : trash[i] = r}
\* No request is half way.
Idle == copy = None /\ \A u \in uploads : ~u.spoilt

\* A row and the folders above it, trashed ones too.
Above(i) == {j \in rows :
                \A S \in SUBSET rows :
                    /\ i \in S
                    /\ \A k \in S : parent[k] # None => parent[k] \in S
                    => j \in S}

\* collectSubtree: a row and the live rows below it.
Below(i) == {j \in rows :
                \A S \in SUBSET rows :
                    /\ i \in S
                    /\ \A k \in Live : parent[k] \in S => k \in S
                    => j \in S}

\* depthOf: folders from the top to p.
DepthOf(p) == IF p = None THEN 0 ELSE Cardinality(Above(p))

\* The names in use in a folder, by others than row i.
Taken(p, i) == {name[j] : j \in {k \in Live \ {i} : parent[k] = p}}

\* The first of n, "n (2)", "n (3)" ... that is not in use.
FreeName(n, p, i) ==
    CHOOSE m \in n .. n + Cardinality(rows) :
        m \notin Taken(p, i) /\ \A k \in n .. m - 1 : k \in Taken(p, i)

\* No upload is half way, but for u.
Turn(u) == \A v \in uploads : v.spoilt => v = u

\* The loops of an upload give up: its last name is taken as it is.
UploadName(n, p) ==
    IF \A m \in n .. n + MaxNames - 1 : m \in Taken(p, None) THEN n + MaxNames - 1
    ELSE FreeName(n, p, None)

Init ==
    /\ rows = {} /\ last = 0
    /\ kind = [i \in Ids |-> "doc"]
    /\ parent = [i \in Ids |-> None]
    /\ name = [i \in Ids |-> Seed]
    /\ trash = [i \in Ids |-> None]
    /\ content = {} /\ uploads = {} /\ copy = None
    /\ strays = {} /\ hollow = {}

-----------------------------------------------------------------------------
(* Rows appear.                                                            *)

\* The rows with a new one, of kind k, in p, named n.
Inserted(k, p, n) ==
    /\ last < MaxId
    /\ last' = last + 1
    /\ rows' = rows \cup {last + 1}
    /\ kind' = [kind EXCEPT ![last + 1] = k]
    /\ parent' = [parent EXCEPT ![last + 1] = p]
    /\ name' = [name EXCEPT ![last + 1] = n]
    /\ trash' = [trash EXCEPT ![last + 1] = None]

\* ensureLegacyFiles: whoever opens the files of a group that has none; of the
\* seven folders, one.
List ==
    /\ Idle /\ rows = {}
    /\ Inserted("folder", None, Seed)
    /\ UNCHANGED <<content, uploads, copy, strays, hollow>>

\* POST / to a group that has no files: its name is compared, to nothing, before
\* the first folder is made.  (Other requests look after they have made it: List
\* comes before them.)
CreateFirst(k, n) ==
    /\ Idle /\ k \in {"folder", "doc"}
    /\ rows = {} /\ last + 2 <= MaxId
    /\ last' = last + 2
    /\ rows' = {last + 1, last + 2}
    /\ kind' = [kind EXCEPT ![last + 1] = "folder", ![last + 2] = k]
    /\ parent' = [parent EXCEPT ![last + 1] = None, ![last + 2] = None]
    /\ name' = [name EXCEPT ![last + 1] = Seed, ![last + 2] = n]
    /\ trash' = [trash EXCEPT ![last + 1] = None, ![last + 2] = None]
    /\ content' = IF k = "doc" THEN {last + 2} ELSE {}
    /\ UNCHANGED <<uploads, copy, strays, hollow>>

\* POST /
Create(k, p, n) ==
    /\ Idle /\ k \in {"folder", "doc"}
    /\ rows # {}
    /\ p \in Folders \cup {None}
    /\ DepthOf(p) < MaxDepth
    /\ Cardinality(Live) < MaxFiles
    /\ n \notin Taken(p, None)
    /\ Inserted(k, p, n)
    /\ content' = IF k = "doc" THEN content \cup {last + 1} ELSE content
    /\ UNCHANGED <<uploads, copy, strays, hollow>>

\* /distribute in another group: the copy arrives in the folder for it, if there is
\* one.  It comes without content when the blob of the original has not been kept, or
\* when the document could not be copied (copyYdoc swallows it).
Arrive(k, n) ==
    /\ Idle /\ k \in {"doc", "file"}
    /\ rows # {}
    /\ Cardinality(Live) < MaxFiles
    /\ LET inboxes == {i \in Folders : parent[i] = None /\ name[i] = Seed}
       IN  \E p \in IF inboxes = {} THEN {None} ELSE inboxes :
               Inserted(k, p, FreeName(n, p, None))
    /\ \/ content' = content \cup {last + 1} /\ hollow' = hollow
       \/ content' = content /\ hollow' = hollow \cup {last + 1}
    /\ UNCHANGED <<uploads, copy, strays>>

\* The blob cannot be copied: the row is deleted again.
ArriveUndone ==
    /\ Idle /\ rows # {}
    /\ Cardinality(Live) < MaxFiles
    /\ last < MaxId
    /\ last' = last + 1
    /\ UNCHANGED <<rows, kind, parent, name, trash, content, uploads, copy, strays, hollow>>

\* POST /upload: the place, the limit and the name are settled ...
UploadStart(p, n) ==
    /\ Idle /\ Cardinality(uploads) < MaxUploads
    /\ p \in Folders \cup {None}
    /\ Cardinality(Live) < MaxFiles
    /\ uploads' = uploads \cup
           {[parent |-> p, name |-> UploadName(n, p), spoilt |-> FALSE]}
    /\ UNCHANGED <<rows, last, kind, parent, name, trash, content, copy, strays, hollow>>

\* The row of an upload, wherever its folder is by now.
UploadRow(u, k) ==
    /\ rows # {}
    /\ u.parent \in rows \cup {None}
    /\ Inserted(k, u.parent, IF k = "doc" THEN UploadName(u.name, u.parent) ELSE u.name)
    /\ strays' = strays \cup {last + 1}
    /\ UNCHANGED copy

\* ... before the body arrives.  finishUpload makes a document of what it can
\* read, under another name if its own is taken by then, and keeps the rest as it is.
UploadEnd(u, k) ==
    /\ k \in {"doc", "file"}
    /\ u \in uploads /\ copy = None /\ (u.spoilt => k = "file") /\ Turn(u)
    /\ UploadRow(u, k)
    /\ content' = content \cup {last + 1}
    /\ uploads' = uploads \ {u}
    /\ UNCHANGED hollow

\* writeYdoc fails once the row of the document is there: the row stays, and what was
\* uploaded is kept beside it, before any other request.
UploadSpoilt(u) ==
    /\ Idle /\ u \in uploads
    /\ UploadRow(u, "doc")
    /\ content' = content
    /\ hollow' = hollow \cup {last + 1}
    /\ uploads' = (uploads \ {u}) \cup {[u EXCEPT !.spoilt = TRUE]}

\* The connection breaks, the body is too large, the folder's row is gone (the
\* foreign key refuses the row), or the blob cannot be written either.
UploadFails(u) ==
    /\ u \in uploads /\ copy = None /\ Turn(u)
    /\ uploads' = uploads \ {u}
    /\ UNCHANGED <<rows, last, kind, parent, name, trash, content, copy, strays, hollow>>

-----------------------------------------------------------------------------
(* Rows move.                                                              *)

\* Mutant: a folder may be moved into one below it.
Anywhere(f, p) == TRUE

\* The loop up from the target meets the row that moves.
NotInside(f, p) == p # None => f \notin Above(p)

\* PATCH with parent_id; the depth is that of the target, however deep what
\* moves is.
Move(f, p) ==
    /\ Idle /\ f \in Live
    /\ p \in Folders \cup {None}
    /\ NotInside(f, p)
    /\ DepthOf(p) < MaxDepth
    /\ name[f] \notin Taken(p, f)
    /\ parent' = [parent EXCEPT ![f] = p]
    /\ UNCHANGED <<rows, last, kind, name, trash, content, uploads, copy, strays, hollow>>

\* PATCH with name.
Rename(f, n) ==
    /\ Idle /\ f \in Live
    /\ n \notin Taken(parent[f], f)
    /\ name' = [name EXCEPT ![f] = n]
    /\ UNCHANGED <<rows, last, kind, parent, trash, content, uploads, copy, strays, hollow>>

-----------------------------------------------------------------------------
(* A copy: copyRec, one row a step.  Nothing else runs until it is over.   *)

Copy(f, p) ==
    /\ Idle /\ f \in Live
    /\ p \in Folders \cup {None}
    /\ copy' = [todo |-> {<<f, p>>}, count |-> Cardinality(Live), made |-> 0,
                size |-> Cardinality(Below(f)), inside |-> p \in Below(f)]
    /\ UNCHANGED <<rows, last, kind, parent, name, trash, content, uploads, strays, hollow>>

\* Mutant: the rows are counted again, and those of the copy twice.
CountedTwice(c) == Cardinality(Live) + c.made >= MaxFiles

\* count + created >= MAX_FILES
Full(c) == c.count + c.made >= MaxFiles

\* The children are read once the new row is there; the rows of an uploaded
\* file are copied without its blob, and a document whose content cannot be copied
\* is an empty one.
CopyRow(f, p) ==
    /\ copy # None /\ <<f, p>> \in copy.todo /\ ~Full(copy)
    /\ Inserted(kind[f], p, FreeName(name[f], p, None))
    /\ LET children == {i \in rows' : trash'[i] = None /\ parent'[i] = f}
           more == IF kind[f] = "folder" THEN children \X {last + 1} ELSE {}
       IN  copy' = [copy EXCEPT !.todo = (@ \ {<<f, p>>}) \cup more, !.made = @ + 1]
    /\ \/ /\ kind[f] = "doc" /\ f \in content
          /\ content' = content \cup {last + 1} /\ hollow' = hollow
       \/ /\ content' = content
          /\ hollow' = IF kind[f] = "folder" THEN hollow ELSE hollow \cup {last + 1}
    /\ UNCHANGED <<uploads, strays>>

CopyDone ==
    /\ copy # None /\ copy.todo = {}
    /\ copy' = None
    /\ UNCHANGED <<rows, last, kind, parent, name, trash, content, uploads, strays, hollow>>

\* What has been copied stays.
CopyCut ==
    /\ copy # None /\ copy.todo # {} /\ Full(copy)
    /\ copy' = None
    /\ UNCHANGED <<rows, last, kind, parent, name, trash, content, uploads, strays, hollow>>

-----------------------------------------------------------------------------
(* The trash.                                                              *)

\* DELETE /:fileId
Trash(f) ==
    /\ Idle /\ f \in Live
    /\ trash' = [i \in Ids |-> IF i \in Below(f) THEN f ELSE trash[i]]
    /\ UNCHANGED <<rows, last, kind, parent, name, content, uploads, copy, strays, hollow>>

\* Mutant: the folder asked for, or the old one, whatever has become of it.
AsWanted(p) == p

\* A folder that is gone or in the trash: the top instead.
BackTo(p) == IF p \in Folders THEN p ELSE None

\* Mutant: what comes back keeps its name.
OldName(r, p) == name[r]

NameBack(r, p) == FreeName(name[r], p, r)

\* POST /trash/:fileId/restore, to the old folder or to the one it is dragged to.
Restore(r, wanted) ==
    /\ Idle /\ r \in Roots
    /\ trash' = [i \in Ids |-> IF i \in Group(r) THEN None ELSE trash[i]]
    /\ parent' = [parent EXCEPT ![r] = BackTo(wanted)]
    /\ name' = [name EXCEPT ![r] = NameBack(r, BackTo(wanted))]
    /\ UNCHANGED <<rows, last, kind, content, uploads, copy, strays, hollow>>

\* The foreign key of parent_id: a row outside the group lies in it.
Blocked(r, gone) == \E i \in rows \ (gone \cup Group(r)) : parent[i] \in Group(r)

\* Mutant: the content of all that lies below is deleted, too.
PurgedBelow(r) == Group(r) \cup {i \in rows : r \in Above(i)}

\* deleteYdoc and deleteBlob: the content of the group.
Purged(r) == Group(r)

Rows(S) == UNION {Group(r) : r \in S}

\* The groups of S are deleted, and then the content, but not the rows, of B's.
Erase(S, B) ==
    /\ rows' = rows \ Rows(S)
    /\ content' = content \ UNION {Purged(r) : r \in S \cup B}
    /\ hollow' = (hollow \ Rows(S)) \cup Rows(B)
    /\ strays' = strays \ Rows(S)
    /\ UNCHANGED <<last, kind, parent, name, trash, uploads, copy>>

\* DELETE /trash/:fileId: the content goes first.
Purge(r) ==
    /\ Idle /\ r \in Roots
    /\ IF Blocked(r, {}) THEN Erase({}, {r}) ELSE Erase({r}, {})

\* DELETE /trash: of the groups M the caller may delete, one after the other,
\* until one is refused.  The query orders them by nothing.
EmptyTrash(M) ==
    /\ Idle /\ M # {}
    /\ \E S \in SUBSET M :
           /\ \A r \in S : ~Blocked(r, Rows(S))
           /\ \/ S = M /\ Erase(S, {})
              \/ \E r \in M \ S : Blocked(r, Rows(S)) /\ Erase(S, {r})

Next ==
    \/ List \/ ArriveUndone \/ CopyDone \/ CopyCut
    \/ \E k \in Kinds, n \in Names :
           Arrive(k, n) \/ CreateFirst(k, n)
    \/ \E k \in Kinds, n \in Names, p \in Places : Create(k, p, n)
    \/ \E p \in Places, n \in Names : UploadStart(p, n)
    \/ \E u \in uploads, k \in Kinds : UploadEnd(u, k)
    \/ \E u \in uploads : UploadSpoilt(u) \/ UploadFails(u)
    \/ \E f \in Ids, p \in Places : Move(f, p) \/ Copy(f, p) \/ CopyRow(f, p)
    \/ \E f \in Ids, n \in Names : Rename(f, n)
    \/ \E f \in Ids, p \in Places : Restore(f, p)
    \/ \E f \in Ids : Trash(f) \/ Purge(f)
    \/ \E M \in SUBSET Roots : EmptyTrash(M)

Spec == Init /\ [][Next]_vars

-----------------------------------------------------------------------------
(* Properties.                                                             *)

\* No folder lies in itself, at any depth, and no row hangs from one that is
\* gone: whatever is moved, copied, trashed and brought back, the walks up and
\* down the tree come to an end.  (Every nonempty set of rows has a topmost one.)
Rooted ==
    \A S \in SUBSET rows : S # {} => \E i \in S : parent[i] \notin S
                                              /\ parent[i] \in rows \cup {None}

\* What is not in the trash can be reached from the top, unless it was uploaded
\* into a folder that went to the trash before its body had arrived.
Reachable == \A i \in Live : parent[i] \in Folders \cup {None} \/ i \in strays

\* Two files of one folder share a name only if one of them was being uploaded
\* when its name was chosen, or if one of them is the folder a new group
\* starts with.
NamesApart ==
    \A i, j \in Live :
        /\ i # j /\ parent[i] = parent[j] /\ name[i] = name[j]
        => {i, j} \cap strays # {} \/ (parent[i] = None /\ name[i] = Seed)

\* Whatever is listed or can be brought back has its content.  The exceptions
\* are the code's: a purge the database refused after the content was deleted, the copy
\* of an uploaded file, also to another group, and a document whose first writing or
\* copying failed (hollow).
ContentKept ==
    \A i \in rows : kind[i] # "folder" => i \in content \/ i \in hollow

\* A copy stops half way only when the group has no room for what was asked, or
\* when a folder is copied into itself, which has no end.
CutForAReason ==
    [][CopyCut => copy.count + copy.size > MaxFiles \/ copy.inside]_vars

\* What the comment at files.ts:1843 promises: the rows that refer to the files
\* of the trash are deleted first, so that a purge is not refused.
PurgeErases == [][\A r \in Ids : Purge(r) => r \notin rows']_vars
=============================================================================

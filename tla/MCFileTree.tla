----------------------------- MODULE MCFileTree -----------------------------
(* Instances of FileTree for TLC.                                           *)
EXTENDS FileTree, TLC

\* A row that is gone leaves nothing behind.
TreeView ==
    <<rows, last, [i \in rows |-> <<kind[i], parent[i], name[i], trash[i]>>],
      content, uploads, copy, strays, hollow>>
\* Three rows of every kind, or four: folders and at most one document.
SmallTree ==
    /\ Cardinality((strays \ hollow) \cup {i \in rows : kind[i] = "file"})
           + Cardinality({u \in uploads : ~u.spoilt}) <= 1
    /\ \A i \in rows : name[i] <= 2
    /\ last > 3 => /\ uploads = {} /\ strays = {} /\ hollow = {}
                   /\ Cardinality({i \in rows : kind[i] # "folder"}) <= 1
                   /\ Cardinality({i \in rows : name[i] = 2}) <= 1
=============================================================================

-------------------------------- MODULE Tree --------------------------------
(***************************************************************************)
(* What a file system promises: a tree of named directories and files in    *)
(* which every operation takes effect at once or not at all, also when the   *)
(* power fails.  The tree maps the path of each object to what it holds.     *)
(***************************************************************************)
EXTENDS Sequences, Functions

CONSTANTS
    Name,       \* names of files and directories
    Payload,    \* what a file may hold
    PathMax     \* bound: the longest path

VARIABLE
    tree        \* path |-> "directory" or the sequence of payloads of a file

Path == UNION {[1..n -> Name] : n \in 1..PathMax}

\* A directory that exists; the root is the empty path.
IsDirectory(p) == p = <<>> \/ (p \in DOMAIN tree /\ tree[p].type = "directory")

\* The objects inside a directory.
Children(p) == {q \in DOMAIN tree : Len(q) = Len(p) + 1 /\ SubSeq(q, 1, Len(p)) = p}

TreeInit == tree = <<>>

Make(p, type) ==
    /\ p \notin DOMAIN tree
    /\ IsDirectory(SubSeq(p, 1, Len(p) - 1))
    /\ tree' = [q \in DOMAIN tree \cup {p} |->
                   IF q = p THEN [type |-> type, data |-> <<>>] ELSE tree[q]]

Remove(p) ==
    /\ p \in DOMAIN tree
    /\ Children(p) = {}
    /\ tree' = Restrict(tree, DOMAIN tree \ {p})

\* A file is filled when it is empty, and emptied.
Fill(p, v) ==
    /\ p \in DOMAIN tree /\ tree[p] = [type |-> "file", data |-> <<>>]
    /\ tree' = [tree EXCEPT ![p].data = <<v>>]

Empty(p) ==
    /\ p \in DOMAIN tree /\ tree[p].type = "file"
    /\ tree' = [tree EXCEPT ![p].data = <<>>]

TreeNext ==
    \E p \in Path :
        \/ \E type \in {"file", "directory"} : Make(p, type)
        \/ Remove(p)
        \/ \E v \in Payload : Fill(p, v)
        \/ Empty(p)

TreeSpec == TreeInit /\ [][TreeNext]_tree
=============================================================================

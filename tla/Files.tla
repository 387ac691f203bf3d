-------------------------------- MODULE Files --------------------------------
(***************************************************************************)
(* The file system under a tracked command and under its undo, as the      *)
(* capture tiers, the planner's probe and the file executor see it: a name *)
(* holds nothing or a node with an inode number, a kind, contents and a    *)
(* mode.  Two names with the same inode number are hard links.  The system *)
(* calls are external; they are modelled from how the code uses them.      *)
(***************************************************************************)
EXTENDS Naturals, Sequences, FiniteSets

CONSTANTS
    Paths,        \* absolute paths, as sequences of names, closed under parents
    Data,         \* file contents
    Empty,        \* the contents of a file that was just created
    Big,          \* contents above SHIM_INLINE_PREIMAGE_CAP
    Modes,        \* permission bits
    DefaultMode   \* what creat(2) under the umask leaves

ASSUME FilesAssumption ==
    /\ IsFiniteSet(Paths)
    /\ \A p \in Paths : p \in Seq(STRING) /\ p # <<>>
    /\ \A p \in Paths : Len(p) > 1 => SubSeq(p, 1, Len(p) - 1) \in Paths
    /\ Empty \in Data /\ Big \in Data
    /\ DefaultMode \in Modes

Kinds == {"file", "dir", "fifo"}

Absent == [id |-> 0, kind |-> "none", data |-> Empty, mode |-> DefaultMode]
Inodes == 1 .. (Cardinality(Paths) + 1)         \* one name each, and one temporary file
Nodes == [id : Inodes, kind : Kinds, data : Data, mode : Modes]
FileSystems == [Paths -> Nodes \cup {Absent}]

Parent(p) == SubSeq(p, 1, Len(p) - 1)
Under(p, d) == Len(p) > Len(d) /\ SubSeq(p, 1, Len(d)) = d
At(p, d) == p = d \/ Under(p, d)

Exists(fs, p) == fs[p].kind # "none"
IsFile(fs, p) == fs[p].kind = "file"
IsDir(fs, p) == p # <<>> => fs[p].kind = "dir"
Alive(fs, d) == d # <<>> => Exists(fs, d)       \* LiveStateProbe::stat of a directory
Children(fs, d) == {q \in Paths : Under(q, d) /\ Exists(fs, q)}

(* The lowest inode number in no use: freed numbers are reused. *)
FreshId(fs) == CHOOSE i \in Inodes :
                  /\ \A p \in Paths : fs[p].id # i
                  /\ \A j \in 1 .. (i - 1) : \E p \in Paths : fs[p].id = j

NewNode(fs, k, d, m) == [id |-> FreshId(fs), kind |-> k, data |-> d, mode |-> m]

(* Contents and mode belong to the inode, so every link shows the change. *)
SetData(fs, p, d) == [q \in Paths |-> IF fs[q].id = fs[p].id THEN [fs[q] EXCEPT !.data = d] ELSE fs[q]]
SetMode(fs, p, m) == [q \in Paths |-> IF fs[q].id = fs[p].id THEN [fs[q] EXCEPT !.mode = m] ELSE fs[q]]

(* What a user sees under a name: everything but the inode number. *)
Shown(n) == [kind |-> n.kind, data |-> n.data, mode |-> n.mode]
View(fs) == [p \in Paths |-> Shown(fs[p])]
-----------------------------------------------------------------------------
(* System calls.  CanX says the call succeeds, X what it then leaves.       *)

CanWrite(fs, p) == IsDir(fs, Parent(p)) /\ fs[p].kind \in {"none", "file"}
Write(fs, p, d) == IF IsFile(fs, p) THEN SetData(fs, p, d)
                   ELSE [fs EXCEPT ![p] = NewNode(fs, "file", d, DefaultMode)]

CanUnlink(fs, p) == fs[p].kind \in {"file", "fifo"}
Unlink(fs, p) == [fs EXCEPT ![p] = Absent]

CanRmdir(fs, p) == fs[p].kind = "dir" /\ Children(fs, p) = {}
RemoveTree(fs, p) == [q \in Paths |-> IF At(q, p) THEN Absent ELSE fs[q]]

CanMake(fs, p) == IsDir(fs, Parent(p)) /\ ~Exists(fs, p)
Make(fs, p, k) == [fs EXCEPT ![p] = NewNode(fs, k, Empty, DefaultMode)]

CanLink(fs, s, t) == fs[s].kind \in {"file", "fifo"} /\ CanMake(fs, t)
Link(fs, s, t) == [fs EXCEPT ![t] = fs[s]]

(* rename(2): a directory takes its contents along and replaces only an     *)
(* empty directory; renaming a link onto another link of its inode succeeds *)
(* and does nothing.                                                        *)
Suffix(q, t) == SubSeq(q, Len(t) + 1, Len(q))
CanRename(fs, f, t) ==
    /\ Exists(fs, f) /\ IsDir(fs, Parent(t)) /\ ~At(t, f)
    /\ \/ ~Exists(fs, t)
       \/ fs[f].kind # "dir" /\ fs[t].kind # "dir"
       \/ fs[f].kind = "dir" /\ CanRmdir(fs, t)
RenameFits(fs, f, t) == \A q \in Children(fs, f) : t \o Suffix(q, f) \in Paths
Rename(fs, f, t) ==
    IF fs[f].id = fs[t].id THEN fs
    ELSE [q \in Paths |->
            IF At(q, t) THEN IF f \o Suffix(q, t) \in Paths THEN fs[f \o Suffix(q, t)] ELSE Absent
            ELSE IF At(q, f) THEN Absent
            ELSE fs[q]]

(* mkdir -p, for paths whose existing ancestors are all directories. *)
CanMkdirAll(fs, d) == \A q \in Paths : At(d, q) /\ Exists(fs, q) => fs[q].kind = "dir"
MkdirAll(fs, d) ==
    LET missing == {q \in Paths : At(d, q) /\ ~Exists(fs, q)}
        free    == {i \in Inodes : \A p \in Paths : fs[p].id # i}
        ids     == CHOOSE f \in [missing -> free] : \A q, r \in missing : q # r => f[q] # f[r]
    IN  [q \in Paths |-> IF q \in missing
                         THEN [id |-> ids[q], kind |-> "dir", data |-> Empty, mode |-> DefaultMode]
                         ELSE fs[q]]
=============================================================================

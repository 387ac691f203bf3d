------------------------------- MODULE MCUndo -------------------------------
(* Instances of Undo for TLC. *)
EXTENDS Undo

A == <<"a">>
B == <<"b">>
D == <<"d">>
DA == <<"d", "a">>

MCPaths == {A, B, D, DA}
MCData == {"", "x", "y", "big"}
MCModes == {644, 600}

File(i, d) == [id |-> i, kind |-> "file", data |-> d, mode |-> 644]
Dir(i) == [id |-> i, kind |-> "dir", data |-> "", mode |-> 644]
Tree(a, b, d, da) == [p \in MCPaths |-> CASE p = A -> a [] p = B -> b [] p = D -> d [] p = DA -> da]

TreeEmpty == Tree(Absent, Absent, Absent, Absent)
TreeA == Tree(File(1, "x"), Absent, Absent, Absent)
TreeAB == Tree(File(1, "x"), File(2, "y"), Absent, Absent)
TreeD == Tree(File(1, "x"), Absent, Dir(2), File(3, "y"))

WriteTo(P, V) == {[call |-> "write", path |-> p, data |-> v] : p \in P, v \in V}
Chmod(P) == {[call |-> "chmod", path |-> p, mode |-> 600] : p \in P}
Plain(k, P) == {[call |-> k, path |-> p] : p \in P}
Links(P) == {[call |-> "link", from |-> p, path |-> q] : p \in P, q \in P}
Renames(P, canon) == {[call |-> "rename", from |-> p, path |-> q, canonical |-> c] : p \in P, q \in P, c \in canon}

Undoing(n, P, S, D0) == {[steps |-> n, policy |-> p, only |-> s, dry |-> d] : p \in P, s \in S, d \in D0}

MCTrees == {TreeEmpty, TreeA, TreeAB, TreeD}
ReqOnce == Undoing(1, {"Abort"}, {MCPaths}, {FALSE})
ReqTwo == Undoing(2, {"Abort"}, {MCPaths}, {FALSE})

MCWorld(m, T, P, C, R, commands, n) ==
    [mac |-> m, trees |-> T, procs |-> P, calls |-> C,
     requests |-> R, maxCommands |-> commands, maxCalls |-> n]

(* Contents and modes changed by two racing processes; names moved by two   *)
(* racing processes; directories and fifos made, filled and moved on macOS; *)
(* two commands undone by one request.                                      *)
ShimWorlds ==
    [files |-> MCWorld(TRUE, MCTrees, {"p1", "p2"},
                       WriteTo({A, DA}, {"x", "y"}) \cup Chmod({A}) \cup Plain("unlink", {A, DA}), ReqOnce, 1, 4),
     moves |-> MCWorld(FALSE, MCTrees, {"p1", "p2"},
                       Renames({A, B, D}, {FALSE}) \cup WriteTo({A, DA}, {"y"})
                         \cup Plain("unlink", {A, DA}) \cup Plain("rmdir", {D, B}), ReqOnce, 1, 3),
     mac   |-> MCWorld(TRUE, MCTrees, {"p1"},
                       Renames({A, B, D}, {FALSE}) \cup WriteTo({DA}, {"y"}) \cup Plain("mkdir", {D, B})
                         \cup Plain("mkfifo", {B}) \cup Plain("unlink", {B}), ReqOnce, 1, 4),
     two   |-> MCWorld(FALSE, MCTrees, {"p1"},
                       WriteTo({A, DA}, {"y"}) \cup Plain("unlink", {A}) \cup Renames({A, B}, {FALSE}), ReqTwo, 2, 2)]

(* Calls that may fail, notifications read late, edits by others, every     *)
(* policy and a --paths filter.                                             *)
WildWorlds ==
    [wild |-> MCWorld(FALSE, {TreeA, TreeD}, {"p1"},
                      WriteTo({A}, {"y"}) \cup Links({A, B}) \cup Renames({A, D}, {FALSE, TRUE})
                        \cup Plain("unlink", {B, DA}) \cup Chmod({B}) \cup Plain("rmdir", {D}),
                      Undoing(1, Policies, {MCPaths, {A, DA}}, {FALSE}), 1, 2)]
WildEdits == WriteTo({A, DA}, {"x"}) \cup Plain("unlink", {A, B}) \cup Plain("mkdir", {B})

(* mv a b where b exists. *)
OverWorlds == [over |-> MCWorld(FALSE, {TreeAB}, {"p1"}, Renames({A, B}, {FALSE}), ReqOnce, 1, 1)]

(* Two writes to one file, the first notification read late. *)
LateWorlds == [late |-> MCWorld(FALSE, {TreeA}, {"p1"}, WriteTo({A}, {"y", "big"}), ReqOnce, 1, 2)]

(* Two commands, the newer of which cannot be undone. *)
AbortWorlds == [abort |-> MCWorld(FALSE, {TreeA}, {"p1"}, Renames({A, B}, {FALSE}), ReqTwo, 2, 1)]
AbortEdits == Plain("mkdir", {B})

(* A directory made by the command and filled by somebody else. *)
RmtreeWorlds == [rmtree |-> MCWorld(TRUE, {TreeEmpty}, {"p1"}, Plain("mkdir", {D}), ReqOnce, 1, 1)]
RmtreeEdits == WriteTo({DA}, {"x"})
=============================================================================

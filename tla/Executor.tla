------------------------------ MODULE Executor ------------------------------
(***************************************************************************)
(* The orchestrator's treatment of one plan node (execute_one) and the     *)
(* file executor's effect on the file system.                              *)
(***************************************************************************)
EXTENDS Planner

Policies == {"Abort", "Skip", "Force"}

(* InverseOp::primary_path and the --paths filter; the mutant takes a       *)
(* rename by its source.                                                    *)
PrimaryPath(op) == IF op.op \in {"Rename", "CreateHardlink"} THEN op.to ELSE op.path
FilteredOutBySource(op, only) == op.path \notin only
FilteredOut(op, only) == PrimaryPath(op) \notin only

(* precondition_conflict *)
MissingConflict(op, fs) ==
    op.op \in {"RestoreMetadata", "Unlink", "Rename", "CreateHardlink"} /\ ~Exists(fs, op.path)
PhantomConflict(op, fs) ==
    \/ /\ op.op = "RecreatePath" /\ Exists(fs, op.path)
       /\ ~(op.node = "dir" /\ IsDir(fs, op.path))
    \/ op.op \in {"Rename", "CreateHardlink"} /\ Exists(fs, op.to)

ConflictOf(node, fs) ==
    CASE node.hard -> "ConflictHard"
      [] ~node.hard /\ MissingConflict(node.op, fs) -> "ConflictMissing"
      [] ~node.hard /\ ~MissingConflict(node.op, fs) /\ PhantomConflict(node.op, fs) -> "ConflictPhantom"
      [] OTHER -> "None"
-----------------------------------------------------------------------------
(* FileExecutor.  A recreated directory tolerates one that is there.        *)

(* Both restores make the missing ancestors first. *)
ParentReady(fs, p) == Alive(fs, Parent(p)) => IsDir(fs, Parent(p))
CanPlace(fs, p) == ParentReady(fs, p) /\ CanMkdirAll(fs, Parent(p))
WithParent(fs, p) == IF Alive(fs, Parent(p)) THEN fs ELSE MkdirAll(fs, Parent(p))

(* A new file under a temporary name, renamed into place: a new inode, so   *)
(* other links of the old one keep the old contents.                        *)
CanRestoreContent(op, fs) == CanPlace(fs, op.path) /\ fs[op.path].kind # "dir"
DoRestoreContent(op, fs) ==
    LET ready == WithParent(fs, op.path)
    IN  [ready EXCEPT ![op.path] = NewNode(ready, "file", op.data, DefaultMode)]

CanRecreatePath(op, fs) ==
    CanPlace(fs, op.path) /\ fs[op.path].kind \in {"none", op.node}
DoRecreatePath(op, fs) ==
    LET ready == WithParent(fs, op.path)
        there == IF op.node = "dir" /\ IsDir(ready, op.path) THEN ready
                 ELSE IF op.node = "dir" THEN Make(ready, op.path, "dir")
                 ELSE Write(ready, op.path, Empty)
    IN  SetMode(there, op.path, op.mode)

Succeeds(op, fs) ==
    \/ op.op = "RestoreContent"  /\ CanRestoreContent(op, fs)
    \/ op.op = "RestoreMetadata" /\ Exists(fs, op.path)
    \/ op.op = "Unlink"          /\ Exists(fs, op.path)
    \/ op.op = "RecreatePath"    /\ CanRecreatePath(op, fs)
    \/ op.op = "Rename"          /\ CanRename(fs, op.path, op.to) /\ RenameFits(fs, op.path, op.to)
    \/ op.op = "CreateHardlink"  /\ CanLink(fs, op.path, op.to)

Effect(op, fs) ==
    CASE op.op = "RestoreContent"  -> DoRestoreContent(op, fs)
      [] op.op = "RestoreMetadata" -> SetMode(fs, op.path, op.mode)
      [] op.op = "Unlink"          -> RemoveTree(fs, op.path)
      [] op.op = "RecreatePath"    -> DoRecreatePath(op, fs)
      [] op.op = "Rename"          -> Rename(fs, op.path, op.to)
      [] op.op = "CreateHardlink"  -> Link(fs, op.path, op.to)
-----------------------------------------------------------------------------
(* execute_one: only Force runs an op that has a conflict. *)
Runs(node, fs, only, policy) ==
    ~FilteredOut(node.op, only) /\ (ConflictOf(node, fs) = "None" \/ policy = "Force")


Outcome(node, fs, only, policy, dry) ==
    IF Runs(node, fs, only, policy)
    THEN IF dry THEN "WouldApply" ELSE IF Succeeds(node.op, fs) THEN "Applied" ELSE "Failed"
    ELSE IF FilteredOut(node.op, only) \/ policy = "Skip" THEN "Skipped"
    ELSE ConflictOf(node, fs)

After(node, fs, only, policy, dry) ==
    IF Outcome(node, fs, only, policy, dry) = "Applied" THEN Effect(node.op, fs) ELSE fs

(* run() stops the plan here. *)
Halts(outcome, policy) ==
    policy = "Abort" /\ outcome \in {"Failed", "ConflictHard", "ConflictPhantom"}
=============================================================================

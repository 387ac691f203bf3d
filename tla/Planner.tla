------------------------------- MODULE Planner -------------------------------
(***************************************************************************)
(* The undo planner's file tier: what plan() makes of the journaled events *)
(* of one command and of the file system at undo time.  A journal is a     *)
(* sequence of events in (ts, id) order.                                   *)
(***************************************************************************)
EXTENDS Files, SequencesExt

CONSTANT NoHash      \* an event without a post_content_hash

(* CaptureEvents of the file tier.  An unlink from the shim has the inode   *)
(* sentinel 0.                                                              *)
PreEvent(p, n, trusted, post) ==
    [kind |-> "pre", path |-> p, inode |-> n.id, data |-> n.data, mode |-> n.mode,
     trusted |-> trusted, post |-> post]
CreateEvent(p) == [kind |-> "create", path |-> p]
UnlinkEvent(p, i, k, m) == [kind |-> "unlink", path |-> p, inode |-> i, node |-> k, mode |-> m]
RenameEvent(f, t) == [kind |-> "rename", from |-> f, path |-> t]

(* Inverse operations of the file tier. *)
RestoreContent(e) == [op |-> "RestoreContent", path |-> e.path, inode |-> e.inode, data |-> e.data]
RestoreMetadata(e) == [op |-> "RestoreMetadata", path |-> e.path, inode |-> e.inode, mode |-> e.mode]
UnlinkOp(p) == [op |-> "Unlink", path |-> p]
RecreatePath(e) == [op |-> "RecreatePath", path |-> e.path, node |-> e.node, mode |-> e.mode]
RenameOp(f, t) == [op |-> "Rename", path |-> f, to |-> t]
CreateHardlink(s, t) == [op |-> "CreateHardlink", path |-> s, to |-> t]
-----------------------------------------------------------------------------
(* classify_replace_paths *)

EventsOf(J, k) == {e \in ToSet(J) : e.kind = k}
PathsOf(J, k) == {e.path : e \in EventsOf(J, k)}
Created(J) == PathsOf(J, "create")
Unlinked(J) == PathsOf(J, "unlink")
PreImaged(J) == PathsOf(J, "pre")
RenameDests(J) == PathsOf(J, "rename")
Trusted(J) == {e.path : e \in {x \in EventsOf(J, "pre") : x.trusted}}

(* Names of one inode, from the unlink events that carry a real inode. *)
AliasesOf(J, i) == {e.path : e \in {x \in EventsOf(J, "unlink") : x.inode = i}}
LinkGroups(J) == {i \in {e.inode : e \in EventsOf(J, "unlink")} :
                     i # 0 /\ Cardinality(AliasesOf(J, i)) > 1}
LiveAliases(J, fs, i) == {p \in AliasesOf(J, i) : fs[p].id = i}

(* A path both made (created, or the target of a rename) and unlinked. *)
Churned(J) == (Created(J) \cup RenameDests(J)) \cap Unlinked(J)

(* Of a churned path with a pre-image that is gone at undo time: its        *)
(* pre-image is put back only if a rename put something there or the        *)
(* capture is known to be from before the command.                          *)
GoneButRestorable(J, fs, p) ==
    (p \in RenameDests(J) \/ p \in Trusted(J)) /\ Alive(fs, Parent(p))

TransientPaths(J, fs) ==
    (Churned(J) \ PreImaged(J))
      \cup {p \in Churned(J) \cap PreImaged(J) : ~Exists(fs, p) /\ ~GoneButRestorable(J, fs, p)}
      \cup {p \in Created(J) \ Unlinked(J) : ~Exists(fs, p)}

(* The earliest unlink of a path decides which inode it is known by. *)
IsHardlinkDead(J, p) ==
    \E i \in LinkGroups(J), k \in DOMAIN J :
        /\ J[k].kind = "unlink" /\ J[k].path = p /\ J[k].inode = i
        /\ \A j \in 1 .. (k - 1) : ~(J[j].kind = "unlink" /\ J[j].path = p /\ J[j].inode # 0)

AtomicPaths(J, fs) ==
    {p \in Churned(J) \cap PreImaged(J) : Exists(fs, p) \/ GoneButRestorable(J, fs, p)}
      \cup {p \in (RenameDests(J) \ Unlinked(J)) \cap PreImaged(J) : Exists(fs, p)}
      \cup {p \in (Unlinked(J) \cap PreImaged(J)) \ (Created(J) \cup RenameDests(J)) :
               ~IsHardlinkDead(J, p)}

SpuriousCreates(J, fs) == {p \in (Created(J) \ Unlinked(J)) \cap Trusted(J) : Exists(fs, p)}

SubsumedCreates(J) ==
    {p \in Created(J) \ Unlinked(J) : \E d \in RenameDests(J) : At(p, d)}

HardlinkLive(J, fs) == UNION {LiveAliases(J, fs, i) : i \in LinkGroups(J)}
HardlinkSources(J, fs, p) ==
    UNION {LiveAliases(J, fs, i) : i \in {j \in LinkGroups(J) : p \in AliasesOf(J, j) /\ fs[p].id # j}}
HardlinkDead(J, fs) == {p \in Unlinked(J) : HardlinkSources(J, fs, p) # {}}
-----------------------------------------------------------------------------
(* emit_for_event and emit_for_tree_op.  Of the conflicts the planner       *)
(* annotates only Hard is honoured later: the file changed after the        *)
(* command, by its post-content hash, on a node with no other conflict.     *)

Untroubled(J, fs, e) ==
    IF e.path \in AtomicPaths(J, fs)
    THEN Exists(fs, e.path) \/ Alive(fs, Parent(e.path))
    ELSE fs[e.path].id = e.inode

HardConflict(J, fs, e) ==
    /\ Untroubled(J, fs, e)
    /\ e.post # NoHash /\ IsFile(fs, e.path) /\ fs[e.path].data # e.post

Node(op, hard) == [op |-> op, hard |-> hard]

EmitPre(J, fs, e) ==
    IF e.path \in HardlinkDead(J, fs) THEN <<>>
    ELSE <<Node(RestoreContent(e), HardConflict(J, fs, e)),
           Node(RestoreMetadata(e), HardConflict(J, fs, e))>>

EmitCreate(J, fs, e) ==
    IF e.path \in AtomicPaths(J, fs) \cup SubsumedCreates(J) \cup SpuriousCreates(J, fs) THEN <<>>
    ELSE <<Node(UnlinkOp(e.path), FALSE)>>

EmitUnlink(J, fs, e) ==
    IF e.path \in AtomicPaths(J, fs) THEN <<>>
    ELSE IF e.path \in HardlinkDead(J, fs)
         THEN <<Node(CreateHardlink(CHOOSE s \in HardlinkSources(J, fs, e.path) : TRUE, e.path), FALSE)>>
         ELSE <<Node(RecreatePath(e), FALSE)>>

EmitRename(J, fs, e) ==
    IF e.path \in AtomicPaths(J, fs) THEN <<>> ELSE <<Node(RenameOp(e.path, e.from), FALSE)>>

(* The event-level skip of plan(); event_path has no path for a rename. *)
Skipped(J, fs, e) ==
    e.kind # "rename" /\ e.path \in TransientPaths(J, fs) \cup HardlinkLive(J, fs)

EmitForEvent(J, fs, e) ==
    CASE Skipped(J, fs, e) -> <<>>
      [] e.kind = "pre"    /\ ~Skipped(J, fs, e) -> EmitPre(J, fs, e)
      [] e.kind = "create" /\ ~Skipped(J, fs, e) -> EmitCreate(J, fs, e)
      [] e.kind = "unlink" /\ ~Skipped(J, fs, e) -> EmitUnlink(J, fs, e)
      [] e.kind = "rename" -> EmitRename(J, fs, e)

(* Mutant: the inverses in the order of the events. *)
PlanForward(journal, fs) ==
    FlattenSeq([i \in 1 .. Len(journal) |-> EmitForEvent(journal, fs, journal[i])])

(* plan(): the inverses of the latest event come first. *)
Plan(journal, fs) ==
    LET live == Reverse(journal)
    IN  FlattenSeq([i \in 1 .. Len(live) |-> EmitForEvent(journal, fs, live[i])])
=============================================================================

-------------------------------- MODULE Undo --------------------------------
(***************************************************************************)
(* Commands whose processes change files under the preload shim, on paths  *)
(* no kernel tier watches, and `shit undo` of the latest of them.  The     *)
(* shim tells the daemon of each call before it is made; the daemon        *)
(* journals it; undo plans each command from its journal and the files as  *)
(* they are, newest command first, and applies the plan op by op.          *)
(***************************************************************************)
EXTENDS Executor

CONSTANTS
    Worlds,         \* by name, the platforms and programs of the histories
    Edits,          \* calls the user may make outside tracked commands
    MaxEdits,       \* bound: untracked calls
    MaxUndos,       \* bound: undo requests
    OnlyPossible,   \* programs make no call that fails when it is announced
    AckInTime       \* the daemon answers the shim within its 50 ms

(* A world fixes                                                            *)
(*   mac       whether the shim is the macOS one, which sees chmod, and     *)
(*             mkdir, mkfifo and link once they succeeded;                  *)
(*   trees     the file systems a history may start from;                   *)
(*   procs     the processes of a tracked command;                          *)
(*   calls     the calls they may make;                                     *)
(*   requests  the undo requests: [steps, policy, only, dry];               *)
(*   maxCommands and maxCalls, bounds on commands and calls of a command.   *)

VARIABLES
    world,     \* the name of this history's world
    fs,        \* the files
    phase,     \* "run": a command runs; "idle"; "undo": an undo request is served
    journals,  \* the journal of each command
    bases,     \* history: the files when each command started
    pending,   \* per process, the call that was announced and not yet made
    inbox,     \* notifications the daemon has not read yet
    calls,     \* calls announced by the running command
    edits,     \* the names untracked calls changed so far
    request,   \* the undo request being served
    cursor,    \* the command being undone
    plan,      \* what is left of its plan
    report,    \* the outcomes recorded for the request
    undos      \* requests served

vars == <<world, fs, phase, journals, bases, pending, inbox, calls, edits, request, cursor, plan, report, undos>>
command == <<world, journals, bases, pending, inbox, calls>>
undoing == <<request, cursor, plan, report, undos>>

World == Worlds[world]
NoCall == [call |-> "none"]

Init ==
    /\ world \in DOMAIN Worlds /\ fs \in World.trees
    /\ phase = "idle" /\ journals = <<>> /\ bases = <<>>
    /\ pending = [p \in World.procs |-> NoCall] /\ inbox = {} /\ calls = 0 /\ edits = <<>>
    /\ request = (CHOOSE r \in World.requests : TRUE) /\ cursor = 0 /\ plan = <<>> /\ report = <<>> /\ undos = 0
-----------------------------------------------------------------------------
(* The calls: whether the kernel lets them succeed, and what they leave.    *)
(* A write opens with O_CREAT and O_TRUNC; a rmdir is unlinkat with         *)
(* AT_REMOVEDIR, as rm -r makes it.                                         *)

Possible(f, c) ==
    \/ c.call = "write"  /\ CanWrite(f, c.path)
    \/ c.call = "chmod"  /\ Exists(f, c.path)
    \/ c.call = "unlink" /\ CanUnlink(f, c.path)
    \/ c.call = "rmdir"  /\ CanRmdir(f, c.path)
    \/ c.call \in {"mkdir", "mkfifo"} /\ CanMake(f, c.path)
    \/ c.call = "link"   /\ CanLink(f, c.from, c.path)
    \/ c.call = "rename" /\ CanRename(f, c.from, c.path) /\ RenameFits(f, c.from, c.path)

Result(f, c) ==
    CASE c.call = "write"  -> Write(f, c.path, c.data)
      [] c.call = "chmod"  -> SetMode(f, c.path, c.mode)
      [] c.call \in {"unlink", "rmdir"} -> Unlink(f, c.path)
      [] c.call = "mkdir"  -> Make(f, c.path, "dir")
      [] c.call = "mkfifo" -> Make(f, c.path, "fifo")
      [] c.call = "link"   -> Link(f, c.from, c.path)
      [] c.call = "rename" -> Rename(f, c.from, c.path)

Performed(f, c) == IF Possible(f, c) THEN Result(f, c) ELSE f
-----------------------------------------------------------------------------
(* What the shim sends before a call, as the events the daemon journals for *)
(* it.  A pre-image is a readable regular file below the inline cap.        *)

CapturePreImage(f, p) ==
    IF IsFile(f, p) /\ f[p].data # Big THEN <<PreEvent(p, f[p], FALSE, NoHash)>> ELSE <<>>

RecursivePreImages(f, d) ==
    IF d # <<>> /\ ~IsDir(f, d) THEN <<>>
    ELSE FlattenSeq(SetToSeq({CapturePreImage(f, q) : q \in Children(f, d)} \ {<<>>}))

NotifyOpen(f, p) ==
    IF CapturePreImage(f, p) # <<>> THEN CapturePreImage(f, p) ELSE <<CreateEvent(p)>>

NotifyUnlink(f, p) == CapturePreImage(f, p) \o <<UnlinkEvent(p, 0, "file", DefaultMode)>>

(* Mutant: only a rename with a pre-image is sent. *)
NotifyRenameFound(f, c) ==
    IF c.from = c.path \/ CapturePreImage(f, c.path) = <<>> THEN <<>>
    ELSE CapturePreImage(f, c.path) \o <<RenameEvent(c.from, c.path)>>

(* With a pre-image whose path is the one the caller gave, the wire carries *)
(* the target alone and the daemon finds no rename in it.                   *)
NotifyRename(f, c) ==
    IF c.from = c.path THEN <<>>
    ELSE CapturePreImage(f, c.path) \o RecursivePreImages(f, c.from)
         \o IF CapturePreImage(f, c.path) # <<>> /\ c.canonical THEN <<>>
            ELSE <<RenameEvent(c.from, c.path)>>

(* The *at resolver sends nothing when a parent directory is missing. *)
Resolvable(f, c) ==
    IsDir(f, Parent(c.path)) /\ (c.call = "rename" => IsDir(f, Parent(c.from)))

Notification(f, c) ==
    CASE ~Resolvable(f, c) -> <<>>
      [] Resolvable(f, c) /\ c.call = "write"  -> NotifyOpen(f, c.path)
      [] Resolvable(f, c) /\ c.call = "chmod"  -> IF World.mac THEN CapturePreImage(f, c.path) ELSE <<>>
      [] Resolvable(f, c) /\ c.call \in {"unlink", "rmdir"} -> NotifyUnlink(f, c.path)
      [] Resolvable(f, c) /\ c.call = "rename" -> NotifyRename(f, c)
      [] Resolvable(f, c) /\ c.call \in {"mkfifo", "link"} ->
            IF World.mac THEN <<>> ELSE <<CreateEvent(c.path)>>
      [] Resolvable(f, c) /\ c.call = "mkdir" -> <<>>

(* Mutant: mkdir is not reported. *)
NotifyCreatedNoDir(f, c) ==
    IF World.mac /\ c.call \in {"mkfifo", "link"} /\ Possible(f, c)
    THEN <<CreateEvent(c.path)>> ELSE <<>>

(* macOS reports these once they have succeeded. *)
NotifyCreated(f, c) ==
    IF World.mac /\ c.call \in {"mkdir", "mkfifo", "link"} /\ Possible(f, c)
    THEN <<CreateEvent(c.path)>> ELSE <<>>
-----------------------------------------------------------------------------
Current == Len(journals)

(* Mutant: a notification gets a position before what is already journaled. *)
JournaledFirst(events) == [journals EXCEPT ![Current] = events \o @]

(* Events get their logical time when the daemon reads the notification. *)
Journaled(events) == [journals EXCEPT ![Current] = @ \o events]

StartCommand ==
    /\ phase = "idle" /\ Current < World.maxCommands
    /\ phase' = "run"
    /\ journals' = Append(journals, <<>>) /\ bases' = Append(bases, fs)
    /\ calls' = 0
    /\ UNCHANGED <<world, fs, pending, inbox, edits, undoing>>

(* The interposer: capture, send, and wait for the answer or 50 ms. *)
Announce(p, c) ==
    /\ phase = "run" /\ pending[p] = NoCall /\ calls < World.maxCalls
    /\ OnlyPossible => Possible(fs, c)
    /\ calls' = calls + 1
    /\ pending' = [pending EXCEPT ![p] = c]
    /\ LET events == Notification(fs, c)
       IN  \/ journals' = Journaled(events) /\ inbox' = inbox
           \/ ~AckInTime /\ events # <<>> /\ inbox' = inbox \cup {<<calls, events>>}
              /\ journals' = journals
    /\ UNCHANGED <<world, fs, phase, bases, edits, undoing>>

(* The real call. *)
Perform(p) ==
    /\ pending[p] # NoCall
    /\ pending' = [pending EXCEPT ![p] = NoCall]
    /\ fs' = Performed(fs, pending[p])
    /\ journals' = Journaled(NotifyCreated(fs, pending[p]))
    /\ UNCHANGED <<world, phase, bases, inbox, calls, edits, undoing>>

(* A notification read late.  When its process is gone or its command over, *)
(* no command is found for it and it is dropped.                            *)
IngestLate(n) ==
    /\ inbox' = inbox \ {n}
    /\ \/ phase = "run" /\ journals' = Journaled(n[2])
       \/ journals' = journals
    /\ UNCHANGED <<world, fs, phase, bases, pending, calls, edits, undoing>>

EndCommand ==
    /\ phase = "run" /\ calls > 0 /\ \A p \in World.procs : pending[p] = NoCall
    /\ phase' = "idle"
    /\ UNCHANGED <<fs, command, edits, undoing>>

(* Somebody else, between commands or while an undo runs. *)
Edit(c) ==
    /\ phase # "run" /\ Len(edits) < MaxEdits /\ Possible(fs, c)
    /\ edits' = Append(edits, c.path)
    /\ fs' = Result(fs, c)
    /\ UNCHANGED <<phase, command, undoing>>
-----------------------------------------------------------------------------

(* handle_undo: the latest commands, newest first, each planned when its    *)
(* turn comes.                                                              *)
StartUndo(r) ==
    /\ phase = "idle" /\ Current > 0 /\ undos < MaxUndos
    /\ phase' = "undo"
    /\ request' = r /\ cursor' = Current /\ undos' = undos + 1
    /\ plan' = Plan(journals[Current], fs) /\ report' = <<>>
    /\ UNCHANGED <<fs, command, edits>>

(* One op of the plan; Abort gives up the rest of this command's plan. *)
Step ==
    /\ phase = "undo" /\ plan # <<>>
    /\ LET outcome == Outcome(Head(plan), fs, request.only, request.policy, request.dry)
       IN  /\ fs' = After(Head(plan), fs, request.only, request.policy, request.dry)
           /\ report' = Append(report, outcome)
           /\ plan' = IF Halts(outcome, request.policy) THEN <<>> ELSE Tail(plan)
    /\ UNCHANGED <<phase, command, edits, request, cursor, undos>>

(* The next older command, also after an aborted one. *)
NextCommand ==
    /\ phase = "undo" /\ plan = <<>>
    /\ cursor > 1 /\ Current - cursor + 1 < request.steps
    /\ cursor' = cursor - 1
    /\ plan' = Plan(journals[cursor - 1], fs)
    /\ UNCHANGED <<fs, phase, command, edits, request, report, undos>>

Served == phase = "undo" /\ plan = <<>> /\ (cursor = 1 \/ Current - cursor + 1 >= request.steps)

FinishUndo ==
    /\ Served
    /\ phase' = "idle"
    /\ UNCHANGED <<fs, command, edits, undoing>>

Next ==
    \/ StartCommand
    \/ \E p \in World.procs, c \in World.calls : Announce(p, c)
    \/ \E p \in World.procs : Perform(p)
    \/ \E n \in inbox : IngestLate(n)
    \/ EndCommand
    \/ \E c \in Edits : Edit(c)
    \/ \E r \in World.requests : StartUndo(r)
    \/ Step
    \/ NextCommand
    \/ FinishUndo

Spec == Init /\ [][Next]_vars
-----------------------------------------------------------------------------
Outcomes == {"Applied", "WouldApply", "Skipped", "Failed", "ConflictHard", "ConflictMissing", "ConflictPhantom"}

(* Every variable holds what the code keeps in it: in particular every      *)
(* system call and every inverse op leaves a well-formed file system.       *)
TypeOK ==
    /\ world \in DOMAIN Worlds /\ fs \in FileSystems /\ phase \in {"idle", "run", "undo"}
    /\ Len(bases) = Current /\ \A i \in 1 .. Current : bases[i] \in FileSystems
    /\ \A p \in World.procs : pending[p] = NoCall \/ pending[p] \in World.calls
    /\ calls \in 0 .. World.maxCalls /\ Len(edits) <= MaxEdits /\ ToSet(edits) \subseteq Paths /\ undos \in 0 .. MaxUndos
    /\ request \in World.requests /\ cursor \in 0 .. Current
    /\ ToSet(report) \subseteq Outcomes

(* An undo of everything that reported success for every op. *)
FullyApplied == ToSet(report) \subseteq {"Applied"}
UndoneInFull ==
    /\ Served /\ undos = 1 /\ edits = <<>>
    /\ request.only = Paths /\ ~request.dry /\ FullyApplied
Differs(p) == Shown(fs[p]) # Shown(bases[cursor][p])

(* When every op of an undo was applied, the user's files are as they were  *)
(* before the commands (README.md: no silent partial undo).                 *)
NoSilentPartialUndo == UndoneInFull => \A p \in Paths : ~Differs(p)

(* The shapes the planner's classification gives up on, per journal: a name *)
(* made and unlinked by the command; both names of a rename onto a name     *)
(* with a pre-image, or of a file the command itself created.               *)
Lossy(J) ==
    Churned(J)
      \cup UNION {{e.from, e.path} : e \in {r \in EventsOf(J, "rename") :
                                              r.path \in PreImaged(J) \cup Created(J) \/ r.from \in Created(J)}}


Named(J) == {e.path : e \in ToSet(J)} \cup {e.from : e \in EventsOf(J, "rename")}
Selected(J, only) == {q \in Named(J) : q \in only \/ \E e \in EventsOf(J, "rename") : e.path = q /\ e.from \in only}

(* Whatever the policy, the journal's order, calls that failed and edits by *)
(* others in between: an undo step changes only names that an event of the  *)
(* command being undone names and --paths lets through, what is below them, *)
(* their hard links, and missing ancestor directories of them (execute_one, *)
(* FileExecutor).                                                           *)
UndoStaysLocal ==
    [][(phase = "undo" /\ edits' = edits) =>
        \A p \in Paths : Shown(fs'[p]) # Shown(fs[p]) =>
            \E q \in Selected(journals[cursor], request.only) :
                \/ At(p, q) \/ (Exists(fs, q) /\ fs[p].id = fs[q].id)
                \/ (Under(q, p) /\ ~Exists(fs, p) /\ IsDir(fs', p))]_vars

(* What an undo removes with a directory was made by the command: a file    *)
(* somebody else made, that the command's journal does not name, stays      *)
(* (unlink_inner).                                                          *)
OthersFilesKept ==
    [][(phase = "undo" /\ edits' = edits) =>
        \A p \in ToSet(edits) \ Named(journals[cursor]) : Exists(fs, p) => Exists(fs', p)]_vars

(* Nothing overtakes a pre-mutation snapshot (handle_one): of a file that   *)
(* was there before the command and that the command moved nowhere, the     *)
(* first snapshot in the journal is the one of its content from before.     *)
Moved(J) == {e.path : e \in EventsOf(J, "rename")} \cup {e.from : e \in EventsOf(J, "rename")}
SnapshotFirst ==
    \A i \in 1 .. Current, p \in Paths :
        LET snaps == SelectSeq(journals[i], LAMBDA e : e.kind = "pre" /\ e.path = p)
        IN  (IsFile(bases[i], p) /\ snaps # <<>> /\ \A q \in Moved(journals[i]) : ~At(p, q))
              => snaps[1].data = bases[i][p].data

(* Abort: nothing is attempted after the first blocking outcome             *)
(* (shit undo --on-conflict).                                               *)
AbortHalts ==
    request.policy = "Abort" =>
        \A i \in 1 .. (Len(report) - 1) : ~Halts(report[i], "Abort")
=============================================================================

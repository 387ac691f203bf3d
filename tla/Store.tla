-------------------------------- MODULE Store --------------------------------
(***************************************************************************)
(* The journal store of shitd: the sqlite index (commands, events, blob    *)
(* rows with their refcounts, pins, holds, container stashes), the         *)
(* content-addressed blob files on disk, the capture handlers that write   *)
(* both, and the garbage collector that removes from both.                 *)
(*                                                                         *)
(* Who runs concurrently.  The daemon is a current-thread tokio runtime.   *)
(* Every capture handler (helper dispatch, shim listener, redirect         *)
(* pre-stash, container event) runs on that one thread without awaiting    *)
(* inside, so at most one is in progress: the variable "job".  Garbage     *)
(* collection passes run in spawn_blocking threads: the periodic loop's    *)
(* pass and any number of `shit gc` passes: the variable "gc".  The index  *)
(* is one connection behind a mutex, so one index call is one step; the    *)
(* blob files are behind no lock, so one file-system call is one step.     *)
(***************************************************************************)
EXTENDS Integers, FiniteSets

CONSTANTS
    Commands,     \* command ids (session, seq)
    NoCmd,        \* a capture that belongs to no command
    Blobs,        \* content hashes
    Passes,       \* GC pass threads
    LoopPass,     \* the pass thread of the daemon's periodic loop
    Tiers,        \* capture tiers in use on this platform
    LoopConfig,   \* GcConfig of the periodic loop: [age, cap]
    CtlConfigs,   \* GcConfigs a `shit gc` request can ask for
    BatchSize,    \* GcConfig.batch_size
    MaxLogical,   \* stands for u64::MAX saturated to i64::MAX
    MaxEvents,    \* bound: events journaled in a behaviour
    MaxClock,     \* bound: the logical clock
    MaxTick,      \* bound: the loop's pass counter saturates here
    MaxFaults     \* bound: crashes and I/O errors in a behaviour

AllTiers == {"preimage", "baseline", "container"}

GcConfigs == [age : Nat, cap : Nat]

ASSUME StoreAssumption ==
    /\ IsFiniteSet(Commands)
    /\ IsFiniteSet(Blobs)
    /\ Tiers \subseteq AllTiers
    /\ LoopConfig \in GcConfigs
    /\ CtlConfigs \subseteq GcConfigs
    /\ BatchSize \in Nat \ {0}
    /\ MaxClock \in Nat
    /\ MaxTick \in Nat
    /\ MaxEvents \in Nat
    /\ MaxFaults \in Nat
    /\ MaxLogical \in Nat
    /\ MaxClock < MaxLogical

VARIABLES
    commands,   \* rows of the commands table
    started,    \* started_logical of a command, 0 before its PreExec
    events,     \* rows of the events table that carry a blob hash
    nextId,     \* AUTOINCREMENT counter of events.id
    rows,       \* rows of the blobs table
    refcount,   \* blobs.refcount (0 for a hash with no row)
    files,      \* blob files under blobs/
    tmp,        \* number of leftover files under tmp/
    pins,       \* rows of the pins table
    holds,      \* commands with a row in the holds table
    stashes,    \* rows of the container_stashes table
    baseline,   \* hashes cached in the in-memory LiveBaseline
    clock,      \* LOGICAL_CLOCK, in memory
    tick,       \* the GC loop's pass counter, in memory
    job,        \* the capture handler in progress on the runtime thread
    gc,         \* state of each GC pass thread
    faults      \* crashes and I/O errors so far

index == <<commands, started, events, nextId, rows, refcount>>
disk  == <<files, tmp>>
guard == <<pins, holds, stashes>>
mem   == <<baseline, clock, tick>>
vars  == <<index, disk, guard, mem, job, gc, faults>>

EventRows == [id : Nat, cmd : Commands, blob : Blobs]

JobSteps == {"stat", "rename", "record", "cache", "stash", "event"}
Jobs == [step : JobSteps, tier : AllTiers, cmd : Commands \cup {NoCmd}, blob : Blobs]
Idle == [step |-> "idle"]

GcSteps == {"idle", "mark", "reap", "list", "sweep", "drop"}
GcStates == [step : GcSteps, cutoff : Nat, batch : SUBSET Commands,
             sweep : SUBSET Blobs, cur : SUBSET Blobs]
NewPass == [step |-> "idle", cutoff |-> 0, batch |-> {}, sweep |-> {}, cur |-> {}]

(* Events that reference blob h. *)
RefsTo(h) == {e \in events : e.blob = h}

(* Commands a pin or a hold protects from the collector. *)
Protected == pins \cup holds

TypeOK ==
    /\ commands \subseteq Commands
    /\ started \in [Commands -> Nat]
    /\ events \subseteq EventRows
    /\ IsFiniteSet(events)
    /\ nextId \in Nat
    /\ rows \subseteq Blobs
    /\ refcount \in [Blobs -> Nat]
    /\ files \subseteq Blobs
    /\ tmp \in Nat
    /\ pins \subseteq Commands
    /\ holds \subseteq Commands
    /\ stashes \subseteq Blobs
    /\ baseline \subseteq Blobs
    /\ clock \in Nat
    /\ tick \in Nat
    /\ job \in Jobs \cup {Idle}
    /\ gc \in [Passes -> GcStates]
    /\ faults \in Nat

Init ==
    /\ commands = {} /\ started = [c \in Commands |-> 0]
    /\ events = {} /\ nextId = 1
    /\ rows = {} /\ refcount = [h \in Blobs |-> 0]
    /\ files = {} /\ tmp = 0
    /\ pins = {} /\ holds = {} /\ stashes = {}
    /\ baseline = {} /\ clock = 1 /\ tick = 1
    /\ job = Idle
    /\ gc = [g \in Passes |-> NewPass]
    /\ faults = 0
-----------------------------------------------------------------------------
(* Command rows, pins, holds and stashes: single index calls on the runtime *)
(* thread, so only between capture handlers.                                *)

(* PreExec: next_ts stamps the row.  A command id is used once. *)
PutCommand(c) ==
    /\ job = Idle
    /\ started[c] = 0
    /\ clock < MaxClock
    /\ commands' = commands \cup {c}
    /\ started' = [started EXCEPT ![c] = clock]
    /\ clock' = clock + 1
    /\ UNCHANGED <<events, nextId, rows, refcount, disk, guard, baseline, tick, job, gc, faults>>

(* `shit pin`: the id is not checked against the commands table, and no     *)
(* request removes a pin.                                                   *)
PinCommand(c) ==
    /\ job = Idle
    /\ pins' = pins \cup {c}
    /\ UNCHANGED <<index, disk, holds, stashes, mem, job, gc, faults>>

(* holds::create; the foreign key needs the command row. *)
CreateHold(c) ==
    /\ c \in commands
    /\ holds' = holds \cup {c}
    /\ UNCHANGED <<index, disk, pins, stashes, mem, job, gc, faults>>

(* holds::release and holds::sweep_expired. *)
ReleaseHold(c) ==
    /\ c \in holds
    /\ holds' = holds \ {c}
    /\ UNCHANGED <<index, disk, pins, stashes, mem, job, gc, faults>>

(* `shit container-stashes prune`: removes stash rows and nothing else. *)
PruneStashes ==
    /\ job = Idle
    /\ stashes # {}
    /\ \E S \in SUBSET stashes : S # {} /\ stashes' = stashes \ S
    /\ UNCHANGED <<index, disk, pins, holds, mem, job, gc, faults>>

(* reap_commands: one transaction over a batch; a command pinned or held by *)
(* now is skipped; every event of a dropped command takes one off its       *)
(* blob's refcount, never below zero.                                       *)
ReapableUnguarded(batch) == batch \cap commands       \* mutant: no TOCTOU check
Reapable(batch) == (batch \cap commands) \ Protected

(* Mutants: the refcount is decremented once per distinct hash; the          *)
(* decrement is not clamped at zero.                                         *)
ReapDistinct(batch) ==
    LET gone == {e \in events : e.cmd \in Reapable(batch)}
        less(h) == IF \E e \in gone : e.blob = h THEN 1 ELSE 0
    IN  /\ commands' = commands \ Reapable(batch)
        /\ events' = events \ gone
        /\ refcount' = [h \in Blobs |->
                          IF refcount[h] > less(h) THEN refcount[h] - less(h) ELSE 0]
        /\ UNCHANGED <<started, nextId, rows>>

ReapUnclamped(batch) ==
    LET gone == {e \in events : e.cmd \in Reapable(batch)}
        less(h) == Cardinality({e \in gone : e.blob = h})
    IN  /\ commands' = commands \ Reapable(batch)
        /\ events' = events \ gone
        /\ refcount' = [h \in Blobs |-> IF h \in rows THEN refcount[h] - less(h) ELSE 0]
        /\ UNCHANGED <<started, nextId, rows>>

ReapCommands(batch) ==
    LET gone == {e \in events : e.cmd \in Reapable(batch)}
        less(h) == Cardinality({e \in gone : e.blob = h})
    IN  /\ commands' = commands \ Reapable(batch)
        /\ events' = events \ gone
        /\ refcount' = [h \in Blobs |->
                          IF refcount[h] > less(h) THEN refcount[h] - less(h) ELSE 0]
        /\ UNCHANGED <<started, nextId, rows>>

(* `shit forget` *)
Forget(c) ==
    /\ job = Idle
    /\ c \in commands
    /\ ReapCommands({c})
    /\ UNCHANGED <<disk, guard, mem, job, gc, faults>>
-----------------------------------------------------------------------------
(* Capture handlers.  BlobStore::put first asks whether the final file is   *)
(* there; if so it only stats it, otherwise it writes a file under tmp/,    *)
(* syncs it and renames it into place.                                      *)

StartPut(t, c, h) ==
    /\ job = Idle
    /\ t \in Tiers
    /\ job' = [step |-> IF h \in files THEN "stat" ELSE "rename",
               tier |-> t, cmd |-> c, blob |-> h]
    /\ UNCHANGED <<index, disk, guard, mem, gc, faults>>

(* handle_captured_pre_image, ingest_pre_image, stash_truncate: the pre-image *)
(* of a file a command is changing.                                           *)
CapturePreImage(c, h) == nextId <= MaxEvents /\ StartPut("preimage", c, h)

(* handle_baseline_captured: content walked before any command changed it. *)
CaptureBaseline(h) == StartPut("baseline", NoCmd, h)

(* container_track::handle with an inline tarball; the command was resolved *)
(* from the active windows.                                                 *)
CaptureContainer(c, h) == nextId <= MaxEvents /\ StartPut("container", c, h)


(* What follows put in each handler. *)
AfterPut == IF job.tier = "container" THEN "stash" ELSE "record"

(* The stat of a file that exists() saw and that is still there. *)
PutExisting ==
    /\ job.step = "stat"
    /\ job.blob \in files
    /\ job' = [job EXCEPT !.step = AfterPut]
    /\ UNCHANGED <<index, disk, guard, mem, gc, faults>>

PutRename ==
    /\ job.step = "rename"
    /\ files' = files \cup {job.blob}
    /\ job' = [job EXCEPT !.step = AfterPut]
    /\ UNCHANGED <<index, tmp, guard, mem, gc, faults>>

(* put_blob_record: a new row starts at 0, an existing row is left alone. *)
PutBlobRecord ==
    /\ job.step = "record"
    /\ rows' = rows \cup {job.blob}
    /\ job' = [job EXCEPT !.step = IF job.tier = "baseline" THEN "cache" ELSE "event"]
    /\ UNCHANGED <<commands, started, events, nextId, refcount, disk, guard, mem, gc, faults>>

(* The baseline hash enters the in-memory cache. *)
CacheBaseline ==
    /\ job.step = "cache"
    /\ baseline' = baseline \cup {job.blob}
    /\ job' = Idle
    /\ UNCHANGED <<index, disk, guard, clock, tick, gc, faults>>

(* container_stash::register; no blobs row is written for a stash. *)
RegisterStash ==
    /\ job.step = "stash"
    /\ stashes' = stashes \cup {job.blob}
    /\ job' = [job EXCEPT !.step = "event"]
    /\ UNCHANGED <<index, disk, pins, holds, mem, gc, faults>>

(* CapturedPreImage for an inode with a cached baseline: the cached hash is *)
(* journaled; neither the file nor the row is looked at again.              *)
PromoteBaseline(c, h) ==
    /\ job = Idle
    /\ nextId <= MaxEvents
    /\ h \in baseline
    /\ job' = [step |-> "event", tier |-> "baseline", cmd |-> c, blob |-> h]
    /\ UNCHANGED <<index, disk, guard, mem, gc, faults>>

(* put_event: one transaction.  The foreign key refuses an event of a       *)
(* command that is gone; the refcount update matches no row when the blob   *)
(* has none.                                                                *)
PutEvent ==
    /\ job.step = "event"
    /\ IF job.cmd \in commands
          THEN /\ events' = events \cup {[id |-> nextId, cmd |-> job.cmd, blob |-> job.blob]}
               /\ nextId' = nextId + 1
               /\ refcount' = IF job.blob \in rows
                                THEN [refcount EXCEPT ![job.blob] = @ + 1]
                                ELSE refcount
          ELSE UNCHANGED <<events, nextId, refcount>>
    /\ job' = Idle
    /\ UNCHANGED <<commands, started, rows, disk, guard, mem, gc, faults>>

(* A handler that stops between tmp write and rename leaves its tmp file. *)
AbandonTmp == tmp' = IF job.step = "rename" THEN tmp + 1 ELSE tmp

(* Any step of a handler can return an I/O or sqlite error; the handler     *)
(* logs it and is done.  What it already wrote stays.                       *)
JobFails ==
    /\ job # Idle
    /\ faults < MaxFaults
    /\ faults' = faults + 1
    /\ job' = Idle
    /\ AbandonTmp
    /\ UNCHANGED <<index, files, guard, mem, gc>>
-----------------------------------------------------------------------------
(* Garbage collection: run_pass. *)

StoreSize == Cardinality(rows)      \* total_blob_size, every blob of size 1

Config(g) == IF g = LoopPass THEN {LoopConfig} ELSE CtlConfigs
NowLogical(g) == IF g = LoopPass THEN tick ELSE 1

(* The size cap, or nine tenths of it, makes everything old enough. *)
Aggressive(cfg) == StoreSize > cfg.cap \/ StoreSize * 10 >= cfg.cap * 9

AgeCutoff(cfg, now) ==
    IF Aggressive(cfg) THEN MaxLogical
    ELSE IF now > cfg.age THEN now - cfg.age ELSE 0

GcStart(g) ==
    /\ gc[g].step = "idle"
    /\ \E cfg \in Config(g) :
         gc' = [gc EXCEPT ![g].step = "mark", ![g].cutoff = AgeCutoff(cfg, NowLogical(g))]
    /\ tick' = IF g = LoopPass /\ tick < MaxTick THEN tick + 1 ELSE tick
    /\ UNCHANGED <<index, disk, guard, baseline, clock, job, faults>>

(* mark_expired_batch: the oldest unprotected commands below the cutoff.    *)
(* The importance column keeps its default in the daemon.                   *)
Expired(cutoff) == {c \in commands \ Protected : started[c] < cutoff}

IsBatch(B, E) ==
    /\ B \subseteq E
    /\ Cardinality(B) = IF Cardinality(E) < BatchSize THEN Cardinality(E) ELSE BatchSize
    /\ \A b \in B, e \in E \ B : started[b] <= started[e]

GcMark(g) ==
    /\ gc[g].step = "mark"
    /\ \E B \in SUBSET commands :
         /\ IsBatch(B, Expired(gc[g].cutoff))
         /\ gc' = [gc EXCEPT ![g].step = IF B = {} THEN "list" ELSE "reap", ![g].batch = B]
    /\ UNCHANGED <<index, disk, guard, mem, job, faults>>

GcReap(g) ==
    /\ gc[g].step = "reap"
    /\ ReapCommands(gc[g].batch)
    /\ gc' = [gc EXCEPT ![g].step = IF Reapable(gc[g].batch) = {} THEN "list" ELSE "mark",
                        ![g].batch = {}]
    /\ UNCHANGED <<disk, guard, mem, job, faults>>

(* Mutant: rows whose file is already gone are left out of the sweep. *)
GcListOnDisk(g) ==
    /\ gc[g].step = "list"
    /\ gc' = [gc EXCEPT ![g].step = "sweep",
                        ![g].sweep = {h \in rows \cap files : refcount[h] = 0}]
    /\ UNCHANGED <<index, disk, guard, mem, job, faults>>

(* unreferenced_blobs: a snapshot of the rows at refcount 0. *)
GcList(g) ==
    /\ gc[g].step = "list"
    /\ gc' = [gc EXCEPT ![g].step = "sweep", ![g].sweep = {h \in rows : refcount[h] = 0}]
    /\ UNCHANGED <<index, disk, guard, mem, job, faults>>

(* The file goes first; its removal is best effort. *)
GcDeleteFile(g, h) ==
    /\ gc[g].step = "sweep"
    /\ h \in gc[g].sweep
    /\ gc' = [gc EXCEPT ![g].step = "drop", ![g].cur = {h}]
    /\ \/ files' = files \ {h} /\ UNCHANGED faults
       \/ h \in files /\ faults < MaxFaults /\ faults' = faults + 1 /\ UNCHANGED files
    /\ UNCHANGED <<index, tmp, guard, mem, job>>

(* Mutant: the row goes whatever its refcount is by now. *)
GcDropRowBlindly(g) ==
    /\ gc[g].step = "drop"
    /\ rows' = rows \ gc[g].cur
    /\ gc' = [gc EXCEPT ![g].step = "sweep", ![g].sweep = @ \ gc[g].cur, ![g].cur = {}]
    /\ UNCHANGED <<commands, started, events, nextId, refcount, disk, guard, mem, job, faults>>

(* drop_blob_record: deletes the row only if its refcount is 0 by now. *)
GcDropRow(g) ==
    /\ gc[g].step = "drop"
    /\ rows' = rows \ {h \in gc[g].cur : refcount[h] = 0}
    /\ gc' = [gc EXCEPT ![g].step = "sweep", ![g].sweep = @ \ gc[g].cur, ![g].cur = {}]
    /\ UNCHANGED <<commands, started, events, nextId, refcount, disk, guard, mem, job, faults>>

(* Compaction of path history and VACUUM touch none of this state. *)
GcFinish(g) ==
    /\ gc[g].step = "sweep"
    /\ gc[g].sweep = {}
    /\ gc' = [gc EXCEPT ![g] = NewPass]
    /\ UNCHANGED <<index, disk, guard, mem, job, faults>>

GcStep(g) ==
    \/ GcMark(g) \/ GcReap(g) \/ GcList(g)
    \/ (\E h \in Blobs : GcDeleteFile(g, h))
    \/ GcDropRow(g) \/ GcFinish(g)
-----------------------------------------------------------------------------
(* The daemon dies and is started again: memory is lost, the index and the  *)
(* files stay as they are, and the logical clock starts over.               *)
DaemonRestart ==
    /\ job' = Idle
    /\ gc' = [g \in Passes |-> NewPass]
    /\ baseline' = {}
    /\ clock' = 1
    /\ tick' = 1
    /\ AbandonTmp
    /\ UNCHANGED <<index, files, guard>>

Crash ==
    /\ faults < MaxFaults
    /\ faults' = faults + 1
    /\ DaemonRestart

(* The stat of a file that exists() saw and that a sweep has since removed: *)
(* expect("just-confirmed file is gone?") panics, and the release build     *)
(* aborts on panic.                                                         *)
PutExistingGone ==
    /\ job.step = "stat"
    /\ job.blob \notin files
    /\ DaemonRestart
    /\ UNCHANGED faults

CaptureStep ==
    \/ PutExisting \/ PutExistingGone \/ PutRename \/ PutBlobRecord
    \/ CacheBaseline \/ RegisterStash \/ PutEvent

Next ==
    \/ \E c \in Commands :
         \/ PutCommand(c) \/ PinCommand(c) \/ CreateHold(c) \/ ReleaseHold(c) \/ Forget(c)
         \/ \E h \in Blobs :
              CapturePreImage(c, h) \/ CaptureContainer(c, h) \/ PromoteBaseline(c, h)
    \/ \E h \in Blobs : CaptureBaseline(h)
    \/ CaptureStep
    \/ JobFails
    \/ PruneStashes
    \/ \E g \in Passes : GcStart(g) \/ GcStep(g)
    \/ Crash

Spec == Init /\ [][Next]_vars

(* The loop's timer keeps firing and a blocking thread, once started, runs;  *)
(* capture handlers run to completion.                                       *)
FairSpec ==
    /\ Spec
    /\ WF_vars(CaptureStep)
    /\ \A g \in Passes : WF_vars(GcStep(g))
    /\ WF_vars(\E g \in Passes : g = LoopPass /\ GcStart(g))
-----------------------------------------------------------------------------
(* Refcounts never exceed the number of events that reference the blob,     *)
(* whatever mix of captures, reaps, forgets, sweeps, failed handlers and    *)
(* crashes came before.  So a blob no event references any more is at 0 and *)
(* unreferenced_blobs finds it: refcounting leaks nothing.                  *)
RefcountNeverOver == \A h \in Blobs : refcount[h] <= Cardinality(RefsTo(h))

(* Event ids come from AUTOINCREMENT and are never reused. *)
IdsFresh == \A e \in events : e.id < nextId

(* A blob with a counted reference keeps its row: the sweep's snapshot can   *)
(* be stale by the time drop_blob_record runs, and the refcount test there   *)
(* is what protects an event journaled in between.                           *)
CountedRowKept == \A h \in Blobs : refcount[h] > 0 => h \in rows

(* A command that is pinned or held loses neither its row nor any of its     *)
(* events in a step, even if the collector marked it before the pin landed.  *)
ProtectedKept ==
    [][\A c \in commands \cap Protected :
          c \in commands' /\ {e \in events : e.cmd = c} \subseteq events']_vars



(* A blob row no event references is eventually dropped by the periodic      *)
(* loop or referenced again, provided the daemon stops dying in put.         *)
GarbageSwept ==
    (<>[][~PutExistingGone]_vars) =>
       \A h \in Blobs : (h \in rows /\ RefsTo(h) = {}) ~> (h \notin rows \/ RefsTo(h) # {})

=============================================================================
